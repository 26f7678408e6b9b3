----------------------------- MODULE MessageTables -----------------------------
(***************************************************************************)
(* What protoc generated for the messages of proto/mini2.proto, as tables   *)
(* that Messages gives their meaning: what each generated function does to  *)
(* which field, under which has-bit.  Every function has its own list, in   *)
(* its own order, as it has in cpp/mini2.pb.cc; they agree or they do not.  *)
(*                                                                          *)
(*   M_Impl        the members, in the order they have in memory            *)
(*   M_table       of the parser, by field number: field, has-bit, type     *)
(*   M_accessors   the has-bit that the setters of a field set              *)
(*   M_Clear       the bits that are tested (none: always done), and the    *)
(*                 first and the last of the members in memory to be reset  *)
(*   M_Serialize   in the order of the output: field, has-bit, number       *)
(*   M_ByteSize    the bits that are tested, and under them: field, has-bit, *)
(*                 bytes of the tag                                         *)
(*   M_Merge       the bits that are tested, and under them: field, has-bit *)
(***************************************************************************)
EXTENDS Integers, Sequences

-----------------------------------------------------------------------------
(* TimeRangeQuery                                                           *)
TimeRangeQuery_Impl ==
    <<"start_time", "end_time">>

TimeRangeQuery_table ==
    <<<<"start_time", 0, "int64">>, <<"end_time", 1, "int64">>>>

TimeRangeQuery_accessors ==
    [start_time |-> 0, end_time |-> 1]

TimeRangeQuery_Clear ==
    <<<<{0, 1}, "start_time", "end_time">>>>

TimeRangeQuery_Serialize ==
    <<<<"start_time", 0, 1>>, <<"end_time", 1, 2>>>>

TimeRangeQuery_ByteSize ==
    <<<<{0, 1}, <<<<"start_time", 0, 1>>, <<"end_time", 1, 1>>>>>>>>

TimeRangeQuery_Merge ==
    <<<<{0, 1}, <<<<"start_time", 0>>, <<"end_time", 1>>>>>>>>

-----------------------------------------------------------------------------
(* NumericRangeQuery                                                        *)
NumericRangeQuery_Impl ==
    <<"min_val", "max_val">>

NumericRangeQuery_table ==
    <<<<"min_val", 0, "double">>, <<"max_val", 1, "double">>>>

NumericRangeQuery_accessors ==
    [min_val |-> 0, max_val |-> 1]

NumericRangeQuery_Clear ==
    <<<<{0, 1}, "min_val", "max_val">>>>

NumericRangeQuery_Serialize ==
    <<<<"min_val", 0, 1>>, <<"max_val", 1, 2>>>>

NumericRangeQuery_ByteSize ==
    <<<<{0, 1}, <<<<"min_val", 0, 1>>, <<"max_val", 1, 1>>>>>>>>

NumericRangeQuery_Merge ==
    <<<<{0, 1}, <<<<"min_val", 0>>, <<"max_val", 1>>>>>>>>

-----------------------------------------------------------------------------
(* IntRangeQuery                                                            *)
IntRangeQuery_Impl ==
    <<"min_val", "max_val">>

IntRangeQuery_table ==
    <<<<"min_val", 0, "int32">>, <<"max_val", 1, "int32">>>>

IntRangeQuery_accessors ==
    [min_val |-> 0, max_val |-> 1]

IntRangeQuery_Clear ==
    <<<<{0, 1}, "min_val", "max_val">>>>

IntRangeQuery_Serialize ==
    <<<<"min_val", 0, 1>>, <<"max_val", 1, 2>>>>

IntRangeQuery_ByteSize ==
    <<<<{0, 1}, <<<<"min_val", 0, 1>>, <<"max_val", 1, 1>>>>>>>>

IntRangeQuery_Merge ==
    <<<<{0, 1}, <<<<"min_val", 0>>, <<"max_val", 1>>>>>>>>

-----------------------------------------------------------------------------
(* CombinedQuery                                                            *)
CombinedQuery_Impl ==
    <<"time_range", "distance_range", "passenger_range">>

CombinedQuery_table ==
    <<<<"time_range", 0, "TimeRangeQuery">>, <<"distance_range", 1, "NumericRangeQuery">>,
      <<"passenger_range", 2, "IntRangeQuery">>>>

CombinedQuery_accessors ==
    [time_range |-> 0, distance_range |-> 1, passenger_range |-> 2]

CombinedQuery_Clear ==
    <<<<{0}, "time_range", "time_range">>, <<{1}, "distance_range", "distance_range">>,
      <<{2}, "passenger_range", "passenger_range">>>>

CombinedQuery_Serialize ==
    <<<<"time_range", 0, 1>>, <<"distance_range", 1, 2>>, <<"passenger_range", 2, 3>>>>

CombinedQuery_ByteSize ==
    <<<<0 .. 2, <<<<"time_range", 0, 1>>, <<"distance_range", 1, 1>>,
      <<"passenger_range", 2, 1>>>>>>>>

CombinedQuery_Merge ==
    <<<<0 .. 2, <<<<"time_range", 0>>, <<"distance_range", 1>>,
      <<"passenger_range", 2>>>>>>>>

-----------------------------------------------------------------------------
(* QueryRequest                                                             *)
QueryRequest_Impl ==
    <<"request_id", "query_type", "time_query", "numeric_query", "int_query",
      "combined_query", "bft_meta">>

QueryRequest_table ==
    <<<<"request_id", 0, "string">>, <<"query_type", 1, "string">>,
      <<"time_query", 2, "TimeRangeQuery">>, <<"numeric_query", 3, "NumericRangeQuery">>,
      <<"int_query", 4, "IntRangeQuery">>, <<"combined_query", 5, "CombinedQuery">>,
      <<"bft_meta", 6, "BftMetadata">>>>

QueryRequest_accessors ==
    [request_id |-> 0, query_type |-> 1, time_query |-> 2, numeric_query |-> 3,
     int_query |-> 4, combined_query |-> 5, bft_meta |-> 6]

QueryRequest_Clear ==
    <<<<{0}, "request_id", "request_id">>, <<{1}, "query_type", "query_type">>,
      <<{2}, "time_query", "time_query">>, <<{3}, "numeric_query", "numeric_query">>,
      <<{4}, "int_query", "int_query">>, <<{5}, "combined_query", "combined_query">>,
      <<{6}, "bft_meta", "bft_meta">>>>

QueryRequest_Serialize ==
    <<<<"request_id", 0, 1>>, <<"query_type", 1, 2>>, <<"time_query", 2, 3>>,
      <<"numeric_query", 3, 4>>, <<"int_query", 4, 5>>, <<"combined_query", 5, 6>>,
      <<"bft_meta", 6, 7>>>>

QueryRequest_ByteSize ==
    <<<<0 .. 6, <<<<"request_id", 0, 1>>, <<"query_type", 1, 1>>, <<"time_query", 2, 1>>,
      <<"numeric_query", 3, 1>>, <<"int_query", 4, 1>>, <<"combined_query", 5, 1>>,
      <<"bft_meta", 6, 1>>>>>>>>

QueryRequest_Merge ==
    <<<<0 .. 6, <<<<"request_id", 0>>, <<"query_type", 1>>, <<"time_query", 2>>,
      <<"numeric_query", 3>>, <<"int_query", 4>>, <<"combined_query", 5>>,
      <<"bft_meta", 6>>>>>>>>

-----------------------------------------------------------------------------
(* TripRecordMsg                                                            *)
TripRecordMsg_Impl ==
    <<"pickup_timestamp", "vendor_id", "passenger_count", "dropoff_timestamp",
      "trip_distance", "rate_code_id", "store_and_fwd_flag", "pu_location_id",
      "do_location_id", "fare_amount", "extra", "mta_tax", "tip_amount", "tolls_amount",
      "improvement_surcharge", "total_amount", "payment_type">>

TripRecordMsg_table ==
    <<<<"vendor_id", 1, "int32">>, <<"pickup_timestamp", 0, "int64">>,
      <<"dropoff_timestamp", 3, "int64">>, <<"passenger_count", 2, "int32">>,
      <<"trip_distance", 4, "double">>, <<"rate_code_id", 5, "int32">>,
      <<"store_and_fwd_flag", 6, "bool">>, <<"pu_location_id", 7, "int32">>,
      <<"do_location_id", 8, "int32">>, <<"payment_type", 16, "int32">>,
      <<"fare_amount", 9, "double">>, <<"extra", 10, "double">>,
      <<"mta_tax", 11, "double">>, <<"tip_amount", 12, "double">>,
      <<"tolls_amount", 13, "double">>, <<"improvement_surcharge", 14, "double">>,
      <<"total_amount", 15, "double">>>>

TripRecordMsg_accessors ==
    [vendor_id |-> 1, pickup_timestamp |-> 0, dropoff_timestamp |-> 3,
     passenger_count |-> 2, trip_distance |-> 4, rate_code_id |-> 5,
     store_and_fwd_flag |-> 6, pu_location_id |-> 7, do_location_id |-> 8,
     payment_type |-> 16, fare_amount |-> 9, extra |-> 10, mta_tax |-> 11,
     tip_amount |-> 12, tolls_amount |-> 13, improvement_surcharge |-> 14,
     total_amount |-> 15]

TripRecordMsg_Clear ==
    <<<<0 .. 7, "pickup_timestamp", "pu_location_id">>,
      <<8 .. 15, "do_location_id", "total_amount">>,
      <<{}, "payment_type", "payment_type">>>>

TripRecordMsg_Serialize ==
    <<<<"vendor_id", 1, 1>>, <<"pickup_timestamp", 0, 2>>, <<"dropoff_timestamp", 3, 3>>,
      <<"passenger_count", 2, 4>>, <<"trip_distance", 4, 5>>, <<"rate_code_id", 5, 6>>,
      <<"store_and_fwd_flag", 6, 7>>, <<"pu_location_id", 7, 8>>,
      <<"do_location_id", 8, 9>>, <<"payment_type", 16, 10>>, <<"fare_amount", 9, 11>>,
      <<"extra", 10, 12>>, <<"mta_tax", 11, 13>>, <<"tip_amount", 12, 14>>,
      <<"tolls_amount", 13, 15>>, <<"improvement_surcharge", 14, 16>>,
      <<"total_amount", 15, 17>>>>

\* Mutant: the last two fields are added with a tag of one byte, like all others.
TripRecordMsg_ByteSize_ShortTag ==
    <<<<0 .. 7, <<<<"pickup_timestamp", 0, 1>>, <<"vendor_id", 1, 1>>,
      <<"passenger_count", 2, 1>>, <<"dropoff_timestamp", 3, 1>>, <<"trip_distance", 4, 1>>,
      <<"rate_code_id", 5, 1>>, <<"store_and_fwd_flag", 6, 1>>,
      <<"pu_location_id", 7, 1>>>>>>, <<8 .. 15, <<<<"do_location_id", 8, 1>>,
      <<"fare_amount", 9, 1>>, <<"extra", 10, 1>>, <<"mta_tax", 11, 1>>,
      <<"tip_amount", 12, 1>>, <<"tolls_amount", 13, 1>>,
      <<"improvement_surcharge", 14, 1>>, <<"total_amount", 15, 1>>>>>>,
      <<{16}, <<<<"payment_type", 16, 1>>>>>>>>

TripRecordMsg_ByteSize ==
    <<<<0 .. 7, <<<<"pickup_timestamp", 0, 1>>, <<"vendor_id", 1, 1>>,
      <<"passenger_count", 2, 1>>, <<"dropoff_timestamp", 3, 1>>, <<"trip_distance", 4, 1>>,
      <<"rate_code_id", 5, 1>>, <<"store_and_fwd_flag", 6, 1>>,
      <<"pu_location_id", 7, 1>>>>>>, <<8 .. 15, <<<<"do_location_id", 8, 1>>,
      <<"fare_amount", 9, 1>>, <<"extra", 10, 1>>, <<"mta_tax", 11, 1>>,
      <<"tip_amount", 12, 1>>, <<"tolls_amount", 13, 1>>,
      <<"improvement_surcharge", 14, 2>>, <<"total_amount", 15, 2>>>>>>,
      <<{16}, <<<<"payment_type", 16, 1>>>>>>>>

TripRecordMsg_Merge ==
    <<<<0 .. 7, <<<<"pickup_timestamp", 0>>, <<"vendor_id", 1>>, <<"passenger_count", 2>>,
      <<"dropoff_timestamp", 3>>, <<"trip_distance", 4>>, <<"rate_code_id", 5>>,
      <<"store_and_fwd_flag", 6>>, <<"pu_location_id", 7>>>>>>,
      <<8 .. 15, <<<<"do_location_id", 8>>, <<"fare_amount", 9>>, <<"extra", 10>>,
      <<"mta_tax", 11>>, <<"tip_amount", 12>>, <<"tolls_amount", 13>>,
      <<"improvement_surcharge", 14>>, <<"total_amount", 15>>>>>>,
      <<{16}, <<<<"payment_type", 16>>>>>>>>

-----------------------------------------------------------------------------
(* ChunkResponse                                                            *)
ChunkResponse_Impl ==
    <<"records", "request_id", "bft_meta", "chunk_index", "total_chunks", "aggregation_sum",
      "is_last", "effective_chunk_size", "aggregation_avg", "aggregation_count">>

ChunkResponse_table ==
    <<<<"request_id", 1, "string">>, <<"chunk_index", 3, "int32">>,
      <<"total_chunks", 4, "int32">>, <<"is_last", 6, "bool">>,
      <<"records", 0, "RepeatedTripRecordMsg">>, <<"aggregation_sum", 5, "double">>,
      <<"aggregation_avg", 8, "double">>, <<"aggregation_count", 9, "int64">>,
      <<"effective_chunk_size", 7, "int32">>, <<"bft_meta", 2, "BftMetadata">>>>

ChunkResponse_accessors ==
    [request_id |-> 1, chunk_index |-> 3, total_chunks |-> 4, is_last |-> 6, records |-> 0,
     aggregation_sum |-> 5, aggregation_avg |-> 8, aggregation_count |-> 9,
     effective_chunk_size |-> 7, bft_meta |-> 2]

ChunkResponse_Clear ==
    <<<<{0}, "records", "records">>, <<{1}, "request_id", "request_id">>,
      <<{2}, "bft_meta", "bft_meta">>, <<3 .. 7, "chunk_index", "effective_chunk_size">>,
      <<{8, 9}, "aggregation_avg", "aggregation_count">>>>

ChunkResponse_Serialize ==
    <<<<"request_id", 1, 1>>, <<"chunk_index", 3, 2>>, <<"total_chunks", 4, 3>>,
      <<"is_last", 6, 4>>, <<"records", 0, 5>>, <<"aggregation_sum", 5, 6>>,
      <<"aggregation_avg", 8, 7>>, <<"aggregation_count", 9, 8>>,
      <<"effective_chunk_size", 7, 9>>, <<"bft_meta", 2, 10>>>>

ChunkResponse_ByteSize ==
    <<<<0 .. 7, <<<<"records", 0, 1>>, <<"request_id", 1, 1>>, <<"bft_meta", 2, 1>>,
      <<"chunk_index", 3, 1>>, <<"total_chunks", 4, 1>>, <<"aggregation_sum", 5, 1>>,
      <<"is_last", 6, 1>>, <<"effective_chunk_size", 7, 1>>>>>>,
      <<{8, 9}, <<<<"aggregation_avg", 8, 1>>, <<"aggregation_count", 9, 1>>>>>>>>

\* Mutant: the second part of the message is tested by the first part's bits.
ChunkResponse_Merge_WrongMask ==
    <<<<0 .. 7, <<<<"records", 0>>, <<"request_id", 1>>, <<"bft_meta", 2>>,
      <<"chunk_index", 3>>, <<"total_chunks", 4>>, <<"aggregation_sum", 5>>,
      <<"is_last", 6>>, <<"effective_chunk_size", 7>>>>>>,
      <<{7}, <<<<"aggregation_avg", 8>>, <<"aggregation_count", 9>>>>>>>>

ChunkResponse_Merge ==
    <<<<0 .. 7, <<<<"records", 0>>, <<"request_id", 1>>, <<"bft_meta", 2>>,
      <<"chunk_index", 3>>, <<"total_chunks", 4>>, <<"aggregation_sum", 5>>,
      <<"is_last", 6>>, <<"effective_chunk_size", 7>>>>>>,
      <<{8, 9}, <<<<"aggregation_avg", 8>>, <<"aggregation_count", 9>>>>>>>>

-----------------------------------------------------------------------------
(* ChunkRequest                                                             *)
ChunkRequest_Impl ==
    <<"request_id", "chunk_index">>

ChunkRequest_table ==
    <<<<"request_id", 0, "string">>, <<"chunk_index", 1, "int32">>>>

ChunkRequest_accessors ==
    [request_id |-> 0, chunk_index |-> 1]

ChunkRequest_Clear ==
    <<<<{0}, "request_id", "request_id">>, <<{}, "chunk_index", "chunk_index">>>>

ChunkRequest_Serialize ==
    <<<<"request_id", 0, 1>>, <<"chunk_index", 1, 2>>>>

ChunkRequest_ByteSize ==
    <<<<{0, 1}, <<<<"request_id", 0, 1>>, <<"chunk_index", 1, 1>>>>>>>>

ChunkRequest_Merge ==
    <<<<{0, 1}, <<<<"request_id", 0>>, <<"chunk_index", 1>>>>>>>>

-----------------------------------------------------------------------------
(* ForwardRequest                                                           *)
ForwardRequest_Impl ==
    <<"request_id", "origin_node", "query", "bft_meta">>

ForwardRequest_table ==
    <<<<"request_id", 0, "string">>, <<"origin_node", 1, "string">>,
      <<"query", 2, "QueryRequest">>, <<"bft_meta", 3, "BftMetadata">>>>

ForwardRequest_accessors ==
    [request_id |-> 0, origin_node |-> 1, query |-> 2, bft_meta |-> 3]

ForwardRequest_Clear ==
    <<<<{0}, "request_id", "request_id">>, <<{1}, "origin_node", "origin_node">>,
      <<{2}, "query", "query">>, <<{3}, "bft_meta", "bft_meta">>>>

ForwardRequest_Serialize ==
    <<<<"request_id", 0, 1>>, <<"origin_node", 1, 2>>, <<"query", 2, 3>>,
      <<"bft_meta", 3, 4>>>>

ForwardRequest_ByteSize ==
    <<<<0 .. 3, <<<<"request_id", 0, 1>>, <<"origin_node", 1, 1>>, <<"query", 2, 1>>,
      <<"bft_meta", 3, 1>>>>>>>>

ForwardRequest_Merge ==
    <<<<0 .. 3, <<<<"request_id", 0>>, <<"origin_node", 1>>, <<"query", 2>>,
      <<"bft_meta", 3>>>>>>>>

-----------------------------------------------------------------------------
(* ForwardResponse                                                          *)
ForwardResponse_Impl ==
    <<"records", "request_id", "source_node", "bft_meta", "aggregation_sum",
      "aggregation_avg", "aggregation_count", "is_last", "total_chunks">>

ForwardResponse_table ==
    <<<<"request_id", 1, "string">>, <<"source_node", 2, "string">>,
      <<"records", 0, "RepeatedTripRecordMsg">>, <<"aggregation_sum", 4, "double">>,
      <<"aggregation_avg", 5, "double">>, <<"aggregation_count", 6, "int64">>,
      <<"bft_meta", 3, "BftMetadata">>, <<"is_last", 7, "bool">>,
      <<"total_chunks", 8, "int32">>>>

ForwardResponse_accessors ==
    [request_id |-> 1, source_node |-> 2, records |-> 0, aggregation_sum |-> 4,
     aggregation_avg |-> 5, aggregation_count |-> 6, bft_meta |-> 3, is_last |-> 7,
     total_chunks |-> 8]

\* Mutant: the range that is reset ends one member early.
ForwardResponse_Clear_Short ==
    <<<<{0}, "records", "records">>, <<{1}, "request_id", "request_id">>,
      <<{2}, "source_node", "source_node">>, <<{3}, "bft_meta", "bft_meta">>,
      <<4 .. 7, "aggregation_sum", "aggregation_count">>, <<{}, "total_chunks", "total_chunks">>>>

ForwardResponse_Clear ==
    <<<<{0}, "records", "records">>, <<{1}, "request_id", "request_id">>,
      <<{2}, "source_node", "source_node">>, <<{3}, "bft_meta", "bft_meta">>,
      <<4 .. 7, "aggregation_sum", "is_last">>, <<{}, "total_chunks", "total_chunks">>>>

ForwardResponse_Serialize ==
    <<<<"request_id", 1, 1>>, <<"source_node", 2, 2>>, <<"records", 0, 3>>,
      <<"aggregation_sum", 4, 4>>, <<"aggregation_avg", 5, 5>>,
      <<"aggregation_count", 6, 6>>, <<"bft_meta", 3, 7>>, <<"is_last", 7, 8>>,
      <<"total_chunks", 8, 9>>>>

ForwardResponse_ByteSize ==
    <<<<0 .. 7, <<<<"records", 0, 1>>, <<"request_id", 1, 1>>, <<"source_node", 2, 1>>,
      <<"bft_meta", 3, 1>>, <<"aggregation_sum", 4, 1>>, <<"aggregation_avg", 5, 1>>,
      <<"aggregation_count", 6, 1>>, <<"is_last", 7, 1>>>>>>,
      <<{8}, <<<<"total_chunks", 8, 1>>>>>>>>

ForwardResponse_Merge ==
    <<<<0 .. 7, <<<<"records", 0>>, <<"request_id", 1>>, <<"source_node", 2>>,
      <<"bft_meta", 3>>, <<"aggregation_sum", 4>>, <<"aggregation_avg", 5>>,
      <<"aggregation_count", 6>>, <<"is_last", 7>>>>>>, <<{8}, <<<<"total_chunks", 8>>>>>>>>

-----------------------------------------------------------------------------
(* BftMetadata                                                              *)
BftMetadata_Impl ==
    <<"node_id", "payload_hash", "auth_tag", "algorithm", "nonce", "timestamp_ms">>

BftMetadata_table ==
    <<<<"node_id", 0, "string">>, <<"payload_hash", 1, "string">>,
      <<"auth_tag", 2, "string">>, <<"nonce", 4, "uint64">>, <<"timestamp_ms", 5, "int64">>,
      <<"algorithm", 3, "string">>>>

BftMetadata_accessors ==
    [node_id |-> 0, payload_hash |-> 1, auth_tag |-> 2, nonce |-> 4, timestamp_ms |-> 5,
     algorithm |-> 3]

BftMetadata_Clear ==
    <<<<{0}, "node_id", "node_id">>, <<{1}, "payload_hash", "payload_hash">>,
      <<{2}, "auth_tag", "auth_tag">>, <<{3}, "algorithm", "algorithm">>,
      <<{4, 5}, "nonce", "timestamp_ms">>>>

BftMetadata_Serialize ==
    <<<<"node_id", 0, 1>>, <<"payload_hash", 1, 2>>, <<"auth_tag", 2, 3>>,
      <<"nonce", 4, 4>>, <<"timestamp_ms", 5, 5>>, <<"algorithm", 3, 6>>>>

BftMetadata_ByteSize ==
    <<<<0 .. 5, <<<<"node_id", 0, 1>>, <<"payload_hash", 1, 1>>, <<"auth_tag", 2, 1>>,
      <<"algorithm", 3, 1>>, <<"nonce", 4, 1>>, <<"timestamp_ms", 5, 1>>>>>>>>

BftMetadata_Merge ==
    <<<<0 .. 5, <<<<"node_id", 0>>, <<"payload_hash", 1>>, <<"auth_tag", 2>>,
      <<"algorithm", 3>>, <<"nonce", 4>>, <<"timestamp_ms", 5>>>>>>>>

-----------------------------------------------------------------------------
(* CancelRequest                                                            *)
CancelRequest_Impl ==
    <<"request_id">>

CancelRequest_table ==
    <<<<"request_id", 0, "string">>>>

CancelRequest_accessors ==
    [request_id |-> 0]

CancelRequest_Clear ==
    <<<<{0}, "request_id", "request_id">>>>

CancelRequest_Serialize ==
    <<<<"request_id", 0, 1>>>>

CancelRequest_ByteSize ==
    <<<<{0}, <<<<"request_id", 0, 1>>>>>>>>

CancelRequest_Merge ==
    <<<<{0}, <<<<"request_id", 0>>>>>>>>

-----------------------------------------------------------------------------
(* CancelResponse                                                           *)
CancelResponse_Impl ==
    <<"acknowledged">>

CancelResponse_table ==
    <<<<"acknowledged", 0, "bool">>>>

CancelResponse_accessors ==
    [acknowledged |-> 0]

CancelResponse_Clear ==
    <<<<{}, "acknowledged", "acknowledged">>>>

CancelResponse_Serialize ==
    <<<<"acknowledged", 0, 1>>>>

CancelResponse_ByteSize ==
    <<<<{0}, <<<<"acknowledged", 0, 1>>>>>>>>

CancelResponse_Merge ==
    <<<<{0}, <<<<"acknowledged", 0>>>>>>>>

-----------------------------------------------------------------------------
(* StatusRequest                                                            *)
StatusRequest_Impl ==
    <<"requester_id">>

StatusRequest_table ==
    <<<<"requester_id", 0, "string">>>>

StatusRequest_accessors ==
    [requester_id |-> 0]

StatusRequest_Clear ==
    <<<<{0}, "requester_id", "requester_id">>>>

StatusRequest_Serialize ==
    <<<<"requester_id", 0, 1>>>>

StatusRequest_ByteSize ==
    <<<<{0}, <<<<"requester_id", 0, 1>>>>>>>>

StatusRequest_Merge ==
    <<<<{0}, <<<<"requester_id", 0>>>>>>>>

-----------------------------------------------------------------------------
(* StatusResponse                                                           *)
StatusResponse_Impl ==
    <<"node_id", "active_requests", "pending_chunks", "throughput_rps", "uptime_seconds",
      "fairness_queue_depth">>

StatusResponse_table ==
    <<<<"node_id", 0, "string">>, <<"active_requests", 1, "int32">>,
      <<"pending_chunks", 2, "int32">>, <<"fairness_queue_depth", 5, "int32">>,
      <<"throughput_rps", 3, "double">>, <<"uptime_seconds", 4, "int64">>>>

StatusResponse_accessors ==
    [node_id |-> 0, active_requests |-> 1, pending_chunks |-> 2, fairness_queue_depth |-> 5,
     throughput_rps |-> 3, uptime_seconds |-> 4]

StatusResponse_Clear ==
    <<<<{0}, "node_id", "node_id">>, <<1 .. 5, "active_requests", "fairness_queue_depth">>>>

StatusResponse_Serialize ==
    <<<<"node_id", 0, 1>>, <<"active_requests", 1, 2>>, <<"pending_chunks", 2, 3>>,
      <<"fairness_queue_depth", 5, 4>>, <<"throughput_rps", 3, 5>>,
      <<"uptime_seconds", 4, 6>>>>

StatusResponse_ByteSize ==
    <<<<0 .. 5, <<<<"node_id", 0, 1>>, <<"active_requests", 1, 1>>,
      <<"pending_chunks", 2, 1>>, <<"throughput_rps", 3, 1>>, <<"uptime_seconds", 4, 1>>,
      <<"fairness_queue_depth", 5, 1>>>>>>>>

StatusResponse_Merge ==
    <<<<0 .. 5, <<<<"node_id", 0>>, <<"active_requests", 1>>, <<"pending_chunks", 2>>,
      <<"throughput_rps", 3>>, <<"uptime_seconds", 4>>, <<"fairness_queue_depth", 5>>>>>>>>

-----------------------------------------------------------------------------
(* HeartbeatRequest                                                         *)
HeartbeatRequest_Impl ==
    <<"sender_id", "timestamp_ms">>

HeartbeatRequest_table ==
    <<<<"sender_id", 0, "string">>, <<"timestamp_ms", 1, "int64">>>>

HeartbeatRequest_accessors ==
    [sender_id |-> 0, timestamp_ms |-> 1]

HeartbeatRequest_Clear ==
    <<<<{0}, "sender_id", "sender_id">>, <<{}, "timestamp_ms", "timestamp_ms">>>>

HeartbeatRequest_Serialize ==
    <<<<"sender_id", 0, 1>>, <<"timestamp_ms", 1, 2>>>>

HeartbeatRequest_ByteSize ==
    <<<<{0, 1}, <<<<"sender_id", 0, 1>>, <<"timestamp_ms", 1, 1>>>>>>>>

HeartbeatRequest_Merge ==
    <<<<{0, 1}, <<<<"sender_id", 0>>, <<"timestamp_ms", 1>>>>>>>>

-----------------------------------------------------------------------------
(* HeartbeatResponse                                                        *)
HeartbeatResponse_Impl ==
    <<"node_id", "timestamp_ms", "alive">>

HeartbeatResponse_table ==
    <<<<"node_id", 0, "string">>, <<"timestamp_ms", 1, "int64">>, <<"alive", 2, "bool">>>>

HeartbeatResponse_accessors ==
    [node_id |-> 0, timestamp_ms |-> 1, alive |-> 2]

HeartbeatResponse_Clear ==
    <<<<{0}, "node_id", "node_id">>, <<{1, 2}, "timestamp_ms", "alive">>>>

HeartbeatResponse_Serialize ==
    <<<<"node_id", 0, 1>>, <<"timestamp_ms", 1, 2>>, <<"alive", 2, 3>>>>

HeartbeatResponse_ByteSize ==
    <<<<0 .. 2, <<<<"node_id", 0, 1>>, <<"timestamp_ms", 1, 1>>, <<"alive", 2, 1>>>>>>>>

HeartbeatResponse_Merge ==
    <<<<0 .. 2, <<<<"node_id", 0>>, <<"timestamp_ms", 1>>, <<"alive", 2>>>>>>>>

-----------------------------------------------------------------------------

Tables ==
    [ TimeRangeQuery |->
        [ impl |-> TimeRangeQuery_Impl, table |-> TimeRangeQuery_table, accessors |-> TimeRangeQuery_accessors,
          clear |-> TimeRangeQuery_Clear, serialize |-> TimeRangeQuery_Serialize,
          byteSize |-> TimeRangeQuery_ByteSize, merge |-> TimeRangeQuery_Merge ],
      NumericRangeQuery |->
        [ impl |-> NumericRangeQuery_Impl, table |-> NumericRangeQuery_table, accessors |-> NumericRangeQuery_accessors,
          clear |-> NumericRangeQuery_Clear, serialize |-> NumericRangeQuery_Serialize,
          byteSize |-> NumericRangeQuery_ByteSize, merge |-> NumericRangeQuery_Merge ],
      IntRangeQuery |->
        [ impl |-> IntRangeQuery_Impl, table |-> IntRangeQuery_table, accessors |-> IntRangeQuery_accessors,
          clear |-> IntRangeQuery_Clear, serialize |-> IntRangeQuery_Serialize,
          byteSize |-> IntRangeQuery_ByteSize, merge |-> IntRangeQuery_Merge ],
      CombinedQuery |->
        [ impl |-> CombinedQuery_Impl, table |-> CombinedQuery_table, accessors |-> CombinedQuery_accessors,
          clear |-> CombinedQuery_Clear, serialize |-> CombinedQuery_Serialize,
          byteSize |-> CombinedQuery_ByteSize, merge |-> CombinedQuery_Merge ],
      QueryRequest |->
        [ impl |-> QueryRequest_Impl, table |-> QueryRequest_table, accessors |-> QueryRequest_accessors,
          clear |-> QueryRequest_Clear, serialize |-> QueryRequest_Serialize,
          byteSize |-> QueryRequest_ByteSize, merge |-> QueryRequest_Merge ],
      TripRecordMsg |->
        [ impl |-> TripRecordMsg_Impl, table |-> TripRecordMsg_table, accessors |-> TripRecordMsg_accessors,
          clear |-> TripRecordMsg_Clear, serialize |-> TripRecordMsg_Serialize,
          byteSize |-> TripRecordMsg_ByteSize, merge |-> TripRecordMsg_Merge ],
      ChunkResponse |->
        [ impl |-> ChunkResponse_Impl, table |-> ChunkResponse_table, accessors |-> ChunkResponse_accessors,
          clear |-> ChunkResponse_Clear, serialize |-> ChunkResponse_Serialize,
          byteSize |-> ChunkResponse_ByteSize, merge |-> ChunkResponse_Merge ],
      ChunkRequest |->
        [ impl |-> ChunkRequest_Impl, table |-> ChunkRequest_table, accessors |-> ChunkRequest_accessors,
          clear |-> ChunkRequest_Clear, serialize |-> ChunkRequest_Serialize,
          byteSize |-> ChunkRequest_ByteSize, merge |-> ChunkRequest_Merge ],
      ForwardRequest |->
        [ impl |-> ForwardRequest_Impl, table |-> ForwardRequest_table, accessors |-> ForwardRequest_accessors,
          clear |-> ForwardRequest_Clear, serialize |-> ForwardRequest_Serialize,
          byteSize |-> ForwardRequest_ByteSize, merge |-> ForwardRequest_Merge ],
      ForwardResponse |->
        [ impl |-> ForwardResponse_Impl, table |-> ForwardResponse_table, accessors |-> ForwardResponse_accessors,
          clear |-> ForwardResponse_Clear, serialize |-> ForwardResponse_Serialize,
          byteSize |-> ForwardResponse_ByteSize, merge |-> ForwardResponse_Merge ],
      BftMetadata |->
        [ impl |-> BftMetadata_Impl, table |-> BftMetadata_table, accessors |-> BftMetadata_accessors,
          clear |-> BftMetadata_Clear, serialize |-> BftMetadata_Serialize,
          byteSize |-> BftMetadata_ByteSize, merge |-> BftMetadata_Merge ],
      CancelRequest |->
        [ impl |-> CancelRequest_Impl, table |-> CancelRequest_table, accessors |-> CancelRequest_accessors,
          clear |-> CancelRequest_Clear, serialize |-> CancelRequest_Serialize,
          byteSize |-> CancelRequest_ByteSize, merge |-> CancelRequest_Merge ],
      CancelResponse |->
        [ impl |-> CancelResponse_Impl, table |-> CancelResponse_table, accessors |-> CancelResponse_accessors,
          clear |-> CancelResponse_Clear, serialize |-> CancelResponse_Serialize,
          byteSize |-> CancelResponse_ByteSize, merge |-> CancelResponse_Merge ],
      StatusRequest |->
        [ impl |-> StatusRequest_Impl, table |-> StatusRequest_table, accessors |-> StatusRequest_accessors,
          clear |-> StatusRequest_Clear, serialize |-> StatusRequest_Serialize,
          byteSize |-> StatusRequest_ByteSize, merge |-> StatusRequest_Merge ],
      StatusResponse |->
        [ impl |-> StatusResponse_Impl, table |-> StatusResponse_table, accessors |-> StatusResponse_accessors,
          clear |-> StatusResponse_Clear, serialize |-> StatusResponse_Serialize,
          byteSize |-> StatusResponse_ByteSize, merge |-> StatusResponse_Merge ],
      HeartbeatRequest |->
        [ impl |-> HeartbeatRequest_Impl, table |-> HeartbeatRequest_table, accessors |-> HeartbeatRequest_accessors,
          clear |-> HeartbeatRequest_Clear, serialize |-> HeartbeatRequest_Serialize,
          byteSize |-> HeartbeatRequest_ByteSize, merge |-> HeartbeatRequest_Merge ],
      HeartbeatResponse |->
        [ impl |-> HeartbeatResponse_Impl, table |-> HeartbeatResponse_table, accessors |-> HeartbeatResponse_accessors,
          clear |-> HeartbeatResponse_Clear, serialize |-> HeartbeatResponse_Serialize,
          byteSize |-> HeartbeatResponse_ByteSize, merge |-> HeartbeatResponse_Merge ] ]
===============================================================================
