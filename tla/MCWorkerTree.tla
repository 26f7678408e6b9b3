---------------------------- MODULE MCWorkerTree ----------------------------
(***************************************************************************)
(* Small instances of WorkerTree.                                          *)
(***************************************************************************)
EXTENDS WorkerTree
LOCAL INSTANCE TLC

\* A asks B twice, for two queries; B asks D and E for the first, D for the second
\* (E holds nothing of it).
MCCalls == {"B1", "D1", "E1", "B2", "D2"}
MCUnder == "B1" :> "A" @@ "B2" :> "A" @@
           "D1" :> "B1" @@ "E1" :> "B1" @@ "D2" :> "B2"
MCWorker == {"B", "D", "E"}
MCAsked == "B1" :> "B" @@ "B2" :> "B" @@ "D1" :> "D" @@ "D2" :> "D" @@ "E1" :> "E"
MCRid == "B1" :> "q1" @@ "D1" :> "q1" @@ "E1" :> "q1" @@ "B2" :> "q2" @@ "D2" :> "q2"
MCRids == {"q1", "q2"}

\* Chunks of two rows: answers of one, two and three chunks, full and not.
MCRecord == 1 .. 9
MCLocal == "B1" :> <<1>> @@ "D1" :> <<2, 3, 4>> @@ "E1" :> <<5>> @@
           "B2" :> <<>> @@ "D2" :> <<6, 7, 8>>
=============================================================================
