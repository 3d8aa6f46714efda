----------------------------- MODULE MCDataPath ------------------------------
(* Small instances of DataPath: who writes how much, and who purges what.   *)
EXTENDS DataPath, TLC

Both == [d \in Dir |-> 3]
MostlyToCom == "CompanionToCom" :> 4 @@ "ComToCompanion" :> 1
Uneven == "CompanionToCom" :> 3 @@ "ComToCompanion" :> 2

NoPurge == {}
Aborts == {{"TXABORT"}, {"RXABORT"}, {"TXABORT", "RXABORT"}}
ClearReceived == {{"RXABORT", "RXCLEAR"}}
AnyPurge == {F \in SUBSET PurgeFlag : F # {}}
=============================================================================
