------------------------ MODULE MCExecutionDetectors ------------------------
(* Days of two parts.  Two processes with the same context on adjacent days, *)
(* one of them connected twice, and a creation on each day before them.      *)
EXTENDS ExecutionDetectors, TLC

MCStarts == {"a0", "b2", "b4", "n3"}
MCLinks == {"l3", "m4", "l5"}
MCTs == "a0" :> 0 @@ "b2" :> 2 @@ "n3" :> 3 @@ "b4" :> 4 @@ "l3" :> 3 @@ "m4" :> 4 @@ "l5" :> 5
MCGuid == "a0" :> "p0" @@ "b2" :> "p2" @@ "n3" :> "no guid" @@ "b4" :> "p4" @@ "l3" :> "p2" @@ "m4" :> "p2" @@ "l5" :> "p4"
MCContext == "a0" :> "x" @@ "b2" :> "y" @@ "n3" :> "z" @@ "b4" :> "y"
=============================================================================
