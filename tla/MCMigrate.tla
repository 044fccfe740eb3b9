----------------------------- MODULE MCMigrate -----------------------------
(***************************************************************************)
(* Migrate and StateStore for TLC.  A behaviour either migrates shards or  *)
(* is a few calls, by two goroutines, that save and remove records of one  *)
(* kind.  The kinds are alike but for the removal, which only shardexpire  *)
(* has: the others make one call.                                          *)
(***************************************************************************)
EXTENDS Migrate, TLC

CONSTANTS d1, d2, o1, o2, r2, MaxCalls

VARIABLES scenario, calls

MCVal == {Info(st, o) : st \in {"txsent", "complete"}, o \in Order \cup {None}}
MCLayout == {(d1 :> <<o1>>) @@ (d2 :> <<o2>>), (d1 :> <<o1, o2>>) @@ (d2 :> <<>>)}

mcVars == <<vars, scenario, calls>>

MCInit ==
    /\ Init
    /\ scenario \in Kind \cup {"migration"}
    /\ calls = 0

Saves ==
    /\ scenario # "migration"
    /\ StoreNext
    /\ \A g \in Goroutine : save'[g].kind \in {None, scenario}
    /\ save'[Loop] = Idle
    /\ \A g \in Goroutine : save'[g].val \in {None, Info("txsent", None)}
    /\ calls' = calls + Cardinality({g \in Goroutine :
                           save[g].pc = "idle" /\ save'[g].pc # "idle"})
    /\ calls' <= IF scenario = "shardexpire" THEN MaxCalls ELSE 1
    /\ UNCHANGED <<migrateVars, scenario>>

(* Two calls at once, or a failure: once an access failed or the process   *)
(* was started again, r2 makes no call and the loop is not stopped.  At    *)
(* the new provider o2 does not fail.                                      *)
MCNext ==
    /\ \/ scenario = "migration" /\ Next /\ UNCHANGED <<scenario, calls>>
       \/ Saves
    /\ faults' > 0 => rpc'[r2] = NoCall /\ loop'.pc # "stopped"
    /\ handler'[o2] # "failed"

MCSpec == MCInit /\ [][MCNext]_mcVars /\ Fairness
=============================================================================
