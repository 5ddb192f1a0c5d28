------------------------------ MODULE MCWorkers ------------------------------
(***************************************************************************)
(* Workers that take work from a queue, side by side: webhook workers and  *)
(* retry ticks that race for deliveries, the same beside an open endpoint  *)
(* form, the deliveries and receipts of two linked instances, and the      *)
(* writer thread of the database log handler.  A behaviour belongs to one  *)
(* of them; the others rest in an initial state.                           *)
(***************************************************************************)
EXTENDS WebhookDelivery, Integers, TLC

\* Workers run1 and run2 send deliveries, tick1 and tick2 run ticks: interchangeable.
CONSTANTS run1, run2, tick1, tick2

CONSTANTS Baseline, CaptureLoggers, PinnedLoggers, Original, RootLevel, QueueSize, BatchSize,
          PageLimit, LogRows, MaxMinutes, MaxRecords, MaxWindows, LastTime, LogFaults  \* of Telemetry

CONSTANTS A, B, Inbound, Handlers, MaxWrites, MaxPairs, MaxRotations, LinkFaults, MaxDeliveries,
          LinkAttempts, RejectLimit                                       \* of WebhookLink

ASSUME LogAssumption ==
    /\ QueueSize \in Nat /\ BatchSize \in Nat \ {0} /\ PageLimit \in Nat \ {0} /\ LogRows \in Nat
    /\ MaxRecords \in Nat /\ LastTime \in Nat /\ LogFaults \in Nat
    /\ Baseline \in Nat \ {0} /\ Original \in [CaptureLoggers \cup PinnedLoggers -> Nat]

ASSUME LinkAssumption ==
    /\ A # B /\ Handlers \subseteq [{A, B} -> {"none", "plain", "cascade"}]
    /\ MaxWrites \in Nat /\ MaxPairs \in Nat /\ MaxRotations \in Nat /\ LinkFaults \in Nat

VARIABLES part,
          queue, hand, worker, stopping, closing, counts, hlevel, levels, saved, caps,
          store, lastPk, tail, ltime, lfaults,                            \* Telemetry
          link, rec, cmd, mirrored, dl, receipts, rejected, handler, budget \* WebhookLink

\* One delivery, with the endpoint's edit form beside it.
Form == INSTANCE WebhookDelivery WITH
    MaxRows <- 1, MaxEdits <- 1, FaultKinds <- {"enqueue", "body", "tick"}

Tel == INSTANCE Telemetry WITH MaxRows <- LogRows, MaxFaults <- LogFaults, faults <- lfaults

\* What a logger is configured with: one inherits, one is at DEBUG.
AsConfigured == [g \in {"apps", "db"} |-> IF g = "apps" THEN 0 ELSE 1]

telVars == <<queue, hand, worker, stopping, closing, counts, hlevel, levels, saved, caps,
             store, lastPk, tail, ltime, lfaults>>

\* Two instances linked by pairings; the handlers each may have registered.
Link == INSTANCE WebhookLink WITH MaxFaults <- LinkFaults, MaxAttempts <- LinkAttempts, ep <- link

linkVars == <<link, rec, cmd, mirrored, dl, receipts, rejected, handler, budget>>

AnyHandlers == [{"A", "B"} -> {"none", "plain", "cascade"}]

Interchangeable == Permutations({run1, run2}) \cup Permutations({tick1, tick2})

AllInit ==
    /\ part \in {"deliveries", "form", "log", "link"}
    /\ IF part = "form" THEN Form!Init ELSE Init
    /\ Tel!Init
    /\ Link!Init /\ (part # "link" => handler = CHOOSE h \in Handlers : TRUE)

AllNext ==
    /\ UNCHANGED part
    /\ \/ part = "deliveries" /\ Next /\ UNCHANGED <<telVars, linkVars>>
       \/ part = "form" /\ Form!Next /\ UNCHANGED <<telVars, linkVars>>
       \/ part = "log" /\ Tel!Next /\ UNCHANGED <<vars, linkVars>>
       \/ part = "link" /\ Link!Next /\ UNCHANGED <<vars, telVars>>

AllSpec == AllInit /\ [][AllNext]_<<part, vars, telVars, linkVars>>

\* Telemetry: every accepted record is queued, written, dropped or counted as lost, following
\* the log page by page skips no stored one, and when no capture window is open every level
\* is the configured one.
LogSound == part = "log" => Tel!LogComplete /\ Tel!CaptureLeavesNothing
\* WebhookLink: a write cannot run away over the link, and the mirror command links the
\* peer's events back.
LinkSound == Link!LinkSound
=============================================================================
