----------------------------- MODULE Lifecycle -----------------------------
(***************************************************************************)
(* The start and the shutdown of the replicas, which share the table of    *)
(* users.                                                                  *)
(*   main.ts, frameworks/database/seed.ts                                  *)
(*   frameworks/messaging/messagingFactory.ts (start and stop)             *)
(*   k8s/03-app/app-deployment.yaml (preStop, grace period)                *)
(***************************************************************************)
EXTENDS Naturals

CONSTANTS
    Pod,
    MaxRequests,  \* bound: HTTP requests under way in a pod
    PreStop,      \* the sleep of the preStop hook
    ForceAfter,   \* the timer of the SIGTERM handler
    Grace         \* terminationGracePeriodSeconds; all three in one unit of time

ASSUME LifecycleAssumption ==
    /\ MaxRequests \in Nat
    /\ PreStop \in Nat /\ ForceAfter \in Nat \ {0} /\ Grace \in Nat
    /\ PreStop <= Grace

VARIABLES
    admin,     \* the default administrator is in the table of users
    proc,      \* the process of each pod
    boot,      \* how far main() is
    polling,   \* the pollers and the relay run
    handling,  \* a message is being handled
    requests,  \* HTTP requests under way
    closing,   \* how far the SIGTERM handler is
    awaits,    \* messaging.stop() waits for the message being handled
    elapsed,   \* time since Kubernetes began to end the pod
    early      \* history: SIGTERM came before main() was through

vars == <<admin, proc, boot, polling, handling, requests, closing, awaits, elapsed, early>>

NotYet == Grace + 1

TypeOK ==
    /\ admin \in BOOLEAN
    /\ proc \in [Pod -> {"up", "exit 0", "exit 1", "killed"}]
    /\ boot \in [Pod -> {"connect", "look", "insert", "start", "done"}]
    /\ polling \in [Pod -> BOOLEAN]
    /\ handling \in [Pod -> BOOLEAN]
    /\ requests \in [Pod -> 0 .. MaxRequests]
    /\ closing \in [Pod -> {"no", "messaging", "server"}]
    /\ awaits \in [Pod -> BOOLEAN]
    /\ elapsed \in [Pod -> 0 .. NotYet]
    /\ early \in [Pod -> BOOLEAN]

Init ==
    /\ admin = FALSE
    /\ proc = [p \in Pod |-> "up"]
    /\ boot = [p \in Pod |-> "connect"]
    /\ polling = [p \in Pod |-> FALSE]
    /\ handling = [p \in Pod |-> FALSE]
    /\ requests = [p \in Pod |-> 0]
    /\ closing = [p \in Pod |-> "no"]
    /\ awaits = [p \in Pod |-> FALSE]
    /\ elapsed = [p \in Pod |-> NotYet]
    /\ early = [p \in Pod |-> FALSE]

Up(p) == proc[p] = "up"

Ends(p, how) == proc' = [proc EXCEPT ![p] = how]

-----------------------------------------------------------------------------
(* main(), after the HTTP server was told to listen.                       *)

BootTo(p, from, to) ==
    /\ Up(p)
    /\ boot[p] = from
    /\ boot' = [boot EXCEPT ![p] = to]
    /\ UNCHANGED <<proc, handling, requests, closing, awaits, elapsed, early>>

Connect(p) == BootTo(p, "connect", "look") /\ UNCHANGED <<admin, polling>>

\* A slip: the administrator is registered without a look.
Look_Skipped(p) == BootTo(p, "look", "insert") /\ UNCHANGED <<admin, polling>>

\* seedDefaultAdmin: the administrator is only registered when it is not there.
\* (With no ADMIN_PASSWORD it returns at once, as if it were there.)
Look(p) == BootTo(p, "look", IF admin THEN "start" ELSE "insert") /\ UNCHANGED <<admin, polling>>

\* RegisterUseCase looks again, hashes the password and inserts.
Insert(p) ==
    /\ ~ admin
    /\ BootTo(p, "insert", "start")
    /\ admin' = TRUE
    /\ UNCHANGED polling

\* messaging?.start()
StartMessaging(p) ==
    /\ BootTo(p, "start", "done")
    /\ polling' = [polling EXCEPT ![p] = TRUE]
    /\ UNCHANGED admin

\* main().catch: the database is away, or another replica has registered the
\* administrator first (ConflictError).
StartupFails(p) ==
    /\ Up(p)
    /\ boot[p] \in {"connect", "look", "insert"}
    /\ Ends(p, "exit 1")
    /\ UNCHANGED <<admin, boot, polling, handling, requests, closing, awaits, elapsed, early>>

-----------------------------------------------------------------------------
(* What the process does while it is up.                                   *)

Receive(p) ==
    /\ Up(p)
    /\ polling[p]
    /\ ~ handling[p]
    /\ handling' = [handling EXCEPT ![p] = TRUE]
    /\ UNCHANGED <<admin, proc, boot, polling, requests, closing, awaits, elapsed, early>>

Handled(p) ==
    /\ Up(p)
    /\ handling[p]
    /\ handling' = [handling EXCEPT ![p] = FALSE]
    /\ awaits' = [awaits EXCEPT ![p] = FALSE]
    /\ UNCHANGED <<admin, proc, boot, polling, requests, closing, elapsed, early>>

Request(p) ==
    /\ Up(p)
    /\ closing[p] # "server"
    /\ requests[p] < MaxRequests
    /\ requests' = [requests EXCEPT ![p] = @ + 1]
    /\ UNCHANGED <<admin, proc, boot, polling, handling, closing, awaits, elapsed, early>>

Respond(p) ==
    /\ Up(p)
    /\ requests[p] > 0
    /\ requests' = [requests EXCEPT ![p] = @ - 1]
    /\ UNCHANGED <<admin, proc, boot, polling, handling, closing, awaits, elapsed, early>>

-----------------------------------------------------------------------------
(* The end of a pod.                                                       *)

\* A rollout, or a node that is drained: the preStop hook runs first.
Terminate(p) ==
    /\ Up(p)
    /\ elapsed[p] = NotYet
    /\ elapsed' = [elapsed EXCEPT ![p] = 0]
    /\ UNCHANGED <<admin, proc, boot, polling, handling, requests, closing, awaits, early>>

\* The handler asks the loops to stop. Loops that have not begun are not waited
\* for, nor kept from beginning.
Sigterm(p) ==
    /\ Up(p)
    /\ elapsed[p] = PreStop
    /\ closing[p] = "no"
    /\ closing' = [closing EXCEPT ![p] = "messaging"]
    /\ polling' = [polling EXCEPT ![p] = FALSE]
    /\ awaits' = [awaits EXCEPT ![p] = handling[p]]
    /\ early' = [early EXCEPT ![p] = boot[p] # "done"]
    /\ UNCHANGED <<admin, proc, boot, handling, requests, elapsed>>

\* A slip: messaging.stop() is not awaited.
CloseServer_AtOnce(p) ==
    /\ Up(p)
    /\ closing[p] = "messaging"
    /\ closing' = [closing EXCEPT ![p] = "server"]
    /\ UNCHANGED <<admin, proc, boot, polling, handling, requests, awaits, elapsed, early>>

\* await messaging?.stop(), then server.close()
CloseServer(p) ==
    /\ Up(p)
    /\ closing[p] = "messaging"
    /\ ~ awaits[p]
    /\ closing' = [closing EXCEPT ![p] = "server"]
    /\ UNCHANGED <<admin, proc, boot, polling, handling, requests, awaits, elapsed, early>>

\* The last request is answered, the client disconnected: process.exit(0)
Exit(p) ==
    /\ Up(p)
    /\ closing[p] = "server"
    /\ requests[p] = 0
    /\ Ends(p, "exit 0")
    /\ UNCHANGED <<admin, boot, polling, handling, requests, closing, awaits, elapsed, early>>

ForceAt == PreStop + ForceAfter

ForceExit(p) ==
    /\ Up(p)
    /\ closing[p] # "no"
    /\ elapsed[p] = ForceAt
    /\ Ends(p, "exit 1")
    /\ UNCHANGED <<admin, boot, polling, handling, requests, closing, awaits, elapsed, early>>

\* SIGKILL, when the grace period is over.
Kill(p) ==
    /\ Up(p)
    /\ elapsed[p] = Grace
    /\ Ends(p, "killed")
    /\ UNCHANGED <<admin, boot, polling, handling, requests, closing, awaits, elapsed, early>>

\* A unit of time passes. The signal and the timer are not late.
Tick(p) ==
    /\ Up(p)
    /\ elapsed[p] < Grace
    /\ elapsed[p] # ForceAt
    /\ elapsed[p] = PreStop => closing[p] # "no"
    /\ elapsed' = [elapsed EXCEPT ![p] = @ + 1]
    /\ UNCHANGED <<admin, proc, boot, polling, handling, requests, closing, awaits, early>>

\* The container is started again, or a new pod takes its place.
Restart(p) ==
    /\ ~ Up(p)
    /\ Ends(p, "up")
    /\ boot' = [boot EXCEPT ![p] = "connect"]
    /\ polling' = [polling EXCEPT ![p] = FALSE]
    /\ handling' = [handling EXCEPT ![p] = FALSE]
    /\ requests' = [requests EXCEPT ![p] = 0]
    /\ closing' = [closing EXCEPT ![p] = "no"]
    /\ awaits' = [awaits EXCEPT ![p] = FALSE]
    /\ elapsed' = [elapsed EXCEPT ![p] = NotYet]
    /\ early' = [early EXCEPT ![p] = FALSE]
    /\ UNCHANGED admin

-----------------------------------------------------------------------------
Boot(p) == Connect(p) \/ Look(p) \/ Insert(p) \/ StartMessaging(p) \/ StartupFails(p)

Serve(p) == Receive(p) \/ Handled(p) \/ Request(p) \/ Respond(p)

Shutdown(p) ==
    \/ Terminate(p) \/ Sigterm(p) \/ CloseServer(p) \/ Exit(p)
    \/ ForceExit(p) \/ Kill(p) \/ Tick(p)

Next == \E p \in Pod : Boot(p) \/ Serve(p) \/ Shutdown(p) \/ Restart(p)

Spec == Init /\ [][Next]_vars

\* A pod that ended is replaced, a registration that finds the administrator
\* fails (WF), and the database does not stay away whenever a replica asks (SF).
Fairness ==
    \A p \in Pod :
        /\ WF_vars(Restart(p)) /\ WF_vars(StartMessaging(p))
        /\ WF_vars(Insert(p) \/ (boot[p] = "insert" /\ StartupFails(p)))
        /\ SF_vars(Connect(p)) /\ SF_vars(Look(p)) /\ SF_vars(Insert(p))

FairSpec == Spec /\ Fairness
-----------------------------------------------------------------------------
(* Properties.                                                             *)

\* A clean exit of a replica that had finished its startup cuts neither a
\* message nor a request, however receives and requests fall around SIGTERM.
CleanExitsCutNothing ==
    \A p \in Pod : proc[p] = "exit 0" /\ ~ early[p] => ~ handling[p] /\ requests[p] = 0

\* Every replica comes to handle messages, unless it is told to end first: of
\* replicas that register the administrator at the same time all but one fail,
\* and start once more.
EveryReplicaStarts ==
    \A p \in Pod : boot[p] = "connect" ~> boot[p] = "done" \/ elapsed[p] # NotYet
=============================================================================
