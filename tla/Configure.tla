------------------------------ MODULE Configure ------------------------------
(***************************************************************************)
(* SDK initialisation (src/ibs/client.go:28-162): Configure guarded by a   *)
(* sync.Once, the published pointer `global`, and the clients that New and *)
(* the With... methods hand out.  Every goroutine may be between any two   *)
(* steps.  A panic is recovered by its goroutine's caller (as net/http     *)
(* does for handlers), so the process lives on after it.                   *)
(*                                                                         *)
(* A configuration object is named by the Configure call that allocates    *)
(* it: heap[g] is its content and global is a pointer, so a change to      *)
(* heap[g] after publication would be seen by every client.                *)
(***************************************************************************)
EXTENDS Integers, Sequences

CONSTANTS Configurers,  \* goroutines that call Configure, once each
          Users,        \* goroutines that call New and the With... methods
          Options,      \* Options[g]: the opts Configure call g is given
          NilOption,    \* an Option variable that was never assigned
          Values,       \* what a configuration field can hold
          Nil           \* the nil pointer

Fields == {"credentials", "userAgent", "logger", "httpClient"}

WithUserAgent(ua)  == [field |-> "userAgent",  value |-> ua]
WithLogger(l)      == [field |-> "logger",     value |-> l]
WithHTTPClient(hc) == [field |-> "httpClient", value |-> hc]

\* Faulty variant: the literal forgets the default HTTP client.
NoDefaultClient(g) == [f \in Fields |-> CASE f = "credentials" -> g
                                          [] f = "httpClient" -> Nil
                                          [] OTHER -> "default"]

\* The literal of client.go:88-97: the caller's credentials, defaults elsewhere.
InitialConfig(g) == [f \in Fields |-> IF f = "credentials" THEN g ELSE "default"]

ASSUME ConfigureAssumption ==
    /\ Nil \notin Values
    /\ Configurers \subseteq Values /\ "default" \in Values
    /\ Options \in [Configurers -> Seq([field : Fields, value : Values] \cup {NilOption})]
    /\ NilOption \notin [field : Fields, value : Values]

VARIABLES once,     \* globalOnce: "new", "running" or "done"
          global,   \* global: the published configuration, or Nil
          heap,     \* the globalConfig object of each Configure call
          applied,  \* how many options each Configure call has applied
          pc,       \* where each Configure call is
          client,   \* the configuration pointer g of each user's client, or Nil
          outcome   \* how each user's last New ended: "none", "client", "panic"

vars == <<once, global, heap, applied, pc, client, outcome>>

Stages == {"start", "applying", "published", "returned", "optionPanic", "oncePanic"}
Ended  == {"returned", "optionPanic", "oncePanic"}

Init == /\ once = "new"
        /\ global = Nil
        /\ heap = [g \in Configurers |-> InitialConfig(g)]
        /\ applied = [g \in Configurers |-> 0]
        /\ pc = [g \in Configurers |-> "start"]
        /\ client = [u \in Users |-> Nil]
        /\ outcome = [u \in Users |-> "none"]

Configured == global # Nil

-----------------------------------------------------------------------------
(* sync.Once: the first caller runs the body, later callers wait for it.   *)

\* Faulty variant: a flag tested without waiting for the body to finish.
OnceTakenEarly == once # "new"

OnceTaken == once = "done"

\* Faulty variant: the body may be entered again while it is running.
OnceFreeAgain == once # "done"

OnceFree == once = "new"

EnterOnce(g) == /\ pc[g] = "start" /\ OnceFree
                /\ once' = "running"
                /\ heap' = [heap EXCEPT ![g] = InitialConfig(g)]
                /\ pc' = [pc EXCEPT ![g] = "applying"]
                /\ UNCHANGED <<global, applied, client, outcome>>

\* called stays false: "Configure() must only be called once".
PanicAlreadyConfigured(g) == /\ pc[g] = "start" /\ OnceTaken
                             /\ pc' = [pc EXCEPT ![g] = "oncePanic"]
                             /\ UNCHANGED <<once, global, heap, applied, client, outcome>>

-----------------------------------------------------------------------------
(* The body: apply the options in order, then publish.                     *)

NextOption(g) == Options[g][applied[g] + 1]

ApplyOption(g) == /\ pc[g] = "applying" /\ applied[g] < Len(Options[g])
                  /\ NextOption(g) # NilOption
                  /\ heap' = [heap EXCEPT ![g][NextOption(g).field] = NextOption(g).value]
                  /\ applied' = [applied EXCEPT ![g] = @ + 1]
                  /\ UNCHANGED <<once, global, pc, client, outcome>>

\* Faulty variant: a panicking option leaves the Once held for ever.
OnceHeldOnPanic == once

\* sync.Once counts a body that panics as done.
OnceAfterPanic == "done"

\* opt(g) calls a nil function.
OptionPanics(g) == /\ pc[g] = "applying" /\ applied[g] < Len(Options[g])
                   /\ NextOption(g) = NilOption
                   /\ once' = OnceAfterPanic
                   /\ pc' = [pc EXCEPT ![g] = "optionPanic"]
                   /\ UNCHANGED <<global, heap, applied, client, outcome>>

\* Faulty variant: the pointer is published before the options are applied.
PublishableAtOnce(g) == TRUE

Publishable(g) == applied[g] = Len(Options[g])

\* Faulty variant: the body ends without the store.
NotStored(g) == global

Stored(g) == g

Publish(g) == /\ pc[g] = "applying" /\ Publishable(g)
              /\ global' = Stored(g)
              /\ pc' = [pc EXCEPT ![g] = "published"]
              /\ UNCHANGED <<once, heap, applied, client, outcome>>

LeaveOnce(g) == /\ pc[g] = "published"
                /\ once' = "done"
                /\ pc' = [pc EXCEPT ![g] = "returned"]
                /\ UNCHANGED <<global, heap, applied, client, outcome>>

-----------------------------------------------------------------------------
(* Users.                                                                  *)

New(u) == /\ IF Configured
             THEN client' = [client EXCEPT ![u] = global] /\ outcome' = [outcome EXCEPT ![u] = "client"]
             ELSE outcome' = [outcome EXCEPT ![u] = "panic"] /\ UNCHANGED client
          /\ UNCHANGED <<once, global, heap, applied, pc>>

\* WithUser, WithCard, WithUserAndCard: a copy that shares the g pointer.
Derive(u, v) == /\ client[u] # Nil
                /\ client' = [client EXCEPT ![v] = client[u]]
                /\ UNCHANGED <<once, global, heap, applied, pc, outcome>>

ConfigureStep(g) == \/ EnterOnce(g) \/ PanicAlreadyConfigured(g)
                    \/ ApplyOption(g) \/ OptionPanics(g)
                    \/ Publish(g) \/ LeaveOnce(g)

Next == \/ \E g \in Configurers : ConfigureStep(g)
        \/ \E u \in Users : New(u)
        \/ \E u, v \in Users : Derive(u, v)

\* The Go scheduler lets every goroutine that can run do so eventually;
\* nothing obliges a user to call New.
Fairness == \A g \in Configurers : WF_vars(ConfigureStep(g))

Spec == Init /\ [][Next]_vars /\ Fairness

-----------------------------------------------------------------------------
(* Properties.                                                             *)

TypeOK == /\ once \in {"new", "running", "done"}
          /\ global \in Configurers \cup {Nil}
          /\ heap \in [Configurers -> [Fields -> Values]]
          /\ applied \in [Configurers -> Nat]
          /\ \A g \in Configurers : applied[g] <= Len(Options[g])
          /\ pc \in [Configurers -> Stages]
          /\ client \in [Users -> Configurers \cup {Nil}]
          /\ outcome \in [Users -> {"none", "client", "panic"}]

\* The first n options of call g that set field f.
Setters(g, n, f) == {i \in 1..n : Options[g][i] # NilOption /\ Options[g][i].field = f}

\* cfg is what applying the first n options of call g, last one wins, must give.
Reflects(cfg, g, n) ==
    \A f \in Fields :
        \/ Setters(g, n, f) = {} /\ cfg[f] = InitialConfig(g)[f]
        \/ \E i \in Setters(g, n, f) : /\ cfg[f] = Options[g][i].value
                                       /\ \A j \in Setters(g, n, f) : j <= i

\* Whenever a client exists it points at the one published configuration, and
\* that configuration carries every option of the winning Configure call, the
\* last setting of each field winning: no user ever works with a half-built
\* configuration, whatever the interleaving (client.go:98-101 before 132-140).
ClientsSeeFullConfig ==
    \A u \in Users : client[u] # Nil =>
        /\ client[u] = global
        /\ Reflects(heap[global], global, Len(Options[global]))

\* A Configure call that panics with "must only be called once" has waited for
\* the first call to end: by then either the configuration is published or the
\* first call died in an option (client.go:86, 103-105).
LoserPanicsLate ==
    \A g \in Configurers : pc[g] = "oncePanic" =>
        Configured \/ \E h \in Configurers : pc[h] = "optionPanic"

\* Clients read the configuration without a lock ("read-only after Configure",
\* client.go:121): once published, neither the pointer nor the object behind it
\* changes again.
PublishedIsFrozen ==
    [][Configured => global' = global /\ heap'[global] = heap[global]]_vars

\* Once some Configure call has returned, no later New panics (client.go:132-135).
NewAfterConfigureSucceeds ==
    [][(\E g \in Configurers : pc[g] = "returned") =>
           \A u \in Users : outcome'[u] = "panic" => outcome[u] = "panic"]_vars

\* Every Configure call ends, by returning or by a panic: waiting on the Once
\* cannot last for ever, even when the call that holds it dies (client.go:86-105).
EveryConfigureEnds == \A g \in Configurers : <>(pc[g] \in Ended)

\* The write-once cell that Configure implements.
ConfigCell == INSTANCE ConfigCell WITH
    Writers <- Configurers,
    Spent <- "spent",
    cell <- IF Configured THEN global ELSE IF once = "done" THEN "spent" ELSE Nil

\* Whatever the interleaving, Configure is a write-once cell: at most one call
\* installs its configuration, nobody replaces it, and a call that dies in an
\* option uses the only write up (client.go:81-106).
ImplementsCell == ConfigCell!CellSpec

\* What the comment of Configured says (client.go:108: "reports whether
\* [Configure] has already been called"): a call that has come to its end is
\* reported.  A call that dies in an option is not.
ConfiguredReportsCalls ==
    (\E g \in Configurers : pc[g] \in Ended) => Configured

=============================================================================
