--------------------------- MODULE ConfigureProofs ---------------------------
(***************************************************************************)
(* Proofs about Configure, for any number of Configure calls, users and    *)
(* options.  The inductive invariant says who is inside the Once and what  *)
(* the object under construction already reflects.                         *)
(***************************************************************************)
EXTENDS Configure, TLAPS

InBody(g) == pc[g] \in {"applying", "published"}

\* At most one call is inside the Once, and the Once knows it.
OneInBody ==
    /\ \A g \in Configurers : InBody(g) => once = "running"
    /\ \A g, h \in Configurers : InBody(g) /\ InBody(h) => g = h

\* The object being built reflects exactly the options applied so far.
UnderConstruction ==
    \A g \in Configurers : pc[g] = "applying" =>
        /\ global = Nil
        /\ Reflects(heap[g], g, applied[g])

\* The published object is complete, and the call that published it is past
\* the store; nobody else is.
PublishedIsComplete ==
    /\ Configured => /\ pc[global] \in {"published", "returned"}
                     /\ Reflects(heap[global], global, Len(Options[global]))
    /\ \A g \in Configurers : pc[g] \in {"published", "returned"} => global = g

\* A Once that is done published something or died in an option; a fresh one
\* has seen nothing of the kind.
OnceHistory ==
    /\ once = "new" => global = Nil
    /\ once = "done" => Configured \/ \E h \in Configurers : pc[h] = "optionPanic"
    /\ \A g \in Configurers : pc[g] = "oncePanic" => once = "done"
    /\ \A g \in Configurers : pc[g] = "start" => applied[g] = 0

ClientsShareGlobal == \A u \in Users : client[u] # Nil => client[u] = global

IInv == /\ TypeOK
        /\ OneInBody
        /\ UnderConstruction
        /\ PublishedIsComplete
        /\ OnceHistory
        /\ ClientsShareGlobal

-----------------------------------------------------------------------------
(* Type correctness.                                                       *)

LEMMA InitialConfigType == \A g \in Configurers : InitialConfig(g) \in [Fields -> Values]
BY ConfigureAssumption DEF InitialConfig

\* An option that is about to be applied names a field and a legal value.
LEMMA NextOptionType ==
    ASSUME TypeOK, NEW g \in Configurers,
           applied[g] < Len(Options[g]), NextOption(g) # NilOption
    PROVE  NextOption(g).field \in Fields /\ NextOption(g).value \in Values
<1>1. /\ Options[g] \in Seq([field : Fields, value : Values] \cup {NilOption})
      /\ applied[g] + 1 \in 1..Len(Options[g])
  BY ConfigureAssumption DEF TypeOK
<1>2. NextOption(g) \in [field : Fields, value : Values] \cup {NilOption}
  BY <1>1 DEF NextOption
<1>3. QED
  BY <1>2

LEMMA TypeStep == TypeOK /\ [Next]_vars => TypeOK'
<1> SUFFICES ASSUME TypeOK, [Next]_vars PROVE TypeOK'
  OBVIOUS
<1> USE ConfigureAssumption DEF TypeOK, Stages
<1>1. ASSUME NEW g \in Configurers, EnterOnce(g) PROVE TypeOK'
  BY <1>1, InitialConfigType DEF EnterOnce
<1>2. ASSUME NEW g \in Configurers, PanicAlreadyConfigured(g) PROVE TypeOK'
  BY <1>2 DEF PanicAlreadyConfigured
<1>3. ASSUME NEW g \in Configurers, ApplyOption(g) PROVE TypeOK'
  <2>1. NextOption(g).field \in Fields /\ NextOption(g).value \in Values
    BY <1>3, NextOptionType DEF ApplyOption
  <2>2. heap' \in [Configurers -> [Fields -> Values]]
    BY <1>3, <2>1 DEF ApplyOption
  <2>3. /\ applied' \in [Configurers -> Nat]
        /\ \A h \in Configurers : applied'[h] <= Len(Options[h])
    BY <1>3 DEF ApplyOption
  <2>4. QED
    BY <1>3, <2>2, <2>3 DEF ApplyOption
<1>4. ASSUME NEW g \in Configurers, OptionPanics(g) PROVE TypeOK'
  BY <1>4 DEF OptionPanics, OnceAfterPanic
<1>5. ASSUME NEW g \in Configurers, Publish(g) PROVE TypeOK'
  BY <1>5 DEF Publish, Stored
<1>6. ASSUME NEW g \in Configurers, LeaveOnce(g) PROVE TypeOK'
  BY <1>6 DEF LeaveOnce
<1>7. ASSUME NEW u \in Users, New(u) PROVE TypeOK'
  BY <1>7 DEF New
<1>8. ASSUME NEW u \in Users, NEW v \in Users, Derive(u, v) PROVE TypeOK'
  BY <1>8 DEF Derive
<1>9. CASE UNCHANGED vars
  BY <1>9 DEF vars
<1>10. QED
  BY <1>1, <1>2, <1>3, <1>4, <1>5, <1>6, <1>7, <1>8, <1>9 DEF Next, ConfigureStep

\* Type correctness of SDK initialisation for any number of calls and options.
THEOREM TypeCorrect == Spec => []TypeOK
<1>1. Init => TypeOK
  BY ConfigureAssumption, InitialConfigType DEF Init, TypeOK, Stages
<1>2. QED
  BY <1>1, TypeStep, PTL DEF Spec

-----------------------------------------------------------------------------
(* The inductive invariant.                                                *)

LEMMA ReflectsNothing == \A g \in Configurers : Reflects(InitialConfig(g), g, 0)
BY DEF Reflects, Setters

\* Applying the next option keeps "last setting of each field wins".
LEMMA ReflectsNext ==
    ASSUME TypeOK, NEW g \in Configurers, ApplyOption(g), Reflects(heap[g], g, applied[g])
    PROVE  Reflects(heap'[g], g, applied'[g])
<1> DEFINE n == applied[g]
           opt == NextOption(g)
<1>1. /\ n \in Nat /\ n + 1 \in 1..(n + 1)
      /\ applied'[g] = n + 1
      /\ opt # NilOption /\ opt.field \in Fields
      /\ opt = Options[g][n + 1]
      /\ heap'[g] = [heap[g] EXCEPT ![opt.field] = opt.value]
      /\ heap[g] \in [Fields -> Values]
  BY NextOptionType DEF ApplyOption, TypeOK, NextOption
<1> HIDE DEF opt, n
<1>2. SUFFICES ASSUME NEW f \in Fields
               PROVE  \/ Setters(g, n + 1, f) = {} /\ heap'[g][f] = InitialConfig(g)[f]
                      \/ \E i \in Setters(g, n + 1, f) :
                            /\ heap'[g][f] = Options[g][i].value
                            /\ \A j \in Setters(g, n + 1, f) : j <= i
  BY <1>1 DEF Reflects
<1>3. CASE f = opt.field
  <2>1. n + 1 \in Setters(g, n + 1, f) /\ \A j \in Setters(g, n + 1, f) : j <= n + 1
    BY <1>1, <1>3 DEF Setters
  <2>2. heap'[g][f] = Options[g][n + 1].value
    BY <1>1, <1>3
  <2>3. QED
    BY <2>1, <2>2
<1>4. CASE f # opt.field
  <2>1. Setters(g, n + 1, f) = Setters(g, n, f)
    BY <1>1, <1>4 DEF Setters
  <2>2. heap'[g][f] = heap[g][f]
    BY <1>1, <1>4
  <2>3. QED
    BY <2>1, <2>2, <1>1 DEF Reflects, n
<1>5. QED
  BY <1>3, <1>4

LEMMA InitIInv == Init => IInv
<1> SUFFICES ASSUME Init PROVE IInv
  OBVIOUS
<1>1. TypeOK
  BY ConfigureAssumption, InitialConfigType DEF Init, TypeOK, Stages
<1>2. QED
  BY <1>1, ConfigureAssumption
     DEF Init, IInv, OneInBody, InBody, UnderConstruction, PublishedIsComplete,
         OnceHistory, ClientsShareGlobal, Configured

LEMMA NextIInv == IInv /\ [Next]_vars => IInv'
<1> SUFFICES ASSUME IInv, [Next]_vars PROVE IInv'
  OBVIOUS
<1>0. TypeOK'
  BY TypeStep DEF IInv
<1> USE ConfigureAssumption
<1>1. ASSUME NEW g \in Configurers, EnterOnce(g) PROVE IInv'
  <2>1. Reflects(heap'[g], g, applied'[g])
    BY <1>1, ReflectsNothing DEF EnterOnce, IInv, OnceHistory, TypeOK
  <2>2. UnderConstruction'
    BY <1>1, <2>1 DEF EnterOnce, OnceFree, IInv, TypeOK, UnderConstruction, OnceHistory, Stages,
                      OneInBody, InBody
  <2>3. QED
    BY <1>0, <1>1, <2>2 DEF EnterOnce, OnceFree, IInv, TypeOK, OneInBody, InBody,
          PublishedIsComplete, OnceHistory, ClientsShareGlobal, Configured, Stages
<1>2. ASSUME NEW g \in Configurers, PanicAlreadyConfigured(g) PROVE IInv'
  BY <1>0, <1>2 DEF PanicAlreadyConfigured, OnceTaken, IInv, TypeOK, OneInBody, InBody,
        UnderConstruction, PublishedIsComplete, OnceHistory, ClientsShareGlobal, Configured
<1>3. ASSUME NEW g \in Configurers, ApplyOption(g) PROVE IInv'
  <2>1. Reflects(heap'[g], g, applied'[g])
    BY <1>3, ReflectsNext DEF IInv, UnderConstruction, ApplyOption
  <2>2. \A h \in Configurers : h # g => heap'[h] = heap[h] /\ applied'[h] = applied[h]
    BY <1>3 DEF ApplyOption, IInv, TypeOK
  <2>3. UnderConstruction'
    BY <1>3, <2>1, <2>2 DEF ApplyOption, IInv, UnderConstruction
  <2>4. QED
    BY <1>0, <1>3, <2>2, <2>3 DEF ApplyOption, IInv, TypeOK, OneInBody, InBody,
          UnderConstruction, PublishedIsComplete, OnceHistory, ClientsShareGlobal, Configured
<1>4. ASSUME NEW g \in Configurers, OptionPanics(g) PROVE IInv'
  BY <1>0, <1>4 DEF OptionPanics, OnceAfterPanic, IInv, TypeOK, OneInBody, InBody,
        UnderConstruction, PublishedIsComplete, OnceHistory, ClientsShareGlobal, Configured
<1>5. ASSUME NEW g \in Configurers, Publish(g) PROVE IInv'
  BY <1>0, <1>5 DEF Publish, Publishable, Stored, IInv, TypeOK, OneInBody, InBody,
        UnderConstruction, PublishedIsComplete, OnceHistory, ClientsShareGlobal, Configured
<1>6. ASSUME NEW g \in Configurers, LeaveOnce(g) PROVE IInv'
  BY <1>0, <1>6 DEF LeaveOnce, IInv, TypeOK, OneInBody, InBody,
        UnderConstruction, PublishedIsComplete, OnceHistory, ClientsShareGlobal, Configured
<1>7. ASSUME NEW u \in Users, New(u) PROVE IInv'
  BY <1>0, <1>7 DEF New, IInv, TypeOK, OneInBody, InBody,
        UnderConstruction, PublishedIsComplete, OnceHistory, ClientsShareGlobal, Configured
<1>8. ASSUME NEW u \in Users, NEW v \in Users, Derive(u, v) PROVE IInv'
  BY <1>0, <1>8 DEF Derive, IInv, TypeOK, OneInBody, InBody,
        UnderConstruction, PublishedIsComplete, OnceHistory, ClientsShareGlobal, Configured
<1>9. CASE UNCHANGED vars
  BY <1>0, <1>9 DEF vars, IInv, OneInBody, InBody,
        UnderConstruction, PublishedIsComplete, OnceHistory, ClientsShareGlobal, Configured
<1>10. QED
  BY <1>1, <1>2, <1>3, <1>4, <1>5, <1>6, <1>7, <1>8, <1>9 DEF Next, ConfigureStep

LEMMA Inductive == Spec => []IInv
BY InitIInv, NextIInv, PTL DEF Spec

-----------------------------------------------------------------------------
(* The properties.                                                         *)

\* No client is ever backed by a half-built configuration.
THEOREM FullConfig == Spec => []ClientsSeeFullConfig
<1>1. IInv => ClientsSeeFullConfig
  BY ConfigureAssumption
     DEF IInv, TypeOK, ClientsShareGlobal, ClientsSeeFullConfig, PublishedIsComplete, Configured
<1>2. QED
  BY <1>1, Inductive, PTL

\* "Must only be called once" is reported only after the first call has ended.
THEOREM LosersWait == Spec => []LoserPanicsLate
<1>1. IInv => LoserPanicsLate
  BY DEF IInv, OnceHistory, LoserPanicsLate
<1>2. QED
  BY <1>1, Inductive, PTL

\* Neither the published pointer nor the object behind it changes again.
THEOREM Frozen == Spec => PublishedIsFrozen
<1>1. IInv /\ [Next]_vars => (Configured => global' = global /\ heap'[global] = heap[global])
  <2> SUFFICES ASSUME IInv, [Next]_vars, Configured
               PROVE  global' = global /\ heap'[global] = heap[global]
    OBVIOUS
  <2>1. /\ global \in Configurers
        /\ pc[global] \in {"published", "returned"}
        /\ once # "new"
        /\ \A g \in Configurers : pc[g] # "applying"
    BY ConfigureAssumption
       DEF IInv, TypeOK, Configured, PublishedIsComplete, OnceHistory, UnderConstruction
  <2>2. CASE UNCHANGED vars
    BY <2>2 DEF vars
  <2>3. CASE Next
    BY <2>1, <2>3 DEF Next, ConfigureStep, EnterOnce, OnceFree, PanicAlreadyConfigured,
          ApplyOption, OptionPanics, Publish, LeaveOnce, New, Derive
  <2>4. QED
    BY <2>2, <2>3
<1>2. QED
  BY <1>1, Inductive, PTL DEF Spec, PublishedIsFrozen

\* After a Configure call has returned, New does not panic.
THEOREM NewSucceeds == Spec => NewAfterConfigureSucceeds
<1>1. IInv /\ [Next]_vars =>
        ((\E g \in Configurers : pc[g] = "returned") =>
            \A u \in Users : outcome'[u] = "panic" => outcome[u] = "panic")
  <2> SUFFICES ASSUME IInv, [Next]_vars, NEW g \in Configurers, pc[g] = "returned",
                      NEW u \in Users, outcome'[u] = "panic"
               PROVE  outcome[u] = "panic"
    OBVIOUS
  <2>1. Configured /\ outcome \in [Users -> {"none", "client", "panic"}]
    BY ConfigureAssumption DEF IInv, TypeOK, PublishedIsComplete, Configured
  <2>2. CASE UNCHANGED vars
    BY <2>2 DEF vars
  <2>3. ASSUME NEW v \in Users, New(v) PROVE outcome[u] = "panic"
    BY <2>1, <2>3 DEF New
  <2>4. ASSUME NEW v \in Users, NEW w \in Users, Derive(v, w) PROVE outcome[u] = "panic"
    BY <2>4 DEF Derive
  <2>5. ASSUME NEW h \in Configurers, ConfigureStep(h) PROVE outcome[u] = "panic"
    BY <2>5 DEF ConfigureStep, EnterOnce, PanicAlreadyConfigured, ApplyOption, OptionPanics,
                Publish, LeaveOnce
  <2>6. QED
    BY <2>2, <2>3, <2>4, <2>5 DEF Next
<1>2. QED
  BY <1>1, Inductive, PTL DEF Spec, NewAfterConfigureSucceeds

-----------------------------------------------------------------------------
(* Configure implements the write-once cell.                               *)

LEMMA CellInitRefined == Init => ConfigCell!CellInit
BY DEF Init, ConfigCell!CellInit, Configured

LEMMA CellStepRefined ==
    IInv /\ [Next]_vars =>
        [ConfigCell!CellNext]_(IF Configured THEN global ELSE IF once = "done" THEN "spent" ELSE Nil)
<1> SUFFICES ASSUME IInv, [Next]_vars
             PROVE  [ConfigCell!CellNext]_(IF Configured THEN global
                                           ELSE IF once = "done" THEN "spent" ELSE Nil)
  OBVIOUS
<1> USE ConfigureAssumption DEF Configured, ConfigCell!CellNext, ConfigCell!Install, ConfigCell!Spend
<1>1. ASSUME NEW g \in Configurers, Publish(g)
      PROVE  /\ ~Configured /\ once = "running"
             /\ global' = g /\ g # Nil
    BY <1>1 DEF Publish, Stored, IInv, TypeOK, OneInBody, InBody, UnderConstruction
<1>2. ASSUME NEW g \in Configurers, OptionPanics(g)
      PROVE  /\ ~Configured /\ once = "running"
             /\ ~Configured' /\ once' = "done"
    BY <1>2 DEF OptionPanics, OnceAfterPanic, IInv, TypeOK, OneInBody, InBody, UnderConstruction
<1>3. ASSUME NEW g \in Configurers, LeaveOnce(g) PROVE Configured /\ global' = global
    BY <1>3 DEF LeaveOnce, IInv, TypeOK, PublishedIsComplete
<1>4. ASSUME NEW g \in Configurers, EnterOnce(g)
      PROVE  /\ global' = global /\ once # "done" /\ once' # "done"
    BY <1>4 DEF EnterOnce, OnceFree
<1>5. ASSUME \/ \E g \in Configurers : PanicAlreadyConfigured(g) \/ ApplyOption(g)
             \/ \E u \in Users : New(u)
             \/ \E u, v \in Users : Derive(u, v)
             \/ UNCHANGED vars
      PROVE  global' = global /\ once' = once
    BY <1>5 DEF PanicAlreadyConfigured, ApplyOption, New, Derive, vars
<1>6. QED
    BY <1>1, <1>2, <1>3, <1>4, <1>5 DEF Next, ConfigureStep

\* Configure is a write-once cell for any number of calls (client.go:81-106).
THEOREM Refinement == Spec => ImplementsCell
BY CellInitRefined, CellStepRefined, Inductive, PTL
   DEF Spec, ImplementsCell, ConfigCell!CellSpec

=============================================================================
