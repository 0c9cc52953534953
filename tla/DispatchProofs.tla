--------------------------- MODULE DispatchProofs ---------------------------
(***************************************************************************)
(* TLAPS proofs about Dispatch, for any number of calls, attempts, intents *)
(* and clock readings.                                                     *)
(***************************************************************************)
EXTENDS Dispatch, TLAPS

Owners == BeforeBarrier \cup AfterBarrier

\* A version number determines how far the attempt has got.
RowOK(row) ==
  /\ row.tail = "None" <=> row.ver = 0
  /\ row.tail = "Prepared" <=> row.ver = 1
  /\ row.tail \in {"Sending", "Blocked"} => row.ver = 2
  /\ row.tail = "Sent" => row.ver = 3
  /\ row.tail # "None" => row.intent \in Intents

\* The journal: Sending and Sent rows are bound, bound rows passed the barrier.
JournalOK ==
  /\ \A a \in Attempts : RowOK(chain[a])
  /\ \A i \in Intents : bound[i] # NoAttempt =>
       /\ chain[bound[i]].intent = i
       /\ chain[bound[i]].tail \in {"Sending", "Sent", "Unknown"}
       /\ chain[bound[i]].ver = 2 => chain[bound[i]].tail = "Sending"
  /\ \A a \in Attempts : chain[a].tail \in {"Sending", "Sent"} =>
       bound[chain[a].intent] = a

\* What a call may rely on at label l with locals x.
CallAt(l, x) ==
  /\ l # "idle" =>
       x.att \in Attempts /\ x.intent \in Intents /\ x.rec \in Attempts
  /\ l \in {"lookup", "intent", "scan", "prepare"} \cup Owners => x.rec = x.att
  /\ l = "recover" => chain[x.rec].tail # "None"
  /\ l = "resolve" => chain[x.rec].tail \in {"Sending", "Sent", "Unknown"}
  /\ l = "fence" => chain[x.rec].tail # "None"
  /\ l = "report" => chain[x.rec].tail \in {"Blocked", "Unknown"}
  /\ l \in BeforeBarrier => chain[x.att].tail \in {"Prepared", "Blocked"}
  /\ l \in {"blocked", "guardfailed"} => chain[x.att].tail = "Blocked"
  /\ l \in AfterBarrier => chain[x.att].tail \in {"Sending", "Unknown"}
  /\ l \in AfterBarrier => bound[x.intent] = x.att
  /\ l \in Owners => chain[x.att].intent = x.intent
  /\ Honest /\ l = "barrier" => wires[x.att] = 0
  /\ Honest /\ l \in {"wired", "terminal"} => wires[x.att] = 1

CallOK(c) == CallAt(pc[c], loc[c])

\* Only the call that inserted Prepared goes on to send, so an attempt has at
\* most one owner.
OneOwner ==
  \A c, d \in Calls :
    pc[c] \in Owners /\ pc[d] \in Owners /\ loc[c].att = loc[d].att => c = d

\* Requests at the provider, with a wrapper that keeps its contract.
WireOK ==
  \A a \in Attempts :
    /\ wires[a] \in {0, 1}
    /\ wires[a] = 1 => chain[a].tail # "None" /\ bound[chain[a].intent] = a
    /\ chain[a].tail = "Sent" => wires[a] = 1

\* What a DispatchOutcome says stays true of the journal.
OutcomeOK(o) ==
  /\ o.status = "BLOCKED" => /\ o.att \in Attempts
                             /\ chain[o.att].tail \in {"Blocked", "Unknown"}
                             /\ bound[chain[o.att].intent] # o.att
  /\ o.status = "SENT" => o.att \in Attempts /\ chain[o.att].tail = "Sent"

IInv ==
  /\ TypeOK
  /\ JournalOK
  /\ \A c \in Calls : CallOK(c)
  /\ OneOwner
  /\ \A c \in Calls : OutcomeOK(out[c])
  /\ Honest => WireOK

-----------------------------------------------------------------------------
(***************************************************************************)
(* How one step of call c may change the row of attempt a: the shape every *)
(* append of the code has. The last three are reserved to the owner.       *)
(***************************************************************************)
RowStep(c, a) ==
  LET old == chain[a]
      new == chain'[a] IN
  \/ /\ old.tail = "None" /\ new.tail = "Prepared" /\ new.ver = 1
     /\ new.intent \in Intents /\ bound' = bound
  \/ /\ old.tail = "Prepared" /\ new.tail = "Blocked" /\ new.ver = 2
     /\ new.intent = old.intent /\ bound' = bound
  \/ /\ old.tail = "Sending" /\ new.tail = "Unknown" /\ new.ver = 3
     /\ new.intent = old.intent /\ bound' = bound
  \/ /\ pc[c] = "terminal" /\ loc[c].att = a
     /\ old.tail = "Sending" /\ new.tail = "Sent" /\ new.ver = 3
     /\ new.intent = old.intent /\ bound' = bound
  \/ /\ pc[c] \in BeforeBarrier /\ loc[c].att = a
     /\ old.tail \in {"Prepared", "Blocked"} /\ new.tail = "Unknown"
     /\ new.ver = old.ver + 1
     /\ new.intent = old.intent /\ bound' = bound
  \/ /\ pc[c] \in BeforeBarrier /\ loc[c].att = a
     /\ old.tail = "Prepared" /\ new.tail = "Sending" /\ new.ver = 2
     /\ new.intent = old.intent
     /\ bound[old.intent] = NoAttempt
     /\ bound' = [bound EXCEPT ![old.intent] = a]

JournalStep(c) ==
  \/ chain' = chain /\ bound' = bound
  \/ \E a \in Attempts : /\ \A b \in Attempts \ {a} : chain'[b] = chain[b]
                         /\ RowStep(c, a)

\* A call becomes the owner of an attempt only by inserting its first row.
OwnerStep(c) ==
  pc'[c] \in Owners =>
    \/ pc[c] \in Owners /\ loc'[c].att = loc[c].att
    \/ chain[loc'[c].att].tail = "None"

OthersIdle(c) ==
  \A d \in Calls \ {c} : pc'[d] = pc[d] /\ loc'[d] = loc[d]

\* Only a call that has passed the barrier and sent nothing yet adds a request.
WireStep(c) ==
  \/ wires' = wires
  \/ /\ pc[c] = "barrier"
     /\ wires' = [wires EXCEPT ![loc[c].att] = @ + 1]
     /\ chain' = chain /\ bound' = bound

OutcomeStep == \A d \in Calls : out'[d] = out[d] \/ OutcomeOK(out[d])'

\* Appends of the shape RowStep keep the journal consistent.
LEMMA JournalStepOK ==
  ASSUME IInv, NEW c \in Calls, JournalStep(c)
  PROVE  JournalOK'
<1> USE ConstantsAssumption
<1>1. CASE chain' = chain /\ bound' = bound
  BY <1>1 DEF IInv, JournalOK
<1>2. ASSUME NEW a \in Attempts,
             \A b \in Attempts \ {a} : chain'[b] = chain[b],
             RowStep(c, a)
      PROVE  JournalOK'
  <2>1. \A b \in Attempts : RowOK(chain[b])' 
    BY <1>2 DEF IInv, JournalOK, RowOK, RowStep
  <2>2. /\ chain[a].tail \in {"Sending", "Sent", "Unknown"} =>
             chain'[a].tail \in {"Sent", "Unknown", "Sending"}
        /\ chain[a].tail \in {"Sending", "Sent", "Unknown"} => chain'[a].ver = 3
        /\ chain[a].tail # "None" => chain'[a].intent = chain[a].intent
        /\ chain[a].tail # "None" => chain[a].intent \in Intents
        /\ bound \in [Intents -> Attempts \cup {NoAttempt}]
    BY <1>2 DEF IInv, TypeOK, JournalOK, RowOK, RowStep
  <2>3. CASE bound' = bound
    <3>1. \A i \in Intents : bound'[i] # NoAttempt =>
            /\ chain'[bound'[i]].intent = i
            /\ chain'[bound'[i]].tail \in {"Sending", "Sent", "Unknown"}
            /\ chain'[bound'[i]].ver = 2 => chain'[bound'[i]].tail = "Sending"
      BY <1>2, <2>2, <2>3 DEF IInv, JournalOK
    <3>2. \A b \in Attempts : chain'[b].tail \in {"Sending", "Sent"} =>
            bound'[chain'[b].intent] = b
      BY <1>2, <2>2, <2>3 DEF IInv, JournalOK, RowStep
    <3> QED BY <2>1, <3>1, <3>2 DEF JournalOK
  <2>4. CASE bound' # bound
    <3>1. /\ chain[a].tail = "Prepared" /\ chain'[a].tail = "Sending"
          /\ chain'[a].intent = chain[a].intent
          /\ bound[chain[a].intent] = NoAttempt
          /\ bound' = [bound EXCEPT ![chain[a].intent] = a]
      BY <1>2, <2>4 DEF RowStep
    <3>2. /\ bound'[chain[a].intent] = a
          /\ \A i \in Intents \ {chain[a].intent} : bound'[i] = bound[i]
      BY <2>2, <3>1
    <3>3. \A i \in Intents : bound'[i] # NoAttempt =>
            /\ chain'[bound'[i]].intent = i
            /\ chain'[bound'[i]].tail \in {"Sending", "Sent", "Unknown"}
            /\ chain'[bound'[i]].ver = 2 => chain'[bound'[i]].tail = "Sending"
      <4> SUFFICES ASSUME NEW i \in Intents, bound'[i] # NoAttempt
                   PROVE  /\ chain'[bound'[i]].intent = i
                          /\ chain'[bound'[i]].tail \in {"Sending", "Sent", "Unknown"}
                          /\ chain'[bound'[i]].ver = 2 => chain'[bound'[i]].tail = "Sending"
        OBVIOUS
      <4>1. CASE i = chain[a].intent BY <3>1, <3>2, <4>1
      <4>2. CASE i # chain[a].intent
        <5>1. bound'[i] = bound[i] /\ bound[i] \in Attempts
          BY <2>2, <3>2, <4>2
        <5>2. bound[i] # a
          BY <3>1, <5>1 DEF IInv, JournalOK
        <5> QED BY <1>2, <5>1, <5>2 DEF IInv, JournalOK
      <4> QED BY <4>1, <4>2
    <3>4. \A b \in Attempts : chain'[b].tail \in {"Sending", "Sent"} =>
            bound'[chain'[b].intent] = b
      <4> SUFFICES ASSUME NEW b \in Attempts, b # a,
                          chain'[b].tail \in {"Sending", "Sent"}
                   PROVE  bound'[chain'[b].intent] = b
        BY <3>1, <3>2
      <4>1. chain'[b] = chain[b] /\ bound[chain[b].intent] = b
        BY <1>2 DEF IInv, JournalOK
      <4>2. chain[b].intent # chain[a].intent /\ chain[b].intent \in Intents
        BY <3>1, <4>1 DEF IInv, JournalOK, RowOK
      <4> QED BY <3>2, <4>1, <4>2
    <3> QED BY <2>1, <3>3, <3>4 DEF JournalOK
  <2> QED BY <2>3, <2>4
<1> QED BY <1>1, <1>2 DEF JournalStep

\* The step of one call disturbs no other call.
LEMMA OthersOK ==
  ASSUME IInv, NEW c \in Calls, JournalStep(c), OthersIdle(c),
         Honest => WireStep(c),
         NEW d \in Calls, d # c
  PROVE  CallOK(d)'
<1> USE ConstantsAssumption
<1>0. pc'[d] = pc[d] /\ loc'[d] = loc[d] BY DEF OthersIdle
<1>w. /\ Honest /\ pc[d] = "barrier" => wires'[loc[d].att] = 0
      /\ Honest /\ pc[d] \in {"wired", "terminal"} => wires'[loc[d].att] = 1
  <2>1. CASE wires' = wires BY <2>1 DEF IInv, CallOK, CallAt
  <2>2. CASE pc[c] = "barrier" /\ wires' = [wires EXCEPT ![loc[c].att] = @ + 1]
    <3>1. pc[d] \in {"barrier", "wired", "terminal"} =>
            loc[d].att # loc[c].att /\ loc[d].att \in Attempts
      BY <2>2 DEF IInv, OneOwner, CallOK, CallAt, Owners, AfterBarrier
    <3> QED BY <2>2, <3>1 DEF IInv, TypeOK, CallOK, CallAt
  <2> QED BY <2>1, <2>2 DEF WireStep
<1>1. CASE chain' = chain /\ bound' = bound
  BY <1>0, <1>1, <1>w DEF IInv, CallOK, CallAt
<1>2. ASSUME NEW a \in Attempts,
             \A b \in Attempts \ {a} : chain'[b] = chain[b],
             RowStep(c, a)
      PROVE  CallOK(d)'
  <2>1. pc[c] \in Owners /\ pc[d] \in Owners => loc[c].att # loc[d].att
    BY DEF IInv, OneOwner
  <2>2. \A i \in Intents : bound'[i] = bound[i] \/ bound[i] = NoAttempt
    <3>1. CASE bound' = bound BY <3>1
    <3>2. CASE bound' # bound BY <1>2, <3>2 DEF IInv, TypeOK, RowStep
    <3> QED BY <3>1, <3>2
  <2>3. pc[d] \in Owners => loc[d].att \in Attempts /\ loc[d].intent \in Intents
    BY DEF IInv, CallOK, CallAt, Owners, BeforeBarrier, AfterBarrier
  <2>4. pc[d] \in AfterBarrier =>
          /\ bound'[loc[d].intent] = loc[d].att
          /\ chain'[loc[d].att].tail \in {"Sending", "Unknown"}
    BY <1>2, <2>1, <2>2, <2>3 DEF IInv, CallOK, CallAt, RowStep, Owners, AfterBarrier
  <2>5. pc[d] \in BeforeBarrier =>
          /\ chain'[loc[d].att].tail \in {"Prepared", "Blocked"}
          /\ chain[loc[d].att].tail = "Blocked" => chain'[loc[d].att].tail = "Blocked"
    BY <1>2, <2>1, <2>3 DEF IInv, CallOK, CallAt, RowStep, Owners
  <2>6. pc[d] \in Owners => chain'[loc[d].att].intent = loc[d].intent
    BY <1>2, <2>3 DEF IInv, CallOK, CallAt, RowStep, Owners
  <2>7. /\ pc[d] \in {"recover", "fence"} => chain'[loc[d].rec].tail # "None"
        /\ pc[d] = "resolve" => chain'[loc[d].rec].tail \in {"Sending", "Sent", "Unknown"}
        /\ pc[d] = "report" => chain'[loc[d].rec].tail \in {"Blocked", "Unknown"}
    BY <1>2 DEF IInv, CallOK, CallAt, RowStep
  <2>8. pc[d] \in {"blocked", "guardfailed"} => pc[d] \in BeforeBarrier
    BY DEF BeforeBarrier
  <2> QED BY <1>0, <1>w, <2>4, <2>5, <2>6, <2>7, <2>8 DEF IInv, CallOK, CallAt
<1> QED BY <1>1, <1>2 DEF JournalStep

\* Outcomes already reported stay true.
LEMMA OutcomeStable ==
  ASSUME IInv, NEW c \in Calls, JournalStep(c), NEW o, OutcomeOK(o)
  PROVE  OutcomeOK(o)'
<1> USE ConstantsAssumption
<1>1. CASE chain' = chain /\ bound' = bound
  BY <1>1 DEF OutcomeOK
<1>2. ASSUME NEW a \in Attempts,
             \A b \in Attempts \ {a} : chain'[b] = chain[b],
             RowStep(c, a)
      PROVE  OutcomeOK(o)'
  <2>1. o.status = "SENT" => chain'[o.att].tail = "Sent"
    BY <1>2 DEF OutcomeOK, RowStep
  <2>2. ASSUME o.status = "BLOCKED"
        PROVE  /\ chain'[o.att].tail \in {"Blocked", "Unknown"}
               /\ bound'[chain'[o.att].intent] # o.att
    <3>1. /\ chain'[o.att].tail \in {"Blocked", "Unknown"}
          /\ chain'[o.att].intent = chain[o.att].intent
          /\ chain[o.att].intent \in Intents
          /\ o.att \in Attempts
      BY <1>2, <2>2 DEF IInv, JournalOK, RowOK, OutcomeOK, RowStep
    <3>2. JournalOK' BY JournalStepOK
    <3>3. CASE bound' = bound BY <2>2, <3>1, <3>3 DEF OutcomeOK
    <3>4. CASE bound' # bound
      <4>1. /\ chain[a].tail = "Prepared"
            /\ bound' = [bound EXCEPT ![chain[a].intent] = a]
        BY <1>2, <3>4 DEF RowStep
      <4>2. o.att # a BY <2>2, <4>1 DEF OutcomeOK
      <4> QED BY <2>2, <3>1, <4>1, <4>2 DEF IInv, TypeOK, OutcomeOK
    <3> QED BY <3>1, <3>3, <3>4
  <2> QED BY <2>1, <2>2 DEF OutcomeOK
<1> QED BY <1>1, <1>2 DEF JournalStep

\* At most one request per attempt, none without a binding.
LEMMA WireStepOK ==
  ASSUME IInv, NEW c \in Calls, JournalStep(c), Honest, WireStep(c)
  PROVE  WireOK'
<1> USE ConstantsAssumption
<1> SUFFICES ASSUME NEW b \in Attempts
             PROVE  /\ wires'[b] \in {0, 1}
                    /\ wires'[b] = 1 => /\ chain'[b].tail # "None"
                                        /\ bound'[chain'[b].intent] = b
                    /\ chain'[b].tail = "Sent" => wires'[b] = 1
  BY DEF WireOK
<1>0. WireOK BY DEF IInv
<1>1. CASE wires' = wires /\ chain' = chain /\ bound' = bound
  BY <1>0, <1>1 DEF WireOK
<1>2. CASE wires' # wires
  <2>1. /\ pc[c] = "barrier" /\ chain' = chain /\ bound' = bound
        /\ wires' = [wires EXCEPT ![loc[c].att] = @ + 1]
    BY <1>2 DEF WireStep
  <2>2. /\ loc[c].att \in Attempts /\ wires[loc[c].att] = 0
        /\ chain[loc[c].att].tail \in {"Sending", "Unknown"}
        /\ bound[chain[loc[c].att].intent] = loc[c].att
    BY <2>1 DEF IInv, CallOK, CallAt, AfterBarrier, Owners
  <2>3. /\ wires'[loc[c].att] = 1
        /\ b # loc[c].att => wires'[b] = wires[b]
    BY <2>1, <2>2 DEF IInv, TypeOK
  <2> QED BY <1>0, <2>1, <2>2, <2>3 DEF WireOK
<1>3. ASSUME wires' = wires, NEW a \in Attempts,
             \A e \in Attempts \ {a} : chain'[e] = chain[e],
             RowStep(c, a)
      PROVE  /\ wires'[b] \in {0, 1}
             /\ wires'[b] = 1 => /\ chain'[b].tail # "None"
                                 /\ bound'[chain'[b].intent] = b
             /\ chain'[b].tail = "Sent" => wires'[b] = 1
  <2>1. chain'[b].tail = "Sent" => wires'[b] = 1
    <3>1. pc[c] = "terminal" => wires[loc[c].att] = 1
      BY DEF IInv, CallOK, CallAt
    <3> QED BY <1>0, <1>3, <3>1 DEF WireOK, RowStep
  <2>2. wires[b] = 1 => /\ chain'[b].tail # "None"
                        /\ chain'[b].intent = chain[b].intent
                        /\ chain[b].intent \in Intents
    BY <1>0, <1>3 DEF WireOK, RowStep, IInv, JournalOK, RowOK
  <2>3. \A i \in Intents : bound'[i] = bound[i] \/ bound[i] = NoAttempt
    <3>1. CASE bound' = bound BY <3>1
    <3>2. CASE bound' # bound BY <1>3, <3>2 DEF IInv, TypeOK, RowStep
    <3> QED BY <3>1, <3>2
  <2> QED BY <1>0, <1>3, <2>1, <2>2, <2>3 DEF WireOK
<1> QED BY <1>1, <1>2, <1>3 DEF JournalStep

\* What every step of a call is shown to do.
Preserved(c) == IInv' /\ JournalStep(c) /\ (Honest => WireStep(c))

\* What is left to show of a step of call c once its journal effect is known.
LEMMA StepOK ==
  ASSUME IInv, NEW c \in Calls, TypeOK', JournalStep(c), OthersIdle(c),
         OwnerStep(c), CallOK(c)', OutcomeStep, Honest => WireStep(c)
  PROVE  Preserved(c)
<1>1. JournalOK' BY JournalStepOK
<1>2. \A d \in Calls : CallOK(d)' BY OthersOK
<1>3. OneOwner'
  <2> SUFFICES ASSUME NEW d \in Calls, NEW e \in Calls,
                      pc'[d] \in Owners, pc'[e] \in Owners,
                      loc'[d].att = loc'[e].att
               PROVE  d = e
    BY DEF OneOwner
  <2>1. \A f \in Calls : pc[f] \in Owners => chain[loc[f].att].tail # "None"
    BY DEF IInv, CallOK, CallAt, Owners
  <2> QED BY <2>1 DEF IInv, OneOwner, OthersIdle, OwnerStep
<1>4. \A d \in Calls : OutcomeOK(out[d])'
  <2> SUFFICES ASSUME NEW d \in Calls, out'[d] = out[d] PROVE OutcomeOK(out[d])'
    BY DEF OutcomeStep
  <2> PICK o : o = out[d] OBVIOUS
  <2>1. OutcomeOK(o) BY DEF IInv
  <2>2. OutcomeOK(o)' BY <2>1, OutcomeStable
  <2> QED BY <2>2 DEF OutcomeOK
<1>5. Honest => WireOK' BY WireStepOK
<1> QED BY <1>1, <1>2, <1>3, <1>4, <1>5 DEF IInv, Preserved

-----------------------------------------------------------------------------
\* Facts about the building blocks of the actions.

\* Continuing at another label changes nothing but the call's own label and locals.
LEMMA EnterFacts ==
  ASSUME TypeOK, NEW c \in Calls, NEW l \in Locations, NEW x \in Locals,
         Enter(c, l, x)
  PROVE  /\ pc' \in [Calls -> Locations] /\ pc'[c] = l
         /\ loc' \in [Calls -> Locals] /\ loc'[c] = x
         /\ out' \in [Calls -> Outcomes] /\ out' = out
         /\ OthersIdle(c)
BY DEF TypeOK, Enter, OthersIdle

\* The same, with the locals as they were.
LEMMA GotoFacts ==
  ASSUME TypeOK, NEW c \in Calls, NEW l \in Locations, Goto(c, l)
  PROVE  /\ pc' \in [Calls -> Locations] /\ pc'[c] = l
         /\ loc' \in [Calls -> Locals] /\ loc'[c] = loc[c]
         /\ out' \in [Calls -> Outcomes] /\ out' = out
         /\ OthersIdle(c)
BY EnterFacts DEF TypeOK, Goto

\* A call that returns is idle, owns nothing and has published its outcome.
LEMMA ReturnFacts ==
  ASSUME TypeOK, NEW c \in Calls, NEW s \in Statuses, Return(c, s)
  PROVE  /\ pc' \in [Calls -> Locations] /\ pc'[c] = "idle"
         /\ loc' \in [Calls -> Locals]
         /\ out' \in [Calls -> Outcomes]
         /\ out'[c] = [status |-> s, att |-> loc[c].rec]
         /\ \A d \in Calls \ {c} : out'[d] = out[d]
         /\ OthersIdle(c)
         /\ CallOK(c)' /\ OwnerStep(c)
<1>1. NoLocals \in Locals
  BY ConstantsAssumption DEF NoLocals, Locals, Times
<1>2. /\ pc' \in [Calls -> Locations] /\ pc'[c] = "idle"
      /\ loc' \in [Calls -> Locals] /\ OthersIdle(c)
  BY <1>1 DEF TypeOK, Return, OthersIdle, Locations
<1>3. [status |-> s, att |-> loc[c].rec] \in Outcomes
  BY DEF TypeOK, Locals, Outcomes
<1>4. /\ out' \in [Calls -> Outcomes]
      /\ out'[c] = [status |-> s, att |-> loc[c].rec]
      /\ \A d \in Calls \ {c} : out'[d] = out[d]
  BY <1>3 DEF TypeOK, Return
<1>5. CallOK(c)' /\ OwnerStep(c)
  BY <1>2 DEF CallOK, CallAt, OwnerStep, Owners, BeforeBarrier, AfterBarrier
<1> QED BY <1>2, <1>4, <1>5

\* An appended event is the row's next version, with the row's intent.
LEMMA ExtendFacts ==
  ASSUME NEW row \in Rows, NEW type \in Tails, NEW t \in Times
  PROVE  /\ Extend(row, type, t) \in Rows
         /\ Extend(row, type, t).tail = type
         /\ Extend(row, type, t).ver = row.ver + 1
         /\ Extend(row, type, t).intent = row.intent
         /\ Extend(row, type, t).lastAt = t
<1>1. row.ver + 1 \in Nat BY DEF Rows
<1>2. Extend(row, type, t) \in Rows BY <1>1 DEF Extend, Rows
<1> QED BY <1>2 DEF Extend, Rows

\* An append changes one row, and no binding.
LEMMA AppendFacts ==
  ASSUME TypeOK, NEW a \in Attempts, NEW type \in Tails, NEW t \in Times,
         Append(a, type, t)
  PROVE  /\ chain' \in [Attempts -> Rows]
         /\ chain'[a].tail = type /\ chain'[a].ver = chain[a].ver + 1
         /\ chain'[a].intent = chain[a].intent /\ chain'[a].lastAt = t
         /\ \A b \in Attempts \ {a} : chain'[b] = chain[b]
         /\ bound' = bound /\ seq' \in Nat
<1>1. chain[a] \in Rows BY DEF TypeOK
<1>2. /\ chain' = [chain EXCEPT ![a] = Extend(chain[a], type, t)]
      /\ bound' = bound /\ seq' = seq + 1
  BY DEF Append
<1> QED BY <1>1, <1>2, ExtendFacts DEF TypeOK

-----------------------------------------------------------------------------
\* The shapes of a step: with or without an append, going on or returning.

\* Continuing at l keeps or gives up ownership of the attempt.
KeepsOwner(c, l, x) == l \in Owners => pc[c] \in Owners /\ x.att = loc[c].att

\* The gate and the provider's count keep their types, and the count stands
\* unless the wrapper breaks its contract.
Frame ==
  /\ gate' \in Calls \cup {NoCall}
  /\ wires' \in [Attempts -> Nat]
  /\ Honest => wires' = wires

\* A step without an append that goes on to a label it may rely on.
LEMMA SilentMove ==
  ASSUME IInv, NEW c \in Calls, NEW l \in Locations, NEW x \in Locals,
         Enter(c, l, x), NoAppend, Frame, CallAt(l, x), KeepsOwner(c, l, x)
  PROVE  Preserved(c)
<1>1. TypeOK' /\ pc'[c] = l /\ loc'[c] = x /\ OthersIdle(c) /\ out' = out
  BY EnterFacts DEF IInv, TypeOK, NoAppend, jvars, Frame
<1>2. CallOK(c)'
  BY <1>1 DEF CallOK, CallAt, NoAppend, jvars, Frame
<1>3. OwnerStep(c)
  BY <1>1 DEF OwnerStep, KeepsOwner
<1>4. JournalStep(c)
  BY DEF JournalStep, NoAppend, jvars
<1>5. OutcomeStep /\ (Honest => WireStep(c))
  BY <1>1 DEF OutcomeStep, WireStep, Frame
<1> QED BY <1>1, <1>2, <1>3, <1>4, <1>5, StepOK

\* A return without an append whose outcome is true.
LEMMA SilentReturn ==
  ASSUME IInv, NEW c \in Calls, NEW s \in Statuses, Return(c, s), NoAppend,
         Frame, OutcomeOK([status |-> s, att |-> loc[c].rec])
  PROVE  Preserved(c)
<1>1. TypeOK' /\ OthersIdle(c) /\ CallOK(c)' /\ OwnerStep(c)
  BY ReturnFacts DEF IInv, TypeOK, NoAppend, jvars, Frame
<1>2. JournalStep(c) /\ (Honest => WireStep(c))
  BY DEF JournalStep, NoAppend, jvars, WireStep, Frame
<1>3. /\ out'[c] = [status |-> s, att |-> loc[c].rec]
      /\ \A d \in Calls \ {c} : out'[d] = out[d]
  BY ReturnFacts DEF IInv
<1>4. OutcomeOK(out[c])'
  BY <1>3 DEF OutcomeOK, NoAppend, jvars
<1>5. OutcomeStep BY <1>3, <1>4 DEF OutcomeStep
<1> QED BY <1>1, <1>2, <1>5, StepOK

\* A return without an append that promises nothing.
LEMMA PlainReturn ==
  ASSUME IInv, NEW c \in Calls, NEW s \in {"ERROR", "UNKNOWN", "IN_PROGRESS"},
         Return(c, s), NoAppend, Frame
  PROVE  Preserved(c)
<1>1. OutcomeOK([status |-> s, att |-> loc[c].rec]) BY DEF OutcomeOK
<1>2. s \in Statuses BY DEF Statuses
<1> QED BY <1>1, <1>2, SilentReturn

\* A return that reports the terminal event it has read.
LEMMA TerminalReturn ==
  ASSUME IInv, NEW c \in Calls, loc[c].rec \in Attempts,
         chain[loc[c].rec].tail \in Terminal,
         Return(c, OutcomeFromTerminal(chain[loc[c].rec].tail)), NoAppend, Frame
  PROVE  Preserved(c)
<1> DEFINE tail == chain[loc[c].rec].tail
           s == OutcomeFromTerminal(tail)
<1>1. /\ tail \in {"Sent", "Blocked", "Unknown"}
      /\ tail = "Sent" => s = "SENT"
      /\ tail = "Blocked" => s = "BLOCKED"
      /\ tail = "Unknown" => s = "UNKNOWN"
  BY DEF Terminal, OutcomeFromTerminal
<1>2. tail = "Blocked" => bound[chain[loc[c].rec].intent] # loc[c].rec
  BY ConstantsAssumption DEF IInv, JournalOK, RowOK
<1>3. OutcomeOK([status |-> s, att |-> loc[c].rec])
  BY <1>1, <1>2 DEF OutcomeOK
<1>4. s \in Statuses BY <1>1 DEF Statuses
<1> HIDE DEF s
<1> QED BY <1>3, <1>4, SilentReturn DEF s

\* The rows call c may append to attempt a.
Appendable(c, a, type) ==
  \/ chain[a].tail = "Prepared" /\ type = "Blocked"
  \/ chain[a].tail = "Sending" /\ type = "Unknown"
  \/ /\ pc[c] = "terminal" /\ loc[c].att = a
     /\ chain[a].tail = "Sending" /\ type = "Sent"
  \/ /\ pc[c] \in BeforeBarrier /\ loc[c].att = a
     /\ chain[a].tail \in {"Prepared", "Blocked"} /\ type = "Unknown"

\* An append over an appendable tail has one of the shapes of RowStep.
LEMMA AppendJournalStep ==
  ASSUME IInv, NEW c \in Calls, NEW a \in Attempts, NEW type \in Tails,
         NEW t \in Times, Append(a, type, t), Appendable(c, a, type)
  PROVE  JournalStep(c)
<1>1. /\ chain'[a].tail = type /\ chain'[a].ver = chain[a].ver + 1
      /\ chain'[a].intent = chain[a].intent
      /\ \A b \in Attempts \ {a} : chain'[b] = chain[b]
      /\ bound' = bound
  BY AppendFacts DEF IInv
<1>2. RowOK(chain[a]) BY DEF IInv, JournalOK
<1>3. RowStep(c, a)
  BY <1>1, <1>2 DEF RowStep, RowOK, Appendable
<1> QED BY <1>1, <1>3 DEF JournalStep

\* An append that ends the call and is what the call reports.
LEMMA AppendReturn ==
  ASSUME IInv, NEW c \in Calls, NEW a \in Attempts, NEW type \in Terminal,
         NEW t \in Times, Append(a, type, t), Appendable(c, a, type),
         a = loc[c].rec, Return(c, OutcomeFromTerminal(type)), Frame
  PROVE  Preserved(c)
<1>0. type \in Tails BY DEF Tails
<1> DEFINE s == OutcomeFromTerminal(type)
<1>1. /\ type \in {"Sent", "Blocked", "Unknown"} /\ s \in Statuses
      /\ s = "SENT" => type = "Sent"
      /\ s = "BLOCKED" => type = "Blocked"
  BY DEF Terminal, OutcomeFromTerminal, Statuses
<1>2. Return(c, s) OBVIOUS
<1> HIDE DEF s
<1>3. /\ TypeOK' /\ OthersIdle(c) /\ CallOK(c)' /\ OwnerStep(c)
      /\ out'[c] = [status |-> s, att |-> loc[c].rec]
      /\ \A d \in Calls \ {c} : out'[d] = out[d]
  BY <1>0, <1>1, <1>2, ReturnFacts, AppendFacts DEF IInv, TypeOK, Frame
<1>4. JournalStep(c) /\ (Honest => WireStep(c))
  BY <1>0, AppendJournalStep DEF WireStep, Frame
<1>5. OutcomeOK(out[c])'
  <2>1. chain'[a].tail = type /\ chain'[a].intent = chain[a].intent
    BY <1>0, AppendFacts DEF IInv
  <2>2. JournalOK' BY <1>4, JournalStepOK
  <2>3. type = "Blocked" => bound'[chain'[a].intent] # a
    BY <2>1, <2>2, ConstantsAssumption DEF JournalOK, RowOK
  <2> QED BY <1>1, <1>3, <2>1, <2>3 DEF OutcomeOK
<1>6. OutcomeStep BY <1>3, <1>5 DEF OutcomeStep
<1> QED BY <1>3, <1>4, <1>6, StepOK

\* The appends that do not end the call are fences: Blocked over Prepared.
LEMMA FenceMove ==
  ASSUME IInv, NEW c \in Calls, NEW a \in Attempts, NEW t \in Times,
         Append(a, "Blocked", t), chain[a].tail = "Prepared",
         NEW l \in Locations, Goto(c, l), Frame,
         \/ l = "blocked" /\ pc[c] \in BeforeBarrier /\ a = loc[c].att
         \/ l = "report" /\ pc[c] = "fence" /\ a = loc[c].rec
  PROVE  Preserved(c)
<1>1. /\ TypeOK' /\ pc'[c] = l /\ loc'[c] = loc[c] /\ OthersIdle(c)
      /\ chain'[a].tail = "Blocked" /\ chain'[a].intent = chain[a].intent
      /\ out' = out
  BY GotoFacts, AppendFacts DEF IInv, TypeOK, Tails, Terminal, Frame
<1>2. CallOK(c)' /\ OwnerStep(c)
  BY <1>1 DEF IInv, CallOK, CallAt, OwnerStep, Owners, BeforeBarrier, AfterBarrier
<1>3. JournalStep(c) BY AppendJournalStep DEF Appendable, Tails, Terminal
<1>4. OutcomeStep /\ (Honest => WireStep(c))
  BY <1>1 DEF OutcomeStep, WireStep, Frame
<1> QED BY <1>1, <1>2, <1>3, <1>4, StepOK

-----------------------------------------------------------------------------
\* The steps of dispatch() before it owns an attempt.

\* dispatch() starts with its arguments and nothing else.
LEMMA BeginOK ==
  ASSUME IInv, NEW c \in Calls, BeginAny(c)
  PROVE  Preserved(c)
<1> PICK a \in Attempts, i \in Intents, t \in Times : Begin(c, a, i, t)
  BY DEF BeginAny
<1> DEFINE x == [att |-> a, intent |-> i, now |-> t, bnow |-> t,
                 cut |-> 0, rec |-> a]
<1>1. x \in Locals BY DEF Locals
<1>2. NoOutcome \in Outcomes BY DEF NoOutcome, Outcomes, Statuses
<1>3. TypeOK' /\ pc'[c] = "lookup" /\ loc'[c] = x /\ OthersIdle(c)
  BY <1>1, <1>2 DEF IInv, TypeOK, Begin, OthersIdle, jvars, Locations
<1>4. CallOK(c)' /\ OwnerStep(c)
  BY <1>3 DEF CallOK, CallAt, OwnerStep, Owners, BeforeBarrier, AfterBarrier
<1>5. JournalStep(c) /\ WireStep(c)
  BY DEF Begin, jvars, JournalStep, WireStep
<1>6. OutcomeStep
  <2>1. \A d \in Calls : out'[d] = IF d = c THEN NoOutcome ELSE out[d]
    BY DEF IInv, TypeOK, Begin
  <2>2. OutcomeOK(NoOutcome)' BY DEF OutcomeOK, NoOutcome
  <2> QED BY <2>1, <2>2 DEF OutcomeStep, OutcomeOK
<1> QED BY <1>3, <1>4, <1>5, <1>6, StepOK

\* The first read of the attempt's events preserves the invariant.
LEMMA LookupOK ==
  ASSUME IInv, NEW c \in Calls, Lookup(c)
  PROVE  Preserved(c)
<1>1. /\ pc[c] = "lookup" /\ CallAt("lookup", loc[c]) /\ loc[c] \in Locals
      /\ NoAppend /\ Frame
  BY DEF IInv, TypeOK, CallOK, Lookup, NoAppend, jvars, Frame
<1>2. CASE Goto(c, "intent")
  BY <1>1, <1>2, SilentMove
     DEF Goto, CallAt, KeepsOwner, Locations, Owners, BeforeBarrier, AfterBarrier
<1>3. CASE Goto(c, "recover") /\ chain[loc[c].att].tail # "None"
  BY <1>1, <1>3, SilentMove
     DEF Goto, CallAt, KeepsOwner, Locations, Owners, BeforeBarrier, AfterBarrier
<1>4. CASE Return(c, "ERROR")
  BY <1>1, <1>4, PlainReturn
<1> QED BY <1>2, <1>3, <1>4 DEF Lookup

\* The read of the intent's binding preserves the invariant.
LEMMA ReadIntentOK ==
  ASSUME IInv, NEW c \in Calls, ReadIntent(c)
  PROVE  Preserved(c)
<1>1. /\ pc[c] = "intent" /\ CallAt("intent", loc[c]) /\ loc[c] \in Locals
      /\ NoAppend /\ Frame
  BY DEF IInv, TypeOK, CallOK, ReadIntent, NoAppend, jvars, Frame
<1>2. CASE Goto(c, "scan")
  BY <1>1, <1>2, SilentMove
     DEF Goto, CallAt, KeepsOwner, Locations, Owners, BeforeBarrier, AfterBarrier
<1>3. CASE /\ bound[loc[c].intent] # NoAttempt
           /\ Enter(c, "canonical", [loc[c] EXCEPT !.rec = bound[loc[c].intent]])
  <2> DEFINE x == [loc[c] EXCEPT !.rec = bound[loc[c].intent]]
  <2>1. bound[loc[c].intent] \in Attempts
    BY <1>1, <1>3 DEF IInv, TypeOK, CallAt
  <2>2. x \in Locals BY <1>1, <2>1 DEF Locals
  <2>3. x.att = loc[c].att /\ x.intent = loc[c].intent /\ x.rec \in Attempts
    BY <1>1, <2>1 DEF Locals
  <2>4. CallAt("canonical", x) /\ KeepsOwner(c, "canonical", x)
    BY <1>1, <2>3 DEF CallAt, KeepsOwner, Owners, BeforeBarrier, AfterBarrier
  <2>5. Enter(c, "canonical", x) /\ "canonical" \in Locations
    BY <1>3 DEF Locations
  <2> HIDE DEF x
  <2> QED BY <1>1, <2>2, <2>4, <2>5, SilentMove
<1> QED BY <1>2, <1>3 DEF ReadIntent

\* The report of the intent's canonical attempt preserves the invariant.
LEMMA ReadCanonicalOK ==
  ASSUME IInv, NEW c \in Calls, ReadCanonical(c)
  PROVE  Preserved(c)
<1>1. NoAppend /\ Frame /\ loc[c].rec \in Attempts
  BY DEF IInv, TypeOK, CallOK, CallAt, ReadCanonical, NoAppend, jvars, Frame
<1>2. CASE /\ chain[loc[c].rec].tail \in Terminal
           /\ Return(c, OutcomeFromTerminal(chain[loc[c].rec].tail))
  BY <1>1, <1>2, TerminalReturn
<1>3. CASE Return(c, "UNKNOWN") \/ Return(c, "ERROR")
  BY <1>1, <1>3, PlainReturn
<1> QED BY <1>2, <1>3 DEF ReadCanonical, Terminal

\* The scan for an unbound attempt of the intent preserves the invariant.
LEMMA LegacyScanOK ==
  ASSUME IInv, NEW c \in Calls, LegacyScan(c)
  PROVE  Preserved(c)
<1>1. /\ pc[c] = "scan" /\ CallAt("scan", loc[c]) /\ loc[c] \in Locals
      /\ NoAppend /\ Frame
  BY DEF IInv, TypeOK, CallOK, LegacyScan, NoAppend, jvars, Frame
<1>2. CASE Goto(c, "prepare")
  BY <1>1, <1>2, SilentMove
     DEF Goto, CallAt, KeepsOwner, Locations, Owners, BeforeBarrier, AfterBarrier
<1>3. CASE Return(c, "ERROR")
  BY <1>1, <1>3, PlainReturn
<1>4. ASSUME NEW a \in Attempts, chain[a].tail # "None",
             Enter(c, "recover", [loc[c] EXCEPT !.rec = a])
      PROVE  Preserved(c)
  <2> DEFINE x == [loc[c] EXCEPT !.rec = a]
  <2>1. x \in Locals BY <1>1 DEF Locals
  <2>2. x.att = loc[c].att /\ x.intent = loc[c].intent /\ x.rec = a
    BY <1>1 DEF Locals
  <2>3. CallAt("recover", x) /\ KeepsOwner(c, "recover", x)
    BY <1>1, <1>4, <2>2 DEF CallAt, KeepsOwner, Owners, BeforeBarrier, AfterBarrier
  <2>4. Enter(c, "recover", x) /\ "recover" \in Locations
    BY <1>4 DEF Locations
  <2> HIDE DEF x
  <2> QED BY <1>1, <2>1, <2>3, <2>4, SilentMove
<1> QED BY <1>2, <1>3, <1>4 DEF LegacyScan, Candidates

\* Only the call whose Prepared was inserted becomes the owner.
LEMMA AppendPreparedOK ==
  ASSUME IInv, NEW c \in Calls, AppendPrepared(c)
  PROVE  Preserved(c)
<1> DEFINE a == loc[c].att
<1>1. /\ pc[c] = "prepare" /\ CallAt("prepare", loc[c]) /\ loc[c] \in Locals
      /\ a \in Attempts /\ loc[c].intent \in Intents /\ loc[c].rec = a
      /\ loc[c].now \in Times /\ RowOK(chain[a]) /\ chain[a].ver \in Nat
      /\ Frame
  BY DEF IInv, TypeOK, CallOK, CallAt, JournalOK, AppendPrepared, Locals, Rows, Frame
<1>2. CASE Fits(a, 1) /\ Goto(c, "authority")
  <2> DEFINE row == [tail |-> "Prepared", ver |-> 1, intent |-> loc[c].intent,
                     prepAt |-> loc[c].now, lastAt |-> loc[c].now]
  <2>0. chain[a].ver = 0 /\ chain[a].tail = "None"
    BY <1>1, <1>2 DEF Fits, RowOK
  <2>1. chain' = [chain EXCEPT ![a] = row] /\ bound' = bound /\ seq' = seq + 1
    BY <1>2 DEF AppendPrepared
  <2>2. row \in Rows BY <1>1 DEF Rows, Tails
  <2>3. /\ TypeOK' /\ OthersIdle(c) /\ pc'[c] = "authority" /\ loc'[c] = loc[c]
        /\ chain'[a] = row /\ out' = out
        /\ \A b \in Attempts \ {a} : chain'[b] = chain[b]
    <3>1. "authority" \in Locations BY DEF Locations, BeforeBarrier
    <3>2. /\ pc' \in [Calls -> Locations] /\ pc'[c] = "authority"
          /\ loc' \in [Calls -> Locals] /\ loc'[c] = loc[c]
          /\ out' \in [Calls -> Outcomes] /\ OthersIdle(c) /\ out' = out
      BY <1>2, <3>1, GotoFacts DEF IInv
    <3> QED BY <1>1, <2>1, <2>2, <3>2 DEF IInv, TypeOK, Frame
  <2>4. CallOK(c)'
    BY <1>1, <2>3 DEF CallOK, CallAt, Owners, BeforeBarrier, AfterBarrier
  <2>5. OwnerStep(c)
    BY <2>0, <2>3 DEF OwnerStep
  <2>6. RowStep(c, a)
    BY <1>1, <2>0, <2>1, <2>3 DEF RowStep
  <2>7. JournalStep(c)
    BY <1>1, <2>3, <2>6 DEF JournalStep
  <2>8. OutcomeStep /\ (Honest => WireStep(c))
    BY <1>1, <2>3 DEF OutcomeStep, WireStep, Frame
  <2> QED BY <2>3, <2>4, <2>5, <2>7, <2>8, StepOK
<1>3. CASE NoAppend /\ Return(c, "ERROR")
  BY <1>1, <1>3, PlainReturn
<1>4. CASE ~Fits(a, 1) /\ NoAppend /\ Goto(c, "recover")
  <2>1. chain[a].tail # "None"
    BY <1>1, <1>4 DEF Fits, RowOK
  <2> QED
    BY <1>1, <1>4, <2>1, SilentMove
       DEF Goto, CallAt, KeepsOwner, Locations, Owners, BeforeBarrier, AfterBarrier
<1> QED BY <1>2, <1>3, <1>4 DEF AppendPrepared

-----------------------------------------------------------------------------
\* The steps of the owner up to the send barrier.

\* What the owner of an attempt may rely on at every step.
LEMMA OwnerFacts ==
  ASSUME IInv, NEW c \in Calls, pc[c] \in Owners
  PROVE  /\ loc[c] \in Locals /\ loc[c].att \in Attempts
         /\ loc[c].intent \in Intents /\ loc[c].rec = loc[c].att
         /\ loc[c].now \in Times /\ loc[c].bnow \in Times
         /\ chain[loc[c].att].intent = loc[c].intent
         /\ RowOK(chain[loc[c].att]) /\ chain[loc[c].att].ver \in Nat
BY DEF IInv, TypeOK, CallOK, CallAt, JournalOK, Locals, Rows, Owners,
       BeforeBarrier, AfterBarrier

\* AppendOrRaise with a version that only an appendable tail fits.
LEMMA AppendOrRaiseOK ==
  ASSUME IInv, NEW c \in Calls, pc[c] \in Owners,
         NEW type \in Terminal, NEW v \in Nat, NEW t \in Times,
         AppendOrRaise(c, type, v, t),
         Fits(loc[c].att, v) => Appendable(c, loc[c].att, type), Frame
  PROVE  Preserved(c)
<1>1. loc[c].att \in Attempts /\ loc[c].att = loc[c].rec BY OwnerFacts
<1>2. CASE /\ Append(loc[c].att, type, t) /\ Return(c, OutcomeFromTerminal(type))
           /\ Appendable(c, loc[c].att, type)
  BY <1>1, <1>2, AppendReturn
<1>3. CASE NoAppend /\ Return(c, "ERROR")
  BY <1>3, PlainReturn
<1> QED BY <1>2, <1>3 DEF AppendOrRaise

\* Version 2 before the barrier: the tail is Prepared.
LEMMA SecondRow ==
  ASSUME IInv, NEW c \in Calls, pc[c] \in BeforeBarrier
  PROVE  IF Fits(loc[c].att, 2) THEN chain[loc[c].att].tail = "Prepared"
         ELSE chain[loc[c].att].tail = "Blocked"
<1>1. RowOK(chain[loc[c].att]) /\ chain[loc[c].att].ver \in Nat
  BY OwnerFacts DEF Owners
<1>2. chain[loc[c].att].tail \in {"Prepared", "Blocked"}
  BY DEF IInv, CallOK, CallAt
<1> QED BY <1>1, <1>2 DEF RowOK, Fits

\* A rejection by the guard fences the attempt or finds it fenced.
LEMMA RejectGuardOK ==
  ASSUME IInv, NEW c \in Calls, pc[c] \in BeforeBarrier, NEW t \in Times,
         RejectGuard(c, t),
         Frame
  PROVE  Preserved(c)
<1>1. /\ loc[c] \in Locals /\ loc[c].att \in Attempts
      /\ loc[c].intent \in Intents /\ loc[c].rec = loc[c].att
      /\ chain[loc[c].att].intent = loc[c].intent
  BY OwnerFacts DEF Owners
<1>3. CASE Fits(loc[c].att, 2) /\ Append(loc[c].att, "Blocked", t) /\ Goto(c, "blocked")
  <2>1. chain[loc[c].att].tail = "Prepared" BY <1>3, SecondRow
  <2>2. "blocked" \in Locations BY DEF Locations, BeforeBarrier
  <2> QED BY <1>1, <1>3, <2>1, <2>2, FenceMove
<1>4. CASE ~Fits(loc[c].att, 2) /\ NoAppend /\ Goto(c, "guardfailed")
  <2>1. chain[loc[c].att].tail = "Blocked" BY <1>4, SecondRow
  <2> QED
    BY <1>1, <1>4, <2>1, SilentMove
       DEF Goto, CallAt, KeepsOwner, Locations, Owners, BeforeBarrier, AfterBarrier
<1> QED BY <1>3, <1>4 DEF RejectGuard

\* The owner goes on to another step before the barrier.
LEMMA OwnerMove ==
  ASSUME IInv, NEW c \in Calls, pc[c] \in BeforeBarrier,
         NEW l \in BeforeBarrier \ {"blocked", "guardfailed"}, NEW x \in Locals,
         x.att = loc[c].att, x.intent = loc[c].intent, x.rec = loc[c].rec,
         Enter(c, l, x), NoAppend,
         Frame
  PROVE  Preserved(c)
<1>1. CallAt(l, x)
  BY OwnerFacts DEF IInv, CallOK, CallAt, Owners, BeforeBarrier, AfterBarrier
<1>2. KeepsOwner(c, l, x) BY DEF KeepsOwner, Owners
<1>3. l \in Locations BY DEF Locations
<1> QED BY <1>1, <1>2, <1>3, SilentMove

\* The same, with the locals as they were.
LEMMA OwnerGoto ==
  ASSUME IInv, NEW c \in Calls, pc[c] \in BeforeBarrier,
         NEW l \in BeforeBarrier \ {"blocked", "guardfailed"},
         Goto(c, l), NoAppend,
         Frame
  PROVE  Preserved(c)
<1>1. loc[c] \in Locals BY DEF IInv, TypeOK
<1> QED BY <1>1, OwnerMove DEF Goto

\* The first authority check preserves the invariant.
LEMMA CheckAuthorityOK ==
  ASSUME IInv, NEW c \in Calls, CheckAuthority(c)
  PROVE  Preserved(c)
<1>1. pc[c] = "authority" /\ pc[c] \in BeforeBarrier /\ pc[c] \in Owners /\ Frame
  BY DEF CheckAuthority, BeforeBarrier, Owners, IInv, TypeOK, Frame
<1>2. CASE Goto(c, "transport") /\ NoAppend
  BY <1>1, <1>2, OwnerGoto DEF BeforeBarrier
<1>3. CASE AppendOrRaise(c, "Blocked", 2, loc[c].now)
  <2>1. Fits(loc[c].att, 2) => Appendable(c, loc[c].att, "Blocked")
    BY <1>1, SecondRow DEF Appendable
  <2>2. loc[c].now \in Times BY <1>1, OwnerFacts
  <2> QED BY <1>1, <1>3, <2>1, <2>2, AppendOrRaiseOK DEF Terminal
<1> QED BY <1>2, <1>3 DEF CheckAuthority

\* The wrapper before the guard, honest or not, preserves the invariant.
LEMMA TransportOK ==
  ASSUME IInv, NEW c \in Calls,
         CallGuard(c) \/ RaiseBeforeGuard(c) \/ ReturnWithoutGuard(c)
  PROVE  Preserved(c)
<1>1. /\ pc[c] = "transport" /\ pc[c] \in BeforeBarrier /\ pc[c] \in Owners
      /\ gate' \in Calls \cup {NoCall} /\ loc[c].att \in Attempts
      /\ loc[c].now \in Times
  <2>1. pc[c] = "transport"
    BY DEF CallGuard, RaiseBeforeGuard, ReturnWithoutGuard
  <2>2. pc[c] \in BeforeBarrier /\ pc[c] \in Owners
    BY <2>1 DEF BeforeBarrier, Owners
  <2>3. gate' = gate
    BY DEF CallGuard, RaiseBeforeGuard, ReturnWithoutGuard
  <2> QED BY <2>1, <2>2, <2>3, OwnerFacts DEF IInv, TypeOK
<1>2. CASE CallGuard(c)
  <2>1. Frame BY <1>1, <1>2 DEF CallGuard, IInv, TypeOK, Frame
  <2> QED BY <1>1, <1>2, <2>1, OwnerGoto DEF CallGuard, NoAppend, BeforeBarrier
<1>3. CASE RaiseBeforeGuard(c)
  <2>1. Fits(loc[c].att, 2) => Appendable(c, loc[c].att, "Blocked")
    BY <1>1, SecondRow DEF Appendable
  <2>2. Frame
    BY <1>1, <1>3 DEF RaiseBeforeGuard, MaybeRogueWire, RogueWire, IInv, TypeOK, Frame
  <2> QED BY <1>1, <1>3, <2>1, <2>2, AppendOrRaiseOK DEF RaiseBeforeGuard, Terminal
<1>4. CASE ReturnWithoutGuard(c)
  <2>1. Fits(loc[c].att, 2) => Appendable(c, loc[c].att, "Unknown")
    BY <1>1, SecondRow DEF Appendable
  <2>2. Frame
    BY <1>1, <1>4 DEF ReturnWithoutGuard, MaybeRogueWire, RogueWire, IInv, TypeOK, Frame
  <2> QED BY <1>1, <1>4, <2>1, <2>2, AppendOrRaiseOK DEF ReturnWithoutGuard, Terminal
<1> QED BY <1>2, <1>3, <1>4

\* The barrier clock preserves the invariant.
LEMMA ReadBarrierClockOK ==
  ASSUME IInv, NEW c \in Calls, ReadBarrierClock(c)
  PROVE  Preserved(c)
<1>1. /\ pc[c] = "clock" /\ pc[c] \in BeforeBarrier /\ pc[c] \in Owners
      /\ Frame
  BY DEF ReadBarrierClock, BeforeBarrier, Owners, IInv, TypeOK, Frame
<1>2. loc[c].now \in Times /\ loc[c] \in Locals BY <1>1, OwnerFacts
<1>3. CASE RejectGuard(c, loc[c].now) BY <1>1, <1>2, <1>3, RejectGuardOK
<1>4. ASSUME NEW t \in Times, NoAppend,
             Enter(c, IF Gated THEN "gate" ELSE "cut", [loc[c] EXCEPT !.bnow = t])
      PROVE  Preserved(c)
  <2> DEFINE x == [loc[c] EXCEPT !.bnow = t]
             l == IF Gated THEN "gate" ELSE "cut"
  <2>1. x \in Locals /\ x.att = loc[c].att /\ x.intent = loc[c].intent
        /\ x.rec = loc[c].rec
    BY <1>2 DEF Locals
  <2>2. l \in BeforeBarrier \ {"blocked", "guardfailed"} BY DEF BeforeBarrier
  <2>3. Enter(c, l, x) BY <1>4
  <2> HIDE DEF x, l
  <2> QED BY <1>1, <1>4, <2>1, <2>2, <2>3, OwnerMove
<1> QED BY <1>3, <1>4 DEF ReadBarrierClock

\* Taking the sender gate preserves the invariant.
LEMMA AcquireGateOK ==
  ASSUME IInv, NEW c \in Calls, AcquireGate(c)
  PROVE  Preserved(c)
<1>1. /\ pc[c] = "gate" /\ pc[c] \in BeforeBarrier /\ pc[c] \in Owners
      /\ Frame
  BY DEF AcquireGate, BeforeBarrier, Owners, IInv, TypeOK, Frame
<1>2. loc[c].bnow \in Times BY <1>1, OwnerFacts
<1>3. CASE RejectGuard(c, loc[c].bnow) BY <1>1, <1>2, <1>3, RejectGuardOK
<1>4. CASE Goto(c, "cut") /\ NoAppend
  BY <1>1, <1>4, OwnerGoto DEF BeforeBarrier
<1> QED BY <1>3, <1>4 DEF AcquireGate

\* Reading the journal cut preserves the invariant.
LEMMA TakeCutOK ==
  ASSUME IInv, NEW c \in Calls, TakeCut(c)
  PROVE  Preserved(c)
<1> DEFINE x == [loc[c] EXCEPT !.cut = seq]
<1>1. /\ pc[c] = "cut" /\ pc[c] \in BeforeBarrier /\ pc[c] \in Owners
      /\ Frame /\ NoAppend /\ seq \in Nat /\ loc[c] \in Locals
  BY DEF TakeCut, BeforeBarrier, Owners, IInv, TypeOK, NoAppend, Frame
<1>2. x \in Locals /\ x.att = loc[c].att /\ x.intent = loc[c].intent
      /\ x.rec = loc[c].rec
  BY <1>1 DEF Locals
<1>3. Enter(c, "check", x) BY DEF TakeCut
<1>4. "check" \in BeforeBarrier \ {"blocked", "guardfailed"} BY DEF BeforeBarrier
<1> HIDE DEF x
<1> QED BY <1>1, <1>2, <1>3, <1>4, OwnerMove

\* The sender check and the second authority check preserve the invariant.
LEMMA CheckSenderOK ==
  ASSUME IInv, NEW c \in Calls, CheckSender(c)
  PROVE  Preserved(c)
<1>1. /\ pc[c] = "check" /\ pc[c] \in BeforeBarrier /\ pc[c] \in Owners
      /\ Frame
  BY DEF CheckSender, BeforeBarrier, Owners, IInv, TypeOK, Frame
<1>2. loc[c].bnow \in Times BY <1>1, OwnerFacts
<1>3. CASE RejectGuard(c, loc[c].bnow) BY <1>1, <1>2, <1>3, RejectGuardOK
<1>4. CASE Goto(c, "reread") /\ NoAppend
  BY <1>1, <1>4, OwnerGoto DEF BeforeBarrier
<1> QED BY <1>3, <1>4 DEF CheckSender

\* The re-read of the attempt before the barrier preserves the invariant.
LEMMA RereadAttemptOK ==
  ASSUME IInv, NEW c \in Calls, RereadAttempt(c)
  PROVE  Preserved(c)
<1>1. /\ pc[c] = "reread" /\ pc[c] \in BeforeBarrier /\ pc[c] \in Owners /\ Frame
  BY DEF RereadAttempt, BeforeBarrier, Owners, IInv, TypeOK, Frame
<1>2. /\ loc[c] \in Locals /\ loc[c].att \in Attempts
      /\ loc[c].intent \in Intents /\ loc[c].rec = loc[c].att
      /\ loc[c].now \in Times /\ loc[c].bnow \in Times
      /\ chain[loc[c].att].intent = loc[c].intent
  BY <1>1, OwnerFacts
<1>3. CASE chain[loc[c].att].tail # "Prepared" /\ Goto(c, "blocked") /\ NoAppend
  <2>1. chain[loc[c].att].tail = "Blocked"
    BY <1>1, <1>3 DEF IInv, CallOK, CallAt
  <2>2. CallAt("blocked", loc[c]) /\ KeepsOwner(c, "blocked", loc[c])
    BY <1>1, <1>2, <2>1 DEF CallAt, KeepsOwner, Owners, BeforeBarrier, AfterBarrier
  <2> QED
    BY <1>1, <1>2, <1>3, <2>2, SilentMove DEF Goto, Locations, BeforeBarrier
<1>4. CASE Goto(c, "commit") /\ NoAppend
  BY <1>1, <1>4, OwnerGoto DEF BeforeBarrier
<1>5. ASSUME NEW t \in Times, chain[loc[c].att].tail = "Prepared",
             Append(loc[c].att, "Blocked", t), Goto(c, "blocked")
      PROVE  Preserved(c)
  <2>1. "blocked" \in Locations BY DEF Locations, BeforeBarrier
  <2> QED BY <1>1, <1>2, <1>5, <2>1, FenceMove
<1> QED BY <1>2, <1>3, <1>4, <1>5 DEF RereadAttempt

\* The send barrier: the one step that binds an intent.
LEMMA CommitSendingOK ==
  ASSUME IInv, NEW c \in Calls, CommitSending(c)
  PROVE  Preserved(c)
<1> USE ConstantsAssumption
<1> DEFINE a == loc[c].att
           i == loc[c].intent
<1>1. pc[c] = "commit" /\ pc[c] \in BeforeBarrier /\ pc[c] \in Owners /\ Frame
  BY DEF CommitSending, BeforeBarrier, Owners, IInv, TypeOK, Frame
<1>2. /\ loc[c] \in Locals /\ a \in Attempts /\ i \in Intents
      /\ loc[c].rec = a /\ loc[c].bnow \in Times /\ chain[a].intent = i
      /\ chain[a] \in Rows
  BY <1>1, OwnerFacts DEF IInv, TypeOK
<1>3. CASE ~CommitFits(c) /\ NoAppend /\ Goto(c, "cutlost")
  BY <1>1, <1>3, OwnerGoto DEF BeforeBarrier
<1>4. CASE /\ CommitFits(c) /\ Goto(c, "barrier")
           /\ chain' = [chain EXCEPT ![a] = Extend(chain[a], "Sending", loc[c].bnow)]
           /\ bound' = [bound EXCEPT ![i] = a]
           /\ seq' = seq + 2
  <2>1. chain[a].tail = "Prepared" /\ chain[a].ver = 1 /\ bound[i] = NoAttempt
    BY <1>1, <1>4, SecondRow, OwnerFacts DEF CommitFits, RowOK
  <2> DEFINE row == Extend(chain[a], "Sending", loc[c].bnow)
  <2>2. row \in Rows
    BY <1>2, ExtendFacts DEF Tails
  <2>3. row.tail = "Sending" /\ row.ver = 2 /\ row.intent = i
    BY <1>2, <2>1, ExtendFacts DEF Tails
  <2> HIDE DEF row
  <2>4. /\ chain'[a] = row
        /\ \A b \in Attempts \ {a} : chain'[b] = chain[b]
        /\ bound'[i] = a
    BY <1>2, <1>4 DEF IInv, TypeOK, row
  <2>5. "barrier" \in Locations BY DEF Locations, AfterBarrier
  <2>6. /\ pc' \in [Calls -> Locations] /\ pc'[c] = "barrier"
        /\ loc' \in [Calls -> Locals] /\ loc'[c] = loc[c]
        /\ out' \in [Calls -> Outcomes] /\ out' = out
        /\ OthersIdle(c)
    BY <1>4, <2>5, GotoFacts DEF IInv
  <2>7. TypeOK'
    BY <1>1, <1>2, <1>4, <2>2, <2>6 DEF IInv, TypeOK, Frame, row
  <2>8. RowStep(c, a)
    BY <1>1, <1>2, <1>4, <2>1, <2>3, <2>4 DEF RowStep
  <2>9. JournalStep(c) BY <1>2, <2>4, <2>8 DEF JournalStep
  <2>10. Honest => wires[a] = 0
    BY <1>2, <2>1 DEF IInv, WireOK
  <2>11. CallOK(c)'
    BY <1>1, <1>2, <2>3, <2>4, <2>6, <2>10
       DEF CallOK, CallAt, Owners, BeforeBarrier, AfterBarrier, Frame
  <2>12. OwnerStep(c) BY <1>1, <2>6 DEF OwnerStep
  <2>13. OutcomeStep /\ (Honest => WireStep(c))
    BY <1>1, <2>6 DEF OutcomeStep, WireStep, Frame
  <2> QED BY <2>6, <2>7, <2>9, <2>11, <2>12, <2>13, StepOK
<1> QED BY <1>3, <1>4 DEF CommitSending

\* A barrier that loses its cut preserves the invariant.
LEMMA LostCutOK ==
  ASSUME IInv, NEW c \in Calls, RereadAfterLostCut(c) \/ BlockAfterLostCut(c)
  PROVE  Preserved(c)
<1>1. CASE RereadAfterLostCut(c)
  <2>1. pc[c] \in BeforeBarrier /\ pc[c] \in Owners /\ Frame /\ NoAppend
    BY <1>1 DEF RereadAfterLostCut, BeforeBarrier, Owners, IInv, TypeOK, Frame, NoAppend
  <2>2. CASE Goto(c, "cutblock")
    BY <2>1, <2>2, OwnerGoto DEF BeforeBarrier
  <2>3. CASE chain[loc[c].att].tail # "Prepared" /\ Goto(c, "blocked")
    <3>1. chain[loc[c].att].tail = "Blocked"
      BY <2>1, <2>3 DEF IInv, CallOK, CallAt
    <3>2. CallAt("blocked", loc[c]) /\ KeepsOwner(c, "blocked", loc[c])
      BY <2>1, <3>1, OwnerFacts
         DEF CallAt, KeepsOwner, Owners, BeforeBarrier, AfterBarrier
    <3>3. loc[c] \in Locals /\ "blocked" \in Locations
      BY <2>1, OwnerFacts DEF Locations, BeforeBarrier
    <3> QED BY <2>1, <2>3, <3>2, <3>3, SilentMove DEF Goto
  <2> QED BY <1>1, <2>2, <2>3 DEF RereadAfterLostCut
<1>2. CASE BlockAfterLostCut(c)
  <2>1. pc[c] \in BeforeBarrier /\ pc[c] \in Owners /\ Frame
    BY <1>2 DEF BlockAfterLostCut, BeforeBarrier, Owners, IInv, TypeOK, Frame
  <2>2. loc[c].bnow \in Times BY <2>1, OwnerFacts
  <2> QED BY <1>2, <2>1, <2>2, RejectGuardOK DEF BlockAfterLostCut
<1> QED BY <1>1, <1>2

-----------------------------------------------------------------------------
\* What dispatch() does with the result of the transport.

\* Giving the gate back keeps its type.
LEMMA ReleaseType ==
  ASSUME TypeOK, NEW c \in Calls, Release(c)
  PROVE  gate' \in Calls \cup {NoCall}
BY DEF TypeOK, Release

\* A call whose guard was rejected reports what the journal says.
LEMMA ReportBlockedOK ==
  ASSUME IInv, NEW c \in Calls, ReportBlocked(c)
  PROVE  Preserved(c)
<1>1. pc[c] = "blocked" /\ pc[c] \in BeforeBarrier /\ pc[c] \in Owners
  BY DEF ReportBlocked, BeforeBarrier, Owners
<1>2. /\ chain[loc[c].att].tail = "Blocked" /\ loc[c].att \in Attempts
      /\ loc[c].rec = loc[c].att
  BY <1>1, OwnerFacts DEF IInv, CallOK, CallAt
<1>3. Frame /\ NoAppend
  BY <1>2, ReleaseType DEF ReportBlocked, MaybeRogueWire, RogueWire, IInv, TypeOK, Frame
<1>4. Return(c, OutcomeFromTerminal(chain[loc[c].rec].tail))
  BY <1>2 DEF ReportBlocked, Terminal
<1> QED BY <1>2, <1>3, <1>4, TerminalReturn DEF Terminal

\* A failed guard ends in Unknown, before the barrier.
LEMMA GuardFailedOK ==
  ASSUME IInv, NEW c \in Calls, GuardFailed(c)
  PROVE  Preserved(c)
<1>1. pc[c] \in {"blocked", "guardfailed"} /\ pc[c] \in BeforeBarrier /\ pc[c] \in Owners
  BY DEF GuardFailed, BeforeBarrier, Owners
<1>2. /\ chain[loc[c].att].tail = "Blocked" /\ loc[c].att \in Attempts
      /\ loc[c].rec = loc[c].att /\ loc[c].bnow \in Times
  BY <1>1, OwnerFacts DEF IInv, CallOK, CallAt
<1>3. Frame
  BY <1>2, ReleaseType DEF GuardFailed, MaybeRogueWire, RogueWire, IInv, TypeOK, Frame
<1>4. Appendable(c, loc[c].att, "Unknown")
  BY <1>1, <1>2 DEF Appendable
<1>5. /\ Append(loc[c].att, "Unknown", loc[c].bnow)
      /\ Return(c, OutcomeFromTerminal("Unknown"))
  BY DEF GuardFailed, OutcomeFromTerminal
<1> QED BY <1>2, <1>3, <1>4, <1>5, AppendReturn DEF Terminal

\* Version 3 after the barrier: the tail is still Sending.
LEMMA AfterFacts ==
  ASSUME IInv, NEW c \in Calls, pc[c] \in AfterBarrier
  PROVE  /\ pc[c] \in Owners
         /\ loc[c] \in Locals /\ loc[c].att \in Attempts /\ loc[c].rec = loc[c].att
         /\ loc[c].intent \in Intents /\ loc[c].bnow \in Times
         /\ chain[loc[c].att].intent = loc[c].intent
         /\ bound[loc[c].intent] = loc[c].att
         /\ Fits(loc[c].att, 3) => chain[loc[c].att].tail = "Sending"
<1>1. pc[c] \in Owners BY DEF Owners
<1>2. /\ bound[loc[c].intent] = loc[c].att /\ chain[loc[c].att].ver \in Nat
      /\ loc[c].att \in Attempts /\ loc[c].intent \in Intents
  BY <1>1, OwnerFacts DEF IInv, CallOK, CallAt
<1>3. chain[loc[c].att].ver = 2 => chain[loc[c].att].tail = "Sending"
  BY <1>2, ConstantsAssumption DEF IInv, JournalOK
<1>4. Fits(loc[c].att, 3) => chain[loc[c].att].ver = 2
  BY <1>2 DEF Fits
<1> QED BY <1>1, <1>2, <1>3, <1>4, OwnerFacts

\* A step after the barrier that leaves journal and provider alone.
LEMMA AfterMove ==
  ASSUME IInv, NEW c \in Calls, pc[c] \in AfterBarrier, NEW l \in AfterBarrier,
         Goto(c, l), NoAppend, Frame,
         Honest /\ l = "barrier" => wires[loc[c].att] = 0,
         Honest /\ l \in {"wired", "terminal"} => wires[loc[c].att] = 1
  PROVE  Preserved(c)
<1>1. CallAt(l, loc[c])
  BY AfterFacts DEF IInv, CallOK, CallAt, Owners, BeforeBarrier, AfterBarrier
<1>2. KeepsOwner(c, l, loc[c]) BY DEF KeepsOwner, Owners
<1>3. l \in Locations /\ loc[c] \in Locals BY AfterFacts DEF Locations
<1> QED BY <1>1, <1>2, <1>3, SilentMove DEF Goto

\* The request leaves after the barrier, once.
LEMMA WireActionOK ==
  ASSUME IInv, NEW c \in Calls, Wire(c)
  PROVE  Preserved(c)
<1>1. /\ pc[c] = "barrier" /\ pc[c] \in AfterBarrier /\ NoAppend
      /\ wires' = [wires EXCEPT ![loc[c].att] = @ + 1] /\ gate' = gate
      /\ "wired" \in Locations /\ Goto(c, "wired")
  BY DEF Wire, AfterBarrier, NoAppend, Locations
<1>2. /\ pc[c] \in Owners /\ loc[c] \in Locals /\ loc[c].att \in Attempts
  BY <1>1, AfterFacts
<1>3. /\ pc' \in [Calls -> Locations] /\ pc'[c] = "wired"
      /\ loc' \in [Calls -> Locals] /\ loc'[c] = loc[c]
      /\ out' \in [Calls -> Outcomes] /\ out' = out
      /\ OthersIdle(c)
  BY <1>1, GotoFacts DEF IInv
<1>4. wires' \in [Attempts -> Nat] /\ wires'[loc[c].att] = wires[loc[c].att] + 1
  BY <1>1, <1>2 DEF IInv, TypeOK
<1>5. TypeOK'
  BY <1>1, <1>3, <1>4 DEF IInv, TypeOK, NoAppend, jvars
<1>6. Honest => wires'[loc[c].att] = 1
  BY <1>1, <1>4 DEF IInv, CallOK, CallAt
<1>7. CallAt("barrier", loc[c]) BY <1>1 DEF IInv, CallOK
<1>8. CallOK(c)'
  BY <1>1, <1>3, <1>6, <1>7
     DEF CallOK, CallAt, NoAppend, jvars, Owners, BeforeBarrier, AfterBarrier
<1>9. OwnerStep(c) BY <1>2, <1>3 DEF OwnerStep
<1>10. JournalStep(c) /\ WireStep(c) /\ OutcomeStep
  BY <1>1, <1>3 DEF JournalStep, WireStep, OutcomeStep, NoAppend, jvars
<1> QED BY <1>3, <1>5, <1>8, <1>9, <1>10, StepOK

\* The end of the transport preserves the invariant.
LEMMA TransportEndsOK ==
  ASSUME IInv, NEW c \in Calls, TransportRaises(c) \/ TransportReturns(c)
  PROVE  Preserved(c)
<1>1. pc[c] \in AfterBarrier /\ NoAppend /\ Frame
  BY ReleaseType
     DEF TransportRaises, TransportReturns, AfterBarrier, NoAppend, Frame, IInv, TypeOK
<1>2. CASE Goto(c, "raised")
  BY <1>1, <1>2, AfterMove DEF AfterBarrier
<1>3. CASE pc[c] = "wired" /\ Goto(c, "terminal")
  <2>1. Honest => wires[loc[c].att] = 1
    BY <1>3 DEF IInv, CallOK, CallAt
  <2> QED BY <1>1, <1>3, <2>1, AfterMove DEF AfterBarrier
<1> QED BY <1>2, <1>3 DEF TransportRaises, TransportReturns

\* The verdict of the owner fits its Sending, or recovery has been there.
LEMMA MarkOK ==
  ASSUME IInv, NEW c \in Calls, MarkRaised(c) \/ MarkTerminal(c)
  PROVE  Preserved(c)
<1>1. pc[c] \in AfterBarrier /\ Frame
  BY DEF MarkRaised, MarkTerminal, AfterBarrier, Frame, IInv, TypeOK
<1>2. /\ pc[c] \in Owners /\ loc[c].bnow \in Times
      /\ Fits(loc[c].att, 3) => chain[loc[c].att].tail = "Sending"
  BY <1>1, AfterFacts
<1>3. CASE AppendOrRaise(c, "Unknown", 3, loc[c].bnow)
  BY <1>1, <1>2, <1>3, AppendOrRaiseOK DEF Appendable, Terminal
<1>4. CASE pc[c] = "terminal" /\ AppendOrRaise(c, "Sent", 3, loc[c].bnow)
  BY <1>1, <1>2, <1>4, AppendOrRaiseOK DEF Appendable, Terminal
<1> QED BY <1>3, <1>4 DEF MarkRaised, MarkTerminal

-----------------------------------------------------------------------------
\* _recover_existing, crashes and the rest of the host.

\* What a recovering call may rely on.
LEMMA RecoveryFacts ==
  ASSUME IInv, NEW c \in Calls, pc[c] \in {"recover", "resolve", "fence", "report"}
  PROVE  /\ loc[c] \in Locals /\ loc[c].att \in Attempts /\ loc[c].intent \in Intents
         /\ loc[c].rec \in Attempts /\ loc[c].now \in Times
         /\ chain[loc[c].rec] \in Rows /\ RowOK(chain[loc[c].rec])
         /\ chain[loc[c].rec].tail # "None"
BY DEF IInv, TypeOK, JournalOK, CallOK, CallAt, Locals

\* A recovering call goes on to another label of _recover_existing.
LEMMA RecoveryMove ==
  ASSUME IInv, NEW c \in Calls, pc[c] \in {"recover", "resolve", "fence", "report"},
         NEW l \in {"recover", "resolve", "fence"},
         l = "resolve" => chain[loc[c].rec].tail \in {"Sending", "Sent", "Unknown"},
         Goto(c, l), NoAppend, Frame
  PROVE  Preserved(c)
<1>1. CallAt(l, loc[c]) /\ KeepsOwner(c, l, loc[c])
  BY RecoveryFacts DEF CallAt, KeepsOwner, Owners, BeforeBarrier, AfterBarrier
<1>2. l \in Locations /\ loc[c] \in Locals BY RecoveryFacts DEF Locations
<1> QED BY <1>1, <1>2, SilentMove DEF Goto

\* The read of the recovered attempt preserves the invariant.
LEMMA ReadRecoveredOK ==
  ASSUME IInv, NEW c \in Calls, ReadRecovered(c)
  PROVE  Preserved(c)
<1>1. pc[c] = "recover" /\ NoAppend /\ Frame
  BY DEF ReadRecovered, NoAppend, Frame, IInv, TypeOK
<1>2. loc[c].rec \in Attempts BY <1>1, RecoveryFacts
<1>3. CASE /\ chain[loc[c].rec].tail \in Terminal
           /\ Return(c, OutcomeFromTerminal(chain[loc[c].rec].tail))
  BY <1>1, <1>2, <1>3, TerminalReturn
<1>4. CASE chain[loc[c].rec].tail = "Sending" /\ Goto(c, "resolve")
  BY <1>1, <1>4, RecoveryMove
<1>5. CASE Return(c, "IN_PROGRESS")
  BY <1>1, <1>5, PlainReturn
<1>6. CASE Goto(c, "fence")
  BY <1>1, <1>6, RecoveryMove
<1> QED BY <1>3, <1>4, <1>5, <1>6 DEF ReadRecovered

\* Recovery gives a stale Sending its Unknown, or reports its verdict.
LEMMA ResolveSendingOK ==
  ASSUME IInv, NEW c \in Calls, ResolveSending(c)
  PROVE  Preserved(c)
<1> DEFINE a == loc[c].rec
           t == LaterOf(chain[a].lastAt, loc[c].now)
<1>1. pc[c] = "resolve" /\ Frame
  BY DEF ResolveSending, Frame, IInv, TypeOK
<1>2. a \in Attempts /\ loc[c].now \in Times /\ chain[a] \in Rows
  BY <1>1, RecoveryFacts
<1>3. t \in Times BY <1>2 DEF LaterOf, Rows
<1>4. CASE /\ chain[a].tail = "Sending" /\ Append(a, "Unknown", t)
           /\ Return(c, "UNKNOWN")
  <2>1. Return(c, OutcomeFromTerminal("Unknown")) BY <1>4 DEF OutcomeFromTerminal
  <2> HIDE DEF t
  <2> QED BY <1>1, <1>2, <1>3, <1>4, <2>1, AppendReturn DEF Appendable, Terminal
<1>5. CASE /\ chain[a].tail # "Sending" /\ NoAppend
           /\ Return(c, OutcomeFromTerminal(chain[a].tail))
  <2>1. chain[a].tail \in Terminal
    BY <1>1, <1>5 DEF IInv, CallOK, CallAt, Terminal
  <2> QED BY <1>1, <1>2, <1>5, <2>1, TerminalReturn
<1> QED BY <1>4, <1>5 DEF ResolveSending

\* Recovery fences an expired Prepared, or re-reads what beat it.
LEMMA FencePreparedOK ==
  ASSUME IInv, NEW c \in Calls, FencePrepared(c)
  PROVE  Preserved(c)
<1> DEFINE a == loc[c].rec
<1>1. pc[c] = "fence" /\ Frame
  BY DEF FencePrepared, Frame, IInv, TypeOK
<1>2. a \in Attempts /\ loc[c].now \in Times /\ chain[a] \in Rows /\ RowOK(chain[a])
  BY <1>1, RecoveryFacts
<1>3. CASE Fits(a, 2) /\ Append(a, "Blocked", loc[c].now) /\ Goto(c, "report")
  <2>1. chain[a].tail = "Prepared" BY <1>2, <1>3 DEF Fits, RowOK, Rows
  <2>2. "report" \in Locations BY DEF Locations
  <2> QED BY <1>1, <1>2, <1>3, <2>1, <2>2, FenceMove
<1>4. CASE NoAppend /\ Goto(c, "recover")
  BY <1>1, <1>4, RecoveryMove
<1>5. CASE /\ NoAppend /\ chain[a].tail \in Terminal
           /\ Return(c, OutcomeFromTerminal(chain[a].tail))
  BY <1>1, <1>2, <1>5, TerminalReturn
<1> QED BY <1>3, <1>4, <1>5 DEF FencePrepared

\* Recovery reports the fence it appended.
LEMMA ReportFencedOK ==
  ASSUME IInv, NEW c \in Calls, ReportFenced(c)
  PROVE  Preserved(c)
<1>1. pc[c] = "report" /\ NoAppend /\ Frame
  BY DEF ReportFenced, NoAppend, Frame, IInv, TypeOK
<1>2. loc[c].rec \in Attempts BY <1>1, RecoveryFacts
<1>3. chain[loc[c].rec].tail \in Terminal
  BY <1>1 DEF IInv, CallOK, CallAt, Terminal
<1> QED BY <1>1, <1>2, <1>3, TerminalReturn DEF ReportFenced

\* A process that dies takes its locals and its lock with it.
LEMMA CrashOK ==
  ASSUME IInv, NEW c \in Calls, Crash(c)
  PROVE  Preserved(c)
<1>1. NoLocals \in Locals
  BY ConstantsAssumption DEF NoLocals, Locals, Times
<1>2. /\ TypeOK' /\ pc'[c] = "idle" /\ OthersIdle(c) /\ out' = out
      /\ chain' = chain /\ bound' = bound /\ wires' = wires
  BY <1>1, ReleaseType DEF Crash, IInv, TypeOK, OthersIdle, Locations, jvars
<1>3. CallOK(c)' /\ OwnerStep(c)
  BY <1>2 DEF CallOK, CallAt, OwnerStep, Owners, BeforeBarrier, AfterBarrier
<1>4. JournalStep(c) /\ OutcomeStep /\ WireStep(c)
  BY <1>2 DEF JournalStep, OutcomeStep, WireStep
<1> QED BY <1>2, <1>3, <1>4, StepOK

\* A step of the whole system is a step of some call or leaves rows and
\* requests alone.
HostStep ==
  \/ \E c \in Calls : Preserved(c)
  \/ IInv' /\ chain' = chain /\ bound' = bound /\ wires' = wires

LEMMA CallStepOK ==
  ASSUME IInv, NEW c \in Calls, Step(c)
  PROVE  Preserved(c)
  BY LookupOK, ReadIntentOK, ReadCanonicalOK, LegacyScanOK,
     AppendPreparedOK, CheckAuthorityOK, TransportOK, ReadBarrierClockOK,
     AcquireGateOK, TakeCutOK, CheckSenderOK, RereadAttemptOK, CommitSendingOK,
     LostCutOK, ReportBlockedOK, GuardFailedOK, WireActionOK, TransportEndsOK,
     MarkOK, ReadRecoveredOK, ResolveSendingOK, FencePreparedOK, ReportFencedOK
     DEF Step

\* Every step preserves the invariant and changes the journal as JournalStep says.
LEMMA NextOK ==
  ASSUME IInv, [Next]_vars
  PROVE  HostStep
<1>1. ASSUME NEW c \in Calls, Step(c) PROVE Preserved(c)
  BY <1>1, CallStepOK
<1>2. ASSUME NEW c \in Calls, BeginAny(c) \/ Crash(c) PROVE Preserved(c)
  BY <1>2, BeginOK, CrashOK
<1>3. CASE ForeignAppend \/ UNCHANGED vars
  <2>1. /\ chain' = chain /\ bound' = bound /\ gate' = gate /\ pc' = pc
        /\ loc' = loc /\ out' = out /\ wires' = wires /\ seq' \in Nat
    BY <1>3 DEF ForeignAppend, vars, IInv, TypeOK
  <2>2. TypeOK' BY <2>1 DEF IInv, TypeOK
  <2>3. JournalOK' /\ OneOwner' /\ (Honest => WireOK')
    BY <2>1 DEF IInv, JournalOK, OneOwner, WireOK
  <2>4. \A c \in Calls : CallOK(c)' /\ OutcomeOK(out[c])'
    BY <2>1 DEF IInv, CallOK, CallAt, OutcomeOK
  <2> QED BY <2>1, <2>2, <2>3, <2>4 DEF IInv, HostStep
<1> QED BY <1>1, <1>2, <1>3 DEF Next, HostStep

\* The empty journal satisfies the invariant.
LEMMA InitOK == Init => IInv
<1> USE ConstantsAssumption
<1> SUFFICES ASSUME Init PROVE IInv OBVIOUS
<1>1. NoRow \in Rows /\ NoLocals \in Locals /\ NoOutcome \in Outcomes
  BY DEF NoRow, Rows, Tails, NoLocals, Locals, NoOutcome, Outcomes, Statuses, Times
<1>2. TypeOK BY <1>1 DEF Init, TypeOK, Locations
<1>3. JournalOK BY DEF Init, JournalOK, RowOK, NoRow
<1>4. \A c \in Calls : CallOK(c)
  BY DEF Init, CallOK, CallAt, Owners, BeforeBarrier, AfterBarrier
<1>5. OneOwner BY DEF Init, OneOwner, Owners, BeforeBarrier, AfterBarrier
<1>6. \A c \in Calls : OutcomeOK(out[c]) BY DEF Init, OutcomeOK, NoOutcome
<1>7. WireOK BY DEF Init, WireOK, NoRow
<1> QED BY <1>2, <1>3, <1>4, <1>5, <1>6, <1>7 DEF IInv

-----------------------------------------------------------------------------
\* The inductive invariant holds of the dispatcher.
THEOREM Invariance == Spec => []IInv
<1>1. IInv /\ [Next]_vars => IInv'
  BY NextOK DEF HostStep, Preserved
<1> QED BY InitOK, <1>1, PTL DEF Spec

\* Every variable of the dispatcher keeps its type.
THEOREM TypeCorrect == Spec => []TypeOK
<1>1. IInv => TypeOK BY DEF IInv
<1> QED BY Invariance, <1>1, PTL

\* With wrappers that keep the final-guard contract no economic intent is sent
\* twice: for any number of processes, attempts, crashes and skewed clocks.
THEOREM SentAtMostOnce == Honest => (Spec => []AtMostOneWire)
<1> SUFFICES ASSUME Honest PROVE Spec => []AtMostOneWire OBVIOUS
<1>1. IInv => AtMostOneWire BY DEF IInv, WireOK, AtMostOneWire
<1> QED BY Invariance, <1>1, PTL

\* A request at the provider is always covered by durable send evidence.
THEOREM PersistBeforeSend == Honest => (Spec => []WireIsDurable)
<1> SUFFICES ASSUME Honest PROVE Spec => []WireIsDurable OBVIOUS
<1>1. ASSUME IInv PROVE WireIsDurable
  <2> SUFFICES ASSUME NEW a \in Attempts, wires[a] > 0
               PROVE  /\ chain[a].tail \in {"Sending", "Sent", "Unknown"}
                      /\ bound[chain[a].intent] = a
    BY DEF WireIsDurable
  <2>1. chain[a].tail # "None" /\ bound[chain[a].intent] = a
    BY <1>1 DEF IInv, WireOK
  <2>2. chain[a].intent \in Intents BY <1>1, <2>1 DEF IInv, JournalOK, RowOK
  <2> QED BY <1>1, <2>1, <2>2, ConstantsAssumption DEF IInv, JournalOK
<1> QED BY Invariance, <1>1, PTL

\* BLOCKED is reported only of attempts that never send, SENT only of attempts
\* the provider has received, and both stay true after the report.
THEOREM OutcomesTrue == Honest => (Spec => []OutcomeIsTrue)
<1> SUFFICES ASSUME Honest PROVE Spec => []OutcomeIsTrue OBVIOUS
<1>1. ASSUME IInv PROVE OutcomeIsTrue
  <2> SUFFICES ASSUME NEW c \in Calls
               PROVE  /\ out[c].status = "BLOCKED" => wires[out[c].att] = 0
                      /\ out[c].status = "SENT" => wires[out[c].att] = 1
    BY DEF OutcomeIsTrue
  <2>1. OutcomeOK(out[c]) /\ WireOK BY <1>1 DEF IInv
  <2> QED BY <2>1 DEF OutcomeOK, WireOK
<1> QED BY Invariance, <1>1, PTL

\* Even a wrapper that ignores the guard gets one attempt per intent past the
\* barrier, and SENT is said of no other.
THEOREM BarrierOnce == Spec => []OneBarrierPerIntent
<1>1. ASSUME IInv PROVE OneBarrierPerIntent
  <2>1. \A a \in Attempts : chain[a].tail \in {"Sending", "Sent"} =>
          chain[a].intent \in Intents /\ bound[chain[a].intent] = a
    BY <1>1 DEF IInv, JournalOK, RowOK
  <2>2. \A c \in Calls : OutcomeOK(out[c]) BY <1>1 DEF IInv
  <2> QED BY <2>1, <2>2 DEF OutcomeOK, OneBarrierPerIntent
<1> QED BY Invariance, <1>1, PTL

\* Bindings and terminal events are final.
THEOREM VerdictsFinal == Spec => VerdictsStand
<1> USE ConstantsAssumption
<1> DEFINE Stand ==
      /\ \A i \in Intents : bound[i] # NoAttempt => bound'[i] = bound[i]
      /\ \A a \in Attempts :
           /\ chain[a].tail \in {"Sent", "Unknown"} => chain'[a] = chain[a]
           /\ chain[a].tail = "Blocked" => chain'[a].tail \in {"Blocked", "Unknown"}
<1>1. ASSUME IInv, [Next]_vars PROVE Stand
  <2>1. CASE chain' = chain /\ bound' = bound BY <2>1
  <2>2. ASSUME NEW c \in Calls, NEW a \in Attempts,
               \A b \in Attempts \ {a} : chain'[b] = chain[b],
               RowStep(c, a)
        PROVE  Stand
    <3>1. \A i \in Intents : bound[i] # NoAttempt => bound'[i] = bound[i]
      <4>1. CASE bound' = bound BY <4>1
      <4>2. CASE bound' # bound BY <1>1, <2>2, <4>2 DEF IInv, TypeOK, RowStep
      <4> QED BY <4>1, <4>2
    <3>2. ASSUME NEW b \in Attempts
          PROVE  /\ chain[b].tail \in {"Sent", "Unknown"} => chain'[b] = chain[b]
                 /\ chain[b].tail = "Blocked" => chain'[b].tail \in {"Blocked", "Unknown"}
      BY <2>2 DEF RowStep
    <3> QED BY <3>1, <3>2
  <2>3. HostStep BY <1>1, NextOK
  <2> QED BY <2>1, <2>2, <2>3 DEF HostStep, Preserved, JournalStep
<1>2. IInv /\ [Next]_vars => [Stand]_vars BY <1>1
<1> QED BY Invariance, <1>2, PTL DEF Spec, VerdictsStand

-----------------------------------------------------------------------------
(***************************************************************************)
(* Refinement. A change of a row or of the provider's count that concerns  *)
(* a bound attempt is a step of the abstract intent; any other is a        *)
(* stutter.                                                                *)
(***************************************************************************)
LEMMA AbstractWire ==
  ASSUME IInv, Honest, NEW c \in Calls, WireStep(c), wires' # wires
  PROVE  Abstract!ANext
<1> USE ConstantsAssumption
<1> DEFINE a == loc[c].att
           i == loc[c].intent
<1>1. /\ pc[c] = "barrier" /\ wires' = [wires EXCEPT ![a] = @ + 1]
      /\ chain' = chain /\ bound' = bound /\ pc[c] \in AfterBarrier
  BY DEF WireStep, AfterBarrier
<1>2. /\ a \in Attempts /\ i \in Intents /\ bound[i] = a
      /\ chain[a].intent = i
      /\ wires[a] = 0
  BY <1>1, AfterFacts DEF IInv, CallOK, CallAt
<1>3. chain[a].tail \in {"Sending", "Unknown"}
  BY <1>1 DEF IInv, CallOK, CallAt
<1>4. wires'[a] = 1 /\ \A b \in Attempts \ {a} : wires'[b] = wires[b]
  BY <1>1, <1>2 DEF IInv, TypeOK
<1>5. \A j \in Intents \ {i} : bound[j] # a
  BY <1>2 DEF IInv, JournalOK
<1>6. \A j \in Intents : AbstractVerdict(j)' = AbstractVerdict(j)
  BY <1>1 DEF AbstractVerdict
<1>7. \A j \in Intents : AbstractSends(j)' = IF j = i THEN 1 ELSE AbstractSends(j)
  <2> SUFFICES ASSUME NEW j \in Intents
               PROVE  AbstractSends(j)' = IF j = i THEN 1 ELSE AbstractSends(j)
    OBVIOUS
  <2>1. bound[j] \in Attempts \cup {NoAttempt} BY DEF IInv, TypeOK
  <2> QED BY <1>1, <1>2, <1>4, <1>5, <2>1 DEF AbstractSends
<1>8. AbstractVerdict(i) \in {"committed", "unknown"} /\ AbstractSends(i) = 0
  BY <1>2, <1>3 DEF AbstractVerdict, AbstractSends
<1>9. Abstract!ASend(i)
  BY <1>2, <1>6, <1>7, <1>8 DEF Abstract!ASend
<1> QED BY <1>2, <1>9 DEF Abstract!ANext

\* A step that binds an intent is the abstract commit.
LEMMA AbstractCommit ==
  ASSUME IInv, NEW c \in Calls, wires' = wires, NEW a \in Attempts, Honest,
         \A b \in Attempts \ {a} : chain'[b] = chain[b],
         RowStep(c, a), bound' # bound
  PROVE  Abstract!ANext
<1> USE ConstantsAssumption
<1>0. chain[a].tail = "Prepared" /\ chain'[a].tail = "Sending"
  BY DEF RowStep
<1>1. PICK i \in Intents : i = chain[a].intent
  BY <1>0 DEF IInv, JournalOK, RowOK
<1>2. /\ chain[a].tail = "Prepared" /\ chain'[a].tail = "Sending"
      /\ bound[i] = NoAttempt /\ bound' = [bound EXCEPT ![i] = a]
  BY <1>1 DEF RowStep
<1>3. bound'[i] = a /\ \A j \in Intents \ {i} : bound'[j] = bound[j]
  BY <1>1, <1>2 DEF IInv, TypeOK
<1>4. wires[a] = 0
  BY <1>1, <1>2 DEF IInv, WireOK
<1>5. \A j \in Intents : bound[j] \in (Attempts \ {a}) \cup {NoAttempt}
  BY <1>2 DEF IInv, TypeOK, JournalOK
<1>6. /\ AbstractVerdict(i) = "open" /\ AbstractVerdict(i)' = "committed"
      /\ AbstractSends(i) = 0 /\ AbstractSends(i)' = 0
  BY <1>1, <1>2, <1>3, <1>4 DEF AbstractVerdict, AbstractSends
<1>7. \A j \in Intents \ {i} : /\ AbstractVerdict(j)' = AbstractVerdict(j)
                               /\ AbstractSends(j)' = AbstractSends(j)
  <2> SUFFICES ASSUME NEW j \in Intents \ {i}
               PROVE  /\ AbstractVerdict(j)' = AbstractVerdict(j)
                      /\ AbstractSends(j)' = AbstractSends(j)
    OBVIOUS
  <2>1. bound'[j] = bound[j] /\ (bound[j] = NoAttempt \/ chain'[bound[j]] = chain[bound[j]])
    BY <1>3, <1>5
  <2> QED BY <2>1 DEF AbstractVerdict, AbstractSends
<1>8. Abstract!ACommit(i)
  BY <1>1, <1>6, <1>7 DEF Abstract!ACommit
<1> QED BY <1>1, <1>8 DEF Abstract!ANext

\* Any other append is an abstract verdict, or invisible.
LEMMA AbstractRow ==
  ASSUME IInv, NEW c \in Calls, wires' = wires, NEW a \in Attempts, Honest,
         \A b \in Attempts \ {a} : chain'[b] = chain[b],
         RowStep(c, a), bound' = bound
  PROVE  Abstract!ANext \/ UNCHANGED Abstract!avars
<1> USE ConstantsAssumption
<1>0. \A j \in Intents : AbstractSends(j)' = AbstractSends(j)
  BY DEF AbstractSends
<1>1. ASSUME NEW i \in Intents, bound[i] = a
      PROVE  Abstract!ANext
  <2>1. chain[a].tail = "Sending" /\ chain'[a].tail \in {"Sent", "Unknown"}
    <3>1. chain[a].tail \in {"Sending", "Sent", "Unknown"}
      BY <1>1 DEF IInv, JournalOK
    <3> QED BY <3>1 DEF RowStep
  <2>2. \A j \in Intents \ {i} : AbstractVerdict(j)' = AbstractVerdict(j)
    <3> SUFFICES ASSUME NEW j \in Intents \ {i}
                 PROVE  AbstractVerdict(j)' = AbstractVerdict(j)
      OBVIOUS
    <3>1. bound[j] # a BY <1>1 DEF IInv, JournalOK
    <3>2. bound[j] = NoAttempt \/ chain'[bound[j]] = chain[bound[j]]
      BY <3>1 DEF IInv, TypeOK
    <3> QED BY <3>2 DEF AbstractVerdict
  <2>3. AbstractVerdict(i) = "committed"
    BY <1>1, <2>1 DEF AbstractVerdict
  <2>4. CASE chain'[a].tail = "Unknown"
    <3>1. AbstractVerdict(i)' = "unknown" BY <1>1, <2>4 DEF AbstractVerdict
    <3>2. Abstract!AGiveUp(i) BY <1>0, <1>1, <2>2, <2>3, <3>1 DEF Abstract!AGiveUp
    <3> QED BY <1>1, <3>2 DEF Abstract!ANext
  <2>5. CASE chain'[a].tail = "Sent"
    <3>1. AbstractVerdict(i)' = "sent" BY <1>1, <2>5 DEF AbstractVerdict
    <3>2. pc[c] = "terminal" /\ loc[c].att = a BY <2>1, <2>5 DEF RowStep
    <3>3. AbstractSends(i) = 1
      BY <1>1, <3>2 DEF AbstractSends, IInv, CallOK, CallAt
    <3>4. Abstract!AConfirm(i)
      BY <1>0, <1>1, <2>2, <2>3, <3>1, <3>3 DEF Abstract!AConfirm
    <3> QED BY <1>1, <3>4 DEF Abstract!ANext
  <2> QED BY <2>1, <2>4, <2>5
<1>2. ASSUME \A i \in Intents : bound[i] # a
      PROVE  UNCHANGED Abstract!avars
  <2>1. \A j \in Intents : AbstractVerdict(j)' = AbstractVerdict(j)
    <3> SUFFICES ASSUME NEW j \in Intents
                 PROVE  AbstractVerdict(j)' = AbstractVerdict(j)
      OBVIOUS
    <3>1. bound[j] = NoAttempt \/ chain'[bound[j]] = chain[bound[j]]
      BY <1>2 DEF IInv, TypeOK
    <3> QED BY <3>1 DEF AbstractVerdict
  <2> QED BY <1>0, <2>1 DEF Abstract!avars
<1> QED BY <1>1, <1>2

\* The dispatcher implements IntentSubmission.
THEOREM Refinement == Honest => (Spec => ImplementsIntentSubmission)
<1> USE ConstantsAssumption
<1> SUFFICES ASSUME Honest PROVE Spec => ImplementsIntentSubmission OBVIOUS
<1>1. Init => Abstract!AInit
  BY DEF Init, Abstract!AInit, AbstractVerdict, AbstractSends
<1>2. ASSUME IInv, [Next]_vars
      PROVE  Abstract!ANext \/ UNCHANGED Abstract!avars
  <2>1. HostStep BY <1>2, NextOK
  <2>2. CASE chain' = chain /\ bound' = bound /\ wires' = wires
    BY <2>2 DEF Abstract!avars, AbstractVerdict, AbstractSends
  <2>3. ASSUME NEW c \in Calls, JournalStep(c), WireStep(c)
        PROVE  Abstract!ANext \/ UNCHANGED Abstract!avars
    <3>1. CASE wires' # wires BY <1>2, <2>3, <3>1, AbstractWire
    <3>2. CASE wires' = wires /\ bound' # bound
      BY <1>2, <2>3, <3>2, AbstractCommit DEF JournalStep
    <3>3. CASE wires' = wires /\ bound' = bound /\ chain' # chain
      BY <1>2, <2>3, <3>3, AbstractRow DEF JournalStep
    <3> QED BY <2>2, <3>1, <3>2, <3>3
  <2> QED BY <2>1, <2>2, <2>3 DEF HostStep, Preserved
<1>3. IInv /\ [Next]_vars => [Abstract!ANext]_(Abstract!avars) BY <1>2
<1> QED BY Invariance, <1>1, <1>3, PTL DEF Spec, ImplementsIntentSubmission, Abstract!ASpec

-----------------------------------------------------------------------------
(***************************************************************************)
(* Dates. The call that passed the barrier dates its terminal event with   *)
(* the clock reading of its Sending, so only recovery could date one       *)
(* before it.                                                              *)
(***************************************************************************)
Dated ==
  \A c \in Calls :
    pc[c] \in AfterBarrier /\ chain[loc[c].att].tail = "Sending" =>
      chain[loc[c].att].lastAt = loc[c].bnow

\* Only the commit of Sending brings a call past the barrier.
Moved(c) ==
  /\ OthersIdle(c)
  /\ pc'[c] \in AfterBarrier => pc[c] \in AfterBarrier /\ loc'[c] = loc[c]

SendingKept == \A a \in Attempts : chain[a].tail = "Sending" => chain'[a] = chain[a]

NotBackdated ==
  \A a \in Attempts : chain[a].tail = "Sending" => chain'[a].lastAt >= chain[a].lastAt

LEMMA MovedBy ==
  ASSUME TypeOK, NEW c \in Calls
  PROVE  /\ \A l, x : Enter(c, l, x) /\ l \notin AfterBarrier => Moved(c)
         /\ \A l : Goto(c, l) /\ (l \in AfterBarrier => pc[c] \in AfterBarrier) => Moved(c)
         /\ \A s : Return(c, s) => Moved(c)
<1>1. "idle" \notin AfterBarrier
  BY DEF AfterBarrier
<1>2. \A l, x : Enter(c, l, x) => OthersIdle(c) /\ pc'[c] = l /\ loc'[c] = x
  BY DEF TypeOK, Enter, OthersIdle
<1>3. \A s : Return(c, s) => OthersIdle(c) /\ pc'[c] = "idle"
  BY DEF TypeOK, Return, OthersIdle
<1> QED  BY <1>1, <1>2, <1>3 DEF Goto, Moved

LEMMA AppendKeeps ==
  ASSUME IInv, NEW a \in Attempts, NEW type, NEW t, Append(a, type, t),
         chain[a].tail # "Sending"
  PROVE  SendingKept
  BY DEF Append, SendingKept

\* A row that takes its first or second version is not Sending.
LEMMA EarlyRow ==
  ASSUME IInv, NEW a \in Attempts, Fits(a, 1) \/ Fits(a, 2)
  PROVE  chain[a].tail # "Sending"
  BY DEF IInv, TypeOK, Rows, JournalOK, RowOK, Fits

LEMMA AppendOrRaiseKeeps ==
  ASSUME IInv, NEW c \in Calls, pc[c] \in Owners, NEW type, NEW t,
         AppendOrRaise(c, type, 2, t)
  PROVE  Moved(c) /\ SendingKept
<1>1. loc[c].att \in Attempts /\ TypeOK
  BY OwnerFacts DEF IInv
<1>2. CASE Fits(loc[c].att, 2) /\ Append(loc[c].att, type, t) /\ Return(c, OutcomeFromTerminal(type))
  <2>1. SendingKept
    BY <1>1, <1>2, EarlyRow, AppendKeeps
  <2> QED  BY <1>1, <1>2, <2>1, MovedBy
<1>3. CASE NoAppend /\ Return(c, "ERROR")
  BY <1>1, <1>3, MovedBy DEF NoAppend, jvars, SendingKept
<1> QED  BY <1>2, <1>3 DEF AppendOrRaise

LEMMA RejectGuardKeeps ==
  ASSUME IInv, NEW c \in Calls, pc[c] \in Owners, NEW t, RejectGuard(c, t)
  PROVE  Moved(c) /\ SendingKept
<1>1. loc[c].att \in Attempts /\ TypeOK
  BY OwnerFacts DEF IInv
<1>2. CASE Fits(loc[c].att, 2) /\ Append(loc[c].att, "Blocked", t) /\ Goto(c, "blocked")
  <2>1. SendingKept
    BY <1>1, <1>2, EarlyRow, AppendKeeps
  <2>2. "blocked" \notin AfterBarrier
    BY DEF AfterBarrier
  <2> QED  BY <1>1, <1>2, <2>1, <2>2, MovedBy
<1>3. CASE NoAppend /\ Goto(c, "guardfailed")
  <2>1. "guardfailed" \notin AfterBarrier
    BY DEF AfterBarrier
  <2> QED  BY <1>1, <1>3, <2>1, MovedBy DEF NoAppend, jvars, SendingKept
<1> QED  BY <1>2, <1>3 DEF RejectGuard

\* The steps that append nothing.
LEMMA QuietKeeps ==
  ASSUME IInv, NEW c \in Calls,
         \/ Lookup(c) \/ ReadIntent(c) \/ ReadCanonical(c) \/ LegacyScan(c)
         \/ CallGuard(c) \/ TakeCut(c) \/ RereadAfterLostCut(c) \/ ReportBlocked(c)
         \/ Wire(c) \/ TransportRaises(c) \/ TransportReturns(c)
         \/ ReadRecovered(c) \/ ReportFenced(c) \/ BeginAny(c) \/ Crash(c)
  PROVE  Moved(c) /\ SendingKept
<1>1. TypeOK
  BY DEF IInv
<1>2. chain' = chain
  BY DEF Lookup, ReadIntent, ReadCanonical, LegacyScan, CallGuard, TakeCut, RereadAfterLostCut,
         ReportBlocked, Wire, TransportRaises, TransportReturns, ReadRecovered, ReportFenced,
         BeginAny, Begin, Crash, NoAppend, jvars
<1>3. {"intent", "scan", "recover", "canonical", "prepare", "clock", "check", "cutblock", "blocked",
       "resolve", "fence"} \cap AfterBarrier = {}
  BY DEF AfterBarrier
<1>4. SUFFICES Moved(c)
  BY <1>2 DEF SendingKept
<1>5. CASE Lookup(c) \/ ReadIntent(c) \/ ReadCanonical(c) \/ LegacyScan(c)
  BY <1>1, <1>3, <1>5, MovedBy DEF Lookup, ReadIntent, ReadCanonical, LegacyScan
<1>6. CASE CallGuard(c) \/ TakeCut(c) \/ RereadAfterLostCut(c) \/ ReportBlocked(c)
  BY <1>1, <1>3, <1>6, MovedBy DEF CallGuard, TakeCut, RereadAfterLostCut, ReportBlocked
<1>7. CASE Wire(c) \/ TransportRaises(c) \/ TransportReturns(c)
  <2>1. pc[c] \in AfterBarrier
    BY <1>7 DEF Wire, TransportRaises, TransportReturns, AfterBarrier
  <2> QED  BY <1>1, <1>7, <2>1, MovedBy DEF Wire, TransportRaises, TransportReturns
<1>8. CASE ReadRecovered(c) \/ ReportFenced(c)
  BY <1>1, <1>3, <1>8, MovedBy DEF ReadRecovered, ReportFenced
<1>9. CASE BeginAny(c) \/ Crash(c)
  BY <1>1, <1>9 DEF BeginAny, Begin, Crash, Moved, OthersIdle, TypeOK, AfterBarrier
<1> QED  BY <1>5, <1>6, <1>7, <1>8, <1>9

\* The steps that append over a row that is not Sending.
LEMMA EarlyKeeps ==
  ASSUME IInv, NEW c \in Calls,
         \/ AppendPrepared(c) \/ CheckAuthority(c) \/ RaiseBeforeGuard(c) \/ ReturnWithoutGuard(c)
         \/ ReadBarrierClock(c) \/ AcquireGate(c) \/ CheckSender(c) \/ RereadAttempt(c)
         \/ BlockAfterLostCut(c) \/ GuardFailed(c) \/ FencePrepared(c)
  PROVE  Moved(c) /\ SendingKept
<1>1. TypeOK
  BY DEF IInv
<1>2. {"authority", "recover", "transport", "gate", "cut", "reread", "blocked", "commit",
       "report"} \cap AfterBarrier = {}
  BY DEF AfterBarrier
<1>3. CASE AppendPrepared(c)
  <2>1. loc[c].att \in Attempts
    BY <1>3 DEF AppendPrepared, IInv, CallOK, CallAt
  <2>2. Moved(c)
    BY <1>1, <1>2, <1>3, MovedBy DEF AppendPrepared
  <2>3. SendingKept
    BY <1>1, <1>3, <2>1, EarlyRow DEF AppendPrepared, SendingKept, NoAppend, jvars, TypeOK
  <2> QED  BY <2>2, <2>3
<1>4. CASE CheckAuthority(c) \/ RaiseBeforeGuard(c) \/ ReturnWithoutGuard(c)
  <2>1. pc[c] \in Owners
    BY <1>4 DEF CheckAuthority, RaiseBeforeGuard, ReturnWithoutGuard, Owners, BeforeBarrier
  <2> QED  BY <1>1, <1>2, <1>4, <2>1, MovedBy, AppendOrRaiseKeeps
           DEF CheckAuthority, RaiseBeforeGuard, ReturnWithoutGuard, NoAppend, jvars, SendingKept
<1>5. CASE ReadBarrierClock(c) \/ AcquireGate(c) \/ CheckSender(c) \/ BlockAfterLostCut(c)
  <2>1. pc[c] \in Owners
    BY <1>5 DEF ReadBarrierClock, AcquireGate, CheckSender, BlockAfterLostCut, Owners, BeforeBarrier
  <2>2. CASE ReadBarrierClock(c)
    BY <1>1, <1>2, <2>1, <2>2, MovedBy, RejectGuardKeeps
       DEF ReadBarrierClock, NoAppend, jvars, SendingKept
  <2>3. CASE AcquireGate(c) \/ CheckSender(c) \/ BlockAfterLostCut(c)
    BY <1>1, <1>2, <2>1, <2>3, MovedBy, RejectGuardKeeps
       DEF AcquireGate, CheckSender, BlockAfterLostCut, NoAppend, jvars, SendingKept
  <2> QED  BY <1>5, <2>2, <2>3
<1>6. CASE RereadAttempt(c)
  <2>1. loc[c].att \in Attempts
    BY <1>6, OwnerFacts DEF RereadAttempt, Owners, BeforeBarrier
  <2>2. Moved(c)
    BY <1>1, <1>2, <1>6, MovedBy DEF RereadAttempt
  <2>3. SendingKept
    BY <1>6, <2>1, AppendKeeps DEF RereadAttempt, NoAppend, jvars, SendingKept
  <2> QED  BY <2>2, <2>3
<1>7. CASE GuardFailed(c)
  <2>1. pc[c] \in {"guardfailed", "blocked"} /\ pc[c] \in Owners
    BY <1>7 DEF GuardFailed, Owners, BeforeBarrier
  <2>2. loc[c].att \in Attempts /\ chain[loc[c].att].tail = "Blocked"
    BY <2>1, OwnerFacts DEF IInv, CallOK, CallAt
  <2>3. SendingKept
    BY <1>7, <2>2, AppendKeeps DEF GuardFailed
  <2> QED  BY <1>1, <1>7, <2>3, MovedBy DEF GuardFailed
<1>8. CASE FencePrepared(c)
  <2>1. loc[c].rec \in Attempts
    BY <1>8 DEF FencePrepared, IInv, CallOK, CallAt
  <2>2. Moved(c)
    BY <1>1, <1>2, <1>8, MovedBy DEF FencePrepared
  <2>3. SendingKept
    BY <1>8, <2>1, EarlyRow, AppendKeeps DEF FencePrepared, NoAppend, jvars, SendingKept
  <2> QED  BY <2>2, <2>3
<1> QED  BY <1>3, <1>4, <1>5, <1>6, <1>7, <1>8

LEMMA TimesAreNumbers == \A a \in Attempts : IInv => chain[a].lastAt \in Nat
  BY ConstantsAssumption DEF IInv, TypeOK, Rows, Times

\* A row that is Sending after the step was, unless its owner committed it.
LEMMA StaysDated ==
  ASSUME IInv, Dated, NEW c \in Calls, Moved(c), JournalStep(c)
  PROVE  Dated'
<1> SUFFICES ASSUME NEW d \in Calls, pc'[d] \in AfterBarrier,
                    chain'[loc'[d].att].tail = "Sending"
             PROVE  chain'[loc'[d].att].lastAt = loc'[d].bnow
  BY DEF Dated
<1>1. pc[d] \in AfterBarrier /\ loc'[d] = loc[d]
  BY DEF Moved, OthersIdle
<1>2. PICK a \in Attempts : a = loc[d].att /\ chain[a].tail \in {"Sending", "Unknown"}
  BY <1>1, OwnerFacts DEF IInv, CallOK, CallAt, Owners
<1>3. chain'[a].tail = "Sending"
  BY <1>1, <1>2
<1>4. chain'[a] = chain[a]
  BY <1>2, <1>3 DEF JournalStep, RowStep
<1> QED  BY <1>1, <1>2, <1>3, <1>4 DEF Dated

\* One step of a call keeps the dates.
DatesKept == Dated' /\ NotBackdated

LEMMA KeptDates ==
  ASSUME IInv, Dated, NEW c \in Calls, Moved(c), SendingKept, JournalStep(c)
  PROVE  DatesKept
<1>1. NotBackdated
  BY TimesAreNumbers DEF SendingKept, NotBackdated
<1> QED  BY <1>1, StaysDated DEF DatesKept

LEMMA CommitDates ==
  ASSUME IInv, Dated, NEW c \in Calls, CommitSending(c), JournalStep(c)
  PROVE  DatesKept
<1>1. TypeOK /\ loc[c].att \in Attempts /\ loc[c].bnow \in Times
  BY OwnerFacts DEF IInv, CommitSending, Owners, BeforeBarrier
<1>2. CASE NoAppend /\ Goto(c, "cutlost")
  <2>1. "cutlost" \notin AfterBarrier
    BY DEF AfterBarrier
  <2>2. Moved(c) /\ SendingKept
    BY <1>1, <1>2, <2>1, MovedBy DEF NoAppend, jvars, SendingKept
  <2> QED  BY <2>2, KeptDates
<1>3. CASE /\ CommitFits(c) /\ Goto(c, "barrier")
           /\ chain' = [chain EXCEPT ![loc[c].att] = Extend(chain[loc[c].att], "Sending", loc[c].bnow)]
  <2>1. PICK a \in Attempts : a = loc[c].att
    BY <1>1
  <2>2. chain[a].tail # "Sending" /\ chain[a] \in Rows
    BY <1>1, <1>3, <2>1, EarlyRow DEF CommitFits, TypeOK
  <2>3. SendingKept
    BY <1>3, <2>1, <2>2 DEF SendingKept
  <2>4. "Sending" \in Tails
    BY DEF Tails
  <2>5. chain'[a].lastAt = loc[c].bnow
    BY <1>1, <1>3, <2>1, <2>2, <2>4, ExtendFacts DEF TypeOK
  <2>6. loc'[c] = loc[c] /\ OthersIdle(c)
    BY <1>1, <1>3 DEF Goto, Enter, TypeOK, OthersIdle
  <2>7. NotBackdated
    BY <2>3, TimesAreNumbers DEF SendingKept, NotBackdated
  <2>8. ASSUME NEW d \in Calls \ {c}, pc'[d] \in AfterBarrier, chain'[loc'[d].att].tail = "Sending"
        PROVE  chain'[loc'[d].att].lastAt = loc'[d].bnow
    <3>1. pc[d] \in AfterBarrier /\ loc'[d] = loc[d]
      BY <2>6, <2>8 DEF OthersIdle
    <3>2. PICK b \in Attempts : b = loc[d].att /\ chain[b].tail \in {"Sending", "Unknown"}
      BY <3>1, OwnerFacts DEF IInv, CallOK, CallAt, Owners
    <3>3. chain'[b].tail = "Sending"
      BY <2>8, <3>1, <3>2
    <3>4. chain'[b] = chain[b]
      BY <3>2, <3>3 DEF JournalStep, RowStep
    <3> QED  BY <3>1, <3>2, <3>3, <3>4 DEF Dated
  <2>9. Dated'
    BY <2>1, <2>5, <2>6, <2>8 DEF Dated
  <2> QED  BY <2>7, <2>9 DEF DatesKept
<1> QED  BY <1>2, <1>3 DEF CommitSending

\* The owner's terminal event carries the date of its Sending.
LEMMA MarkDates ==
  ASSUME IInv, Dated, NEW c \in Calls, MarkRaised(c) \/ MarkTerminal(c), JournalStep(c)
  PROVE  DatesKept
<1>1. pc[c] \in AfterBarrier
  BY DEF MarkRaised, MarkTerminal, AfterBarrier
<1>2. PICK a \in Attempts : a = loc[c].att /\ loc[c].bnow \in Times /\ TypeOK
  BY <1>1, OwnerFacts DEF IInv, Owners
<1>3. Moved(c)
  BY <1>2, MovedBy DEF MarkRaised, MarkTerminal, AppendOrRaise
<1>4. CASE chain' = chain
  BY <1>3, <1>4, KeptDates DEF SendingKept
<1>5. ASSUME NEW type \in Tails, Append(a, type, loc[c].bnow) PROVE DatesKept
  <2>1. /\ chain'[a].lastAt = loc[c].bnow
        /\ \A b \in Attempts \ {a} : chain'[b] = chain[b]
    BY <1>2, <1>5, AppendFacts
  <2>2. chain[a].tail = "Sending" => chain[a].lastAt = loc[c].bnow
    BY <1>1, <1>2 DEF Dated
  <2>3. NotBackdated
    BY <2>1, <2>2, TimesAreNumbers DEF NotBackdated
  <2> QED  BY <1>3, <2>3, StaysDated DEF DatesKept
<1>6. \/ chain' = chain
      \/ Append(a, "Unknown", loc[c].bnow)
      \/ Append(a, "Sent", loc[c].bnow)
  BY <1>2 DEF MarkRaised, MarkTerminal, AppendOrRaise, NoAppend, jvars
<1>7. "Unknown" \in Tails /\ "Sent" \in Tails
  BY DEF Tails, Terminal
<1> QED  BY <1>4, <1>5, <1>6, <1>7

\* Recovery dates Unknown with the later of the two clocks.
LEMMA ResolveDates ==
  ASSUME IInv, Dated, NEW c \in Calls, ResolveSending(c), JournalStep(c)
  PROVE  DatesKept
<1>1. PICK a \in Attempts : a = loc[c].rec /\ TypeOK
  BY DEF ResolveSending, IInv, CallOK, CallAt
<1>2. Moved(c)
  BY <1>1, MovedBy DEF ResolveSending
<1>3. CASE chain' = chain
  BY <1>2, <1>3, KeptDates DEF SendingKept
<1>4. CASE Append(a, "Unknown", LaterOf(chain[a].lastAt, loc[c].now))
  <2>1. loc[c].now \in Times /\ chain[a].lastAt \in Times
    BY <1>1 DEF TypeOK, Locals, Rows
  <2>2. Times \subseteq Nat
    BY ConstantsAssumption DEF Times
  <2>3. PICK t \in Times : t = LaterOf(chain[a].lastAt, loc[c].now) /\ t >= chain[a].lastAt
    <3>1. PICK x \in Nat, y \in Nat : x = chain[a].lastAt /\ y = loc[c].now
      BY <2>1, <2>2
    <3>2. LaterOf(x, y) \in {x, y} /\ LaterOf(x, y) >= x
      BY DEF LaterOf
    <3> QED  BY <2>1, <3>1, <3>2
  <2>4. "Unknown" \in Tails
    BY DEF Tails, Terminal
  <2>5. /\ chain'[a].lastAt = t
        /\ \A b \in Attempts \ {a} : chain'[b] = chain[b]
    BY <1>1, <1>4, <2>3, <2>4, AppendFacts
  <2>6. NotBackdated
    BY <2>3, <2>5, TimesAreNumbers DEF NotBackdated
  <2> QED  BY <1>2, <2>6, StaysDated DEF DatesKept
<1> QED  BY <1>1, <1>3, <1>4 DEF ResolveSending, NoAppend, jvars

LEMMA NextDates ==
  ASSUME IInv, Dated, [Next]_vars
  PROVE  DatesKept
<1>1. ASSUME NEW c \in Calls, Step(c) PROVE JournalStep(c)
  BY <1>1, CallStepOK DEF Preserved
<1>2. ASSUME NEW c \in Calls, BeginAny(c) \/ Crash(c) PROVE DatesKept
  <2>1. JournalStep(c)
    BY <1>2, BeginOK, CrashOK DEF Preserved
  <2> QED  BY <1>2, <2>1, QuietKeeps, KeptDates
<1>3. ASSUME NEW c \in Calls, Step(c) PROVE DatesKept
  <2>1. JournalStep(c)
    BY <1>1, <1>3
  <2>2. CASE MarkRaised(c) \/ MarkTerminal(c)
    BY <2>1, <2>2, MarkDates
  <2>3. CASE ResolveSending(c)
    BY <2>1, <2>3, ResolveDates
  <2>4. CASE CommitSending(c)
    BY <2>1, <2>4, CommitDates
  <2>5. CASE ~(MarkRaised(c) \/ MarkTerminal(c) \/ ResolveSending(c) \/ CommitSending(c))
    <3>1. Moved(c) /\ SendingKept
      BY <1>3, <2>5, QuietKeeps, EarlyKeeps DEF Step
    <3> QED  BY <2>1, <3>1, KeptDates
  <2> QED  BY <2>2, <2>3, <2>4, <2>5
<1>4. CASE ForeignAppend \/ UNCHANGED vars
  <2>1. chain' = chain /\ pc' = pc /\ loc' = loc
    BY <1>4 DEF ForeignAppend, vars
  <2> QED  BY <2>1, TimesAreNumbers DEF DatesKept, Dated, NotBackdated
<1> QED  BY <1>2, <1>3, <1>4 DEF Next

\* A terminal event that resolves Sending is not dated before it, for any
\* number of processes whose clocks are set in any way.
THEOREM ResolutionsDated == Spec => ResolutionNotBackdated
<1>1. Init => Dated
  BY DEF Init, Dated, AfterBarrier
<1>2. IInv /\ Dated /\ [Next]_vars => Dated'
  BY NextDates DEF DatesKept
<1>3. IInv /\ Dated /\ [Next]_vars => [NotBackdated]_vars
  BY NextDates DEF DatesKept
<1> QED
  BY <1>1, <1>2, <1>3, Invariance, PTL DEF Spec, ResolutionNotBackdated, NotBackdated

=============================================================================
