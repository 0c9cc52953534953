--------------------------- MODULE IntentSubmission ---------------------------
(***************************************************************************)
(* What the dispatcher promises about one economic intent, without         *)
(* attempts, processes or a journal: it is committed to the wire at most   *)
(* once, the provider sees at most one request and only after the commit,  *)
(* and the verdict, once given, stands. A request may still leave after    *)
(* the verdict UNKNOWN: that verdict does not say that nothing was sent.   *)
(***************************************************************************)
EXTENDS Naturals

CONSTANT Intents

VARIABLES
  verdict,   \* intent -> how far its submission is known to have got
  sends      \* intent -> requests the provider has received

avars == <<verdict, sends>>

Verdicts == {"open", "committed", "sent", "unknown"}

AInit ==
  /\ verdict = [i \in Intents |-> "open"]
  /\ sends = [i \in Intents |-> 0]

ACommit(i) ==
  /\ verdict[i] = "open"
  /\ verdict' = [verdict EXCEPT ![i] = "committed"]
  /\ UNCHANGED sends

ASend(i) ==
  /\ verdict[i] \in {"committed", "unknown"}
  /\ sends[i] = 0
  /\ sends' = [sends EXCEPT ![i] = 1]
  /\ UNCHANGED verdict

AConfirm(i) ==
  /\ verdict[i] = "committed"
  /\ sends[i] = 1
  /\ verdict' = [verdict EXCEPT ![i] = "sent"]
  /\ UNCHANGED sends

AGiveUp(i) ==
  /\ verdict[i] = "committed"
  /\ verdict' = [verdict EXCEPT ![i] = "unknown"]
  /\ UNCHANGED sends

ANext == \E i \in Intents : ACommit(i) \/ ASend(i) \/ AConfirm(i) \/ AGiveUp(i)

ASpec == AInit /\ [][ANext]_avars

=============================================================================
