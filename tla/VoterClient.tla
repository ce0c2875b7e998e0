---------------------------- MODULE VoterClient ----------------------------
(***************************************************************************)
(* The voters' page (apps/web), open in several browser tabs, in front of  *)
(* the election that BallotBox describes.                                  *)
(*                                                                         *)
(* A tab keeps everything in memory: the election as it was when the page  *)
(* was loaded, the step it shows, the session.  A reload forgets it all.   *)
(* Every request may fail before or after the server has acted on it, and  *)
(* the page cannot tell; what it sends again may overtake what it sent     *)
(* before.  Requests that change nothing in the box are one action; the    *)
(* ballot is sent, committed and answered in three.  SignIn models how a   *)
(* session is earned.                                                      *)
(***************************************************************************)
EXTENDS BallotBox

CONSTANTS
  Tabs,           \* browser tabs that voters have open
  IDENTITY_MODE,  \* off, optional or required
  ELECTION_ID,    \* whether the page was built for one election
  NoVoter, NoPick

ASSUME TabsAssumption == IsFiniteSet(Tabs)

VARIABLES
  tab,      \* what each tab holds in memory
  orphan,   \* ballots sent by tabs that no longer wait for the answer
  receipts  \* history: how often each voter was shown the final screen

voterVars == <<tab, orphan, receipts>>

Steps == {"blank", "identify", "idcheck", "otp", "ballot", "confirm", "done"}

NewTab == [step |-> "blank", candidates |-> {}, methods |-> FALSE, tx |-> FALSE,
           picked |-> NoPick, token |-> NoVoter, sent |-> <<>>, cast |-> FALSE]

VoterInit ==
  /\ tab = [t \in Tabs |-> NewTab]
  /\ orphan = {}
  /\ receipts = [v \in Voters |-> 0]

(* The request of the page in flight disables its buttons.                 *)
busy(t) == tab[t].sent # <<>>

At(t, step) == tab[t].step = step /\ ~busy(t)

OnlyTab == UNCHANGED <<boxVars, orphan, receipts>>

(* ELECTION_ID names the election; otherwise the server tells which one is *)
(* open.                                                                   *)
Found == ELECTION_ID \/ stage = "OPEN"

LoadElection(t) ==
  /\ At(t, "blank") /\ Found
  /\ tab' = [tab EXCEPT ![t].step = "identify", ![t].candidates = listed]
  /\ OnlyTab

(* The two requests of the first render are independent, and if this one   *)
(* fails the page goes on with its defaults.                               *)
LoadMethods(t) ==
  /\ ~tab[t].methods
  /\ tab' = [tab EXCEPT ![t].methods = TRUE]
  /\ OnlyTab

IdentityOffered(t) == tab[t].methods /\ IDENTITY_MODE # "off"
OtpOffered(t)      == tab[t].methods => IDENTITY_MODE # "required"

IdentityBegin(t) ==
  /\ At(t, "identify") /\ IdentityOffered(t) /\ stage = "OPEN"
  /\ tab' = [tab EXCEPT ![t].step = "idcheck", ![t].tx = TRUE]
  /\ OnlyTab

(* The server has the last word on whether codes may be used.              *)
RequestOtp(t) ==
  /\ At(t, "identify") /\ OtpOffered(t)
  /\ IDENTITY_MODE # "required" /\ stage = "OPEN"
  /\ tab' = [tab EXCEPT ![t].step = "otp"]
  /\ OnlyTab

Authenticated(t, v) ==
  /\ v \in roll \ voted
  /\ tab' = [tab EXCEPT ![t].step = "ballot", ![t].token = v, ![t].tx = FALSE]
  /\ OnlyTab

IdentityComplete(t, v) == At(t, "idcheck") /\ tab[t].tx /\ Authenticated(t, v)

(* A transaction serves once: after a refusal the page still holds its id, *)
(* but the server no longer knows it.                                      *)
IdentityRefused(t) ==
  /\ At(t, "idcheck") /\ tab[t].tx
  /\ tab' = [tab EXCEPT ![t].tx = FALSE]
  /\ OnlyTab

VerifyOtp(t, v) == At(t, "otp") /\ Authenticated(t, v)

setPicked(t, choice) ==
  /\ tab[t].step = "ballot"
  /\ choice \in tab[t].candidates \cup {Abstain}
  /\ tab' = [tab EXCEPT ![t].picked = choice]
  /\ OnlyTab

Chosen(t) ==
  /\ At(t, "ballot") /\ tab[t].picked # NoPick
  /\ tab' = [tab EXCEPT ![t].step = "confirm"]
  /\ OnlyTab

ChooseAgainAnyTime(t) ==   \* a button that is not disabled
  /\ tab[t].step = "confirm"
  /\ tab' = [tab EXCEPT ![t].step = "ballot"]
  /\ OnlyTab

ChooseAgain(t) ==
  /\ At(t, "confirm")
  /\ tab' = [tab EXCEPT ![t].step = "ballot"]
  /\ OnlyTab

(* The ballot is sealed with what is picked now, and sent.                 *)
Submit(t) ==
  /\ At(t, "confirm")
  /\ tab' = [tab EXCEPT ![t].sent = <<tab[t].token, tab[t].picked>>]
  /\ OnlyTab

Cast(t) ==
  /\ busy(t) /\ ~tab[t].cast
  /\ Vote(tab[t].sent[1], tab[t].sent[2])
  /\ tab' = [tab EXCEPT ![t].cast = TRUE]
  /\ UNCHANGED <<orphan, receipts>>

Receipt(t) ==
  /\ tab[t].cast
  /\ tab' = [tab EXCEPT ![t].step = "done", ![t].token = NoVoter,
                        ![t].sent = <<>>, ![t].cast = FALSE]
  /\ receipts' = [receipts EXCEPT ![tab[t].sent[1]] = @ + 1]
  /\ UNCHANGED <<boxVars, orphan>>

(* Nobody waits for the answer any more; a ballot on its way may be lost   *)
(* or may still arrive.                                                    *)
Abandoned(t) == IF busy(t) /\ ~tab[t].cast THEN {tab[t].sent} ELSE {}

Abandon(t) ==
  /\ orphan' \in {orphan, orphan \cup Abandoned(t)}
  /\ UNCHANGED <<boxVars, receipts>>

(* The server refused, or the connection broke: the page stays where it is *)
(* with a message, whatever became of the ballot.                          *)
SubmitFails(t) ==
  /\ busy(t)
  /\ tab' = [tab EXCEPT ![t].sent = <<>>, ![t].cast = FALSE]
  /\ Abandon(t)

Reload(t) ==
  /\ tab[t].step # "blank"
  /\ tab' = [tab EXCEPT ![t] = NewTab]
  /\ Abandon(t)

OrphanCast(o) ==
  /\ Vote(o[1], o[2])
  /\ orphan' = orphan \ {o}
  /\ UNCHANGED <<tab, receipts>>

VoterNext ==
  \/ \E t \in Tabs :
       \/ LoadElection(t) \/ LoadMethods(t) \/ IdentityBegin(t) \/ RequestOtp(t)
       \/ \E v \in Voters : IdentityComplete(t, v) \/ VerifyOtp(t, v)
       \/ IdentityRefused(t)
       \/ \E choice \in Choices : setPicked(t, choice)
       \/ Chosen(t) \/ ChooseAgain(t) \/ Submit(t) \/ Cast(t) \/ Receipt(t)
       \/ SubmitFails(t) \/ Reload(t)
  \/ \E o \in orphan : OrphanCast(o)
---------------------------------------------------------------------------
(* Properties                                                              *)

Shows(choice) == {t \in Tabs : tab[t].step = "done" /\ tab[t].picked = choice}

(* The final screen tells the truth: for every choice the box holds a      *)
(* ballot for each tab that confirmed that choice and shows the final      *)
(* screen, although the choice lives on in the page while the ballot is    *)
(* being sent and earlier attempts may still arrive (App.tsx).             *)
DoneIsBoxed ==
  \A choice \in Choices :
    Cardinality(Shows(choice)) <= Cardinality({b \in box : b.vote = choice})

(* A voter who signs in on two tabs, reloads, or sends the ballot again    *)
(* after a failure gets one receipt at most, and only after having voted.  *)
OneReceipt ==
  \A v \in Voters : receipts[v] <= 1 /\ (receipts[v] = 1 => v \in voted)
---------------------------------------------------------------------------
(* The inductive invariant behind them.                                    *)

Sent == {<<>>} \cup (Voters \X Choices)

Tab == [step : Steps, candidates : SUBSET CandidateIds, methods : BOOLEAN, tx : BOOLEAN,
        picked : Choices \cup {NoPick}, token : Voters \cup {NoVoter}, sent : Sent, cast : BOOLEAN]

(* A ballot is sent from the page on which its choice was confirmed, and   *)
(* the choice stays on that page while it is.                              *)
TabSound(l) ==
  /\ l.step \in {"ballot", "confirm"} => l.token \in Voters
  /\ l.step = "confirm" => l.picked \in Choices
  /\ l.cast => l.sent # <<>>
  /\ l.sent # <<>> => l.step = "confirm" /\ l.sent[2] = l.picked

(* The tabs that may say what became of a ballot of theirs.                *)
Claims(choice) ==
  {t \in Tabs : (tab[t].cast \/ tab[t].step = "done") /\ tab[t].picked = choice}

(* A voter whose ballot is in the box waits for the answer in one tab, or  *)
(* has had it, or never will.                                              *)
ReceiptsSound ==
  /\ \A t \in Tabs : tab[t].cast =>
       tab[t].sent[1] \in voted /\ receipts[tab[t].sent[1]] = 0
  /\ \A t, u \in Tabs : tab[t].cast /\ tab[u].cast /\ tab[t].sent[1] = tab[u].sent[1] => t = u

VoterInv ==
  /\ tab \in [Tabs -> Tab] /\ receipts \in [Voters -> Nat]
  /\ orphan \subseteq Voters \X Choices
  /\ \A t \in Tabs : TabSound(tab[t])
  /\ \A choice \in Choices : Cardinality(Claims(choice)) <= Ballots(choice)
  /\ ReceiptsSound /\ OneReceipt
===========================================================================
