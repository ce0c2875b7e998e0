---------------------------- MODULE AdminClient ----------------------------
(***************************************************************************)
(* The admins' page (apps/admin) in one browser tab, in front of the       *)
(* election that BallotBox describes and in front of other admins.         *)
(*                                                                         *)
(* The page shows what the last overview said; the server may be ahead.    *)
(* The session token is a module variable, while a request remembers the   *)
(* one it was sent with.  A request whose component has gone (stray) still *)
(* ends in request(), which throws the admin out on a 401.  AdminAuth      *)
(* models how a session is earned.                                         *)
(***************************************************************************)
EXTENDS BallotBox

CONSTANTS
  Me,          \* the admin at this page
  MaxSessions, \* bound: how often the admin logs in
  NoSession

ASSUME MeAssumption == Me \in Admins

(* A row whose candidate has gone has no name, which is no candidate's id. *)
ASSUME NamesAssumption == Abstain \notin CandidateIds

VARIABLES
  screen,    \* the component that is mounted, and its stage
  token,     \* the session token in memory
  last,      \* history: the last session this page was given
  sessions,  \* server: the sessions that are valid
  expired,   \* the banner that says the session has expired
  own,       \* the request the component waits for
  stray,     \* the tokens of requests whose component has gone
  ov,        \* the overview the page shows
  shown,     \* the results the page shows
  modal      \* the action to be confirmed

adminVars == <<screen, token, last, sessions, expired, own, stray, ov, shown, modal>>

LoginScreens == {"password", "enroll", "totp"}
None         == <<>>

AdminInit ==
  /\ screen = "password" /\ token = NoSession /\ last = 0 /\ sessions = {}
  /\ expired = FALSE
  /\ own = None /\ stray = {} /\ ov = None /\ shown = None /\ modal = "none"

Session == <<token, last, sessions, expired>>
Page    == <<ov, shown, modal>>

(* busy, or waiting for the first overview                                 *)
Waiting     == own # None
On(s)       == screen = s /\ ~Waiting
Outstanding == IF Waiting THEN {own.auth} ELSE {}
---------------------------------------------------------------------------
(* Login.tsx                                                               *)

(* The password is right, and the account may have no TOTP yet.  A failure *)
(* of the second request of that case leaves the first screen on.          *)
Login ==
  /\ screen = "password"
  /\ screen' \in {"totp", "enroll"}
  /\ UNCHANGED <<boxVars, Session, own, stray, Page>>

Enrolled ==
  /\ screen = "enroll"
  /\ screen' = "totp"
  /\ UNCHANGED <<boxVars, Session, own, stray, Page>>

LoggedIn ==
  /\ screen = "totp" /\ last < MaxSessions
  /\ token' = last + 1 /\ last' = last + 1 /\ sessions' = sessions \cup {last + 1}
  /\ expired' = FALSE
  /\ screen' = "list"
  /\ own' = [op |-> "list", auth |-> last + 1, answer |-> "none"]
  /\ UNCHANGED <<boxVars, stray, Page>>

(* Thirty minutes pass, or the account is disabled.                        *)
SessionEnds(s) ==
  /\ sessions' = sessions \ {s}
  /\ UNCHANGED <<boxVars, screen, token, last, expired, own, stray, Page>>

(* What is mounted goes, and the request it waits for becomes a stray.     *)
Unmount ==
  /\ stray' = stray \cup Outstanding
  /\ ov' = None /\ shown' = None /\ modal' = "none"

Logout ==
  /\ screen \notin LoginScreens
  /\ token' = NoSession
  /\ screen' = "password"
  /\ own' = None
  /\ Unmount
  /\ UNCHANGED <<boxVars, last, sessions, expired>>

(* auth === token && token !== null, and the comparison forgotten          *)
ThrowsOutAny(auth) == token # NoSession

ThrowsOut(auth) == auth = token /\ token # NoSession

ThrownOut ==
  /\ token' = NoSession /\ expired' = TRUE
  /\ screen' = "password"
  /\ UNCHANGED <<boxVars, last, sessions>>

(* The answer to a stray concerns nobody, unless it is a 401.  One to an   *)
(* action may be followed by a load, with the token of the day.            *)
StrayEnds(auth) ==
  /\ auth \in stray
  /\ IF auth \notin sessions /\ ThrowsOut(auth)
       THEN /\ ThrownOut
            /\ own' = None
            /\ stray' = (stray \ {auth}) \cup Outstanding
            /\ ov' = None /\ shown' = None /\ modal' = "none"
       ELSE /\ stray' \in {stray \ {auth},
                           (stray \ {auth}) \cup ({token} \ {NoSession})}
            /\ UNCHANGED <<boxVars, screen, Session, own, Page>>
---------------------------------------------------------------------------
(* App.tsx, Elections.tsx and CreateElection.tsx                           *)

Overview == [op |-> "overview", auth |-> token, status |-> None, voted |-> None,
             ballots |-> None, before |-> 0]
Act(op)  == [op |-> op, auth |-> token, answer |-> "none"]

Send(request) ==
  /\ own' = request
  /\ UNCHANGED <<boxVars, screen, Session, stray, Page>>

ListEnds ==
  /\ screen = "list" /\ Waiting
  /\ screen' \in {"list", "nolist"}   \* rows, or a message
  /\ own' = None
  /\ UNCHANGED <<boxVars, Session, stray, Page>>

(* A row of the list, or the end of CreateElection, once the box that says *)
(* the key was kept is ticked.  The new page loads its overview.           *)
OpenDetail ==
  /\ On("list") \/ On("key")
  /\ screen' = "detail"
  /\ own' = Overview
  /\ UNCHANGED <<boxVars, Session, stray, Page>>

Back ==
  /\ screen \in {"detail", "create"}
  /\ screen' = "list"
  /\ own' = Act("list")
  /\ Unmount
  /\ UNCHANGED <<boxVars, Session>>

NewElection ==
  /\ screen \in {"list", "nolist"}
  /\ screen' = "create"
  /\ own' = None
  /\ Unmount
  /\ UNCHANGED <<boxVars, Session>>

SubmitElection == On("create") /\ Send(Act("create"))

(* Another election exists from now on, and its key is on this screen and  *)
(* nowhere else.                                                           *)
Created ==
  /\ screen = "create" /\ Waiting /\ own.auth \in sessions
  /\ screen' = "key"
  /\ own' = None
  /\ UNCHANGED <<boxVars, Session, stray, Page>>
---------------------------------------------------------------------------
(* electionOverview reads the election first, then counts.                 *)

ReadStatus ==
  /\ Waiting /\ own.op = "overview" /\ own.status = None
  /\ own.auth \in sessions
  /\ own' = [own EXCEPT !.status = <<stage>>, !.before = Cardinality(box)]
  /\ UNCHANGED <<boxVars, screen, Session, stray, Page>>

VotedCountAll == Cardinality(roll)   \* without hasVoted: true

VotedCount == Cardinality(voted)

ReadCounts ==
  /\ Waiting /\ own.op = "overview" /\ own.status # None
  /\ \/ own.voted = None   /\ own' = [own EXCEPT !.voted = <<VotedCount>>]
     \/ own.ballots = None /\ own' = [own EXCEPT !.ballots = <<Cardinality(box)>>]
  /\ UNCHANGED <<boxVars, screen, Session, stray, Page>>

(* load: a tallied election has results to be fetched.                     *)
OverviewShown ==
  /\ Waiting /\ own.op = "overview" /\ own.voted # None /\ own.ballots # None
  /\ ov' = <<[status |-> own.status[1], voted |-> own.voted[1], ballots |-> own.ballots[1],
              before |-> own.before, after |-> Cardinality(box)]>>
  /\ own' = IF own.status[1] = "TALLIED"
              THEN [op |-> "results", auth |-> token, invalid |-> None, candidates |-> None,
                    rows |-> None]
              ELSE None
  /\ UNCHANGED <<boxVars, screen, Session, stray, shown, modal>>

matched == ov # None /\ ov[1].voted = ov[1].ballots
---------------------------------------------------------------------------
(* getResults reads the election, then the candidates and the rows.        *)

ReadResults ==
  /\ Waiting /\ own.op = "results"
  /\ \/ own.invalid = None /\ stage = "TALLIED" /\ own' = [own EXCEPT !.invalid = <<invalid>>]
     \/ /\ own.invalid # None
        /\ \/ own.candidates = None /\ own' = [own EXCEPT !.candidates = <<listed>>]
           \/ own.rows = None       /\ own' = [own EXCEPT !.rows = <<results>>]
  /\ UNCHANGED <<boxVars, screen, Session, stray, Page>>

(* Each candidate gets the votes of its row.                               *)
ResultsShown ==
  /\ Waiting /\ own.op = "results" /\ own.candidates # None /\ own.rows # None
  /\ shown' = <<[c \in own.candidates[1] |->
                   {row.votes : row \in {x \in own.rows[1] : x.candidateId = c}}]>>
  /\ own' = None
  /\ UNCHANGED <<boxVars, screen, Session, stray, ov, modal>>
---------------------------------------------------------------------------
(* The buttons of ElectionDetail.tsx                                       *)

Showing(status) == On("detail") /\ ov # None /\ ov[1].status = status

(* Opening is offered once the overview counted voters; there are at least *)
(* as many by now.                                                         *)
Ask(action) ==
  /\ Showing(IF action = "open" THEN "DRAFT" ELSE "OPEN")
  /\ action = "open" => roll # {}
  /\ modal' = action
  /\ UNCHANGED <<boxVars, screen, Session, own, stray, ov, shown>>

Cancel ==
  /\ modal # "none"
  /\ modal' = "none"
  /\ UNCHANGED <<boxVars, screen, Session, own, stray, ov, shown>>

Confirm ==
  /\ modal # "none" /\ ~Waiting
  /\ modal' = "none"
  /\ own' = Act(modal)
  /\ UNCHANGED <<boxVars, screen, Session, stray, ov, shown>>

UploadRoster == Showing("DRAFT") /\ Send(Act("roster"))

ApproveTally == Showing("CLOSED") /\ matched /\ Send(Act("tally"))

(* The server carries the action out, if it may.                           *)
Serving(op, answer) == Waiting /\ own.op = op /\ own.answer = answer
Answer(answer) ==
  /\ own' = [own EXCEPT !.answer = answer]
  /\ UNCHANGED <<screen, Session, stray, Page>>

ServeAction ==
  \/ /\ Waiting /\ own.auth \in sessions
     /\ \/ Serving("open", "none") /\ Open /\ Answer("ok")
        \/ Serving("close", "none") /\ Close /\ Answer("ok")
        \/ Serving("roster", "none") /\ Register /\ Answer("ok")
        \/ Serving("tally", "none") /\ Approve(Me)
             /\ Answer(IF Cardinality(approved') < Quorum THEN "ok" ELSE "counting")
  \/ Serving("tally", "counting") /\ Publish(Me) /\ Answer("ok")

(* act: only an action that succeeded is followed by a load.               *)
ActionEnds ==
  /\ screen = "detail" /\ Waiting /\ own.op \notin {"overview", "results"}
  /\ own.answer = "ok"
  /\ Send(Overview)

(* Refused by the server, or lost on the way there or back: the page shows *)
(* a message over what it knew before.                                     *)
OwnFails ==
  /\ screen \in {"create", "detail"} /\ Waiting
  /\ Send(None)

OwnUnauthorized ==
  /\ Waiting /\ own.op # "results"
  /\ own.auth \notin sessions /\ ThrowsOut(own.auth)
  /\ ThrownOut
  /\ own' = None /\ stray' = stray
  /\ ov' = None /\ shown' = None /\ modal' = "none"

AdminNext ==
  \/ Login \/ Enrolled \/ LoggedIn \/ Logout
  \/ \E s \in sessions : SessionEnds(s)
  \/ \E auth \in stray : StrayEnds(auth)
  \/ ListEnds \/ OpenDetail \/ Back \/ NewElection \/ SubmitElection \/ Created
  \/ ReadStatus \/ ReadCounts \/ OverviewShown \/ ReadResults \/ ResultsShown
  \/ Ask("open") \/ Ask("close") \/ Cancel \/ Confirm \/ UploadRoster \/ ApproveTally
  \/ ServeAction \/ ActionEnds \/ OwnFails \/ OwnUnauthorized
---------------------------------------------------------------------------
(* Properties                                                              *)

(* "The session has expired" is said of the session the admin just had,    *)
(* and only when the server has really ended it: the late 401 of an        *)
(* earlier session does not end the present one (lib/api.ts).              *)
ExpiredIsTrue == expired => last \notin sessions

(* The alarm about ballots and voters that do not match is raised only if  *)
(* votes were cast while the overview was being read.                      *)
AlarmOnlyByRace == ov # None /\ ~matched => ov[1].before < ov[1].after

(* No candidate is shown more votes than the box holds.                    *)
VotesBacked ==
  shown # None =>
    \A c \in DOMAIN shown[1] : \A n \in shown[1][c] :
      n <= Cardinality({b \in box : b.vote = c})

(* The numbers on the page are numbers of the box, although they are read  *)
(* by separate queries while votes arrive, the list is replaced and other  *)
(* admins open, close and count (electionOverview and getResults).         *)
NumbersTrue == AlarmOnlyByRace /\ VotesBacked
---------------------------------------------------------------------------
(* The inductive invariant behind them.                                    *)

Tokens   == Nat \cup {NoSession}
Maybe(S) == {None} \cup [1..1 -> S]

OverviewReq == [op : {"overview"}, auth : Tokens, status : Maybe(Stages), voted : Maybe(Nat),
                ballots : Maybe(Nat), before : Nat]
ResultsReq  == [op : {"results"}, auth : Tokens, invalid : Maybe(Nat),
                candidates : Maybe(SUBSET CandidateIds), rows : Maybe(SUBSET ResultRows)]
ActionReq   == [op : {"list", "create", "open", "close", "roster", "tally"}, auth : Tokens,
                answer : {"none", "ok", "counting"}]

(* The election was read first: what was counted since is between what was *)
(* in the box then and what is in it now.                                  *)
Counted(n, before) == n # None => before <= n[1] /\ n[1] <= Cardinality(box)

OverviewSound(l) ==
  /\ l.status # None => l.before <= Cardinality(box)
  /\ l.status = None => l.voted = None /\ l.ballots = None
  /\ Counted(l.voted, l.before) /\ Counted(l.ballots, l.before)

OwnSound(l) ==
  /\ l \in {None} \cup OverviewReq \cup ResultsReq \cup ActionReq
  /\ l \in OverviewReq => OverviewSound(l)
  /\ l \in ResultsReq /\ l.rows # None => RowsBacked(l.rows[1])

AdminInv ==
  /\ last \in Nat /\ token \in {last, NoSession}
  /\ modal \in {"none", "open", "close"}
  /\ OwnSound(own)
  /\ ov # None => {ov[1].voted, ov[1].ballots, ov[1].before, ov[1].after} \subseteq Nat
  /\ shown # None => \A c \in DOMAIN shown[1] : shown[1][c] \subseteq Nat
  /\ ExpiredIsTrue /\ NumbersTrue
===========================================================================
