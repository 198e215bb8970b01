---------------------------- MODULE AdminProofs ----------------------------
(***************************************************************************)
(* Theorems about Admin, for any number of operators, requests, commands   *)
(* and sources, and any number of restarts.                                *)
(***************************************************************************)
EXTENDS Admin, FiniteSetTheorems, TLAPS

USE AdminAssumption

-----------------------------------------------------------------------------
(* Types, and what a request has when it is somewhere: an operator who makes it, a
   form if it waited for one, something to tell if it tells. *)

Ready(r) ==
    /\ r.pc = "await" => r.form \in Form
    /\ r.pc \notin {"new", "done"} => r.user \in Users
    /\ r.pc = "session" => r.kind = "login"
    /\ r.pc \in {"await", "act", "queue"} => r.kind # "login"
    /\ r.pc = "audit" /\ r.kind # "login" => r.action \in Change
    /\ r.pc \in {"await", "act"} => r.source \in Sources
    /\ r.changed # Nothing => r.source \in Sources
RequestsTyped ==
    /\ request \in [Requests -> RequestState]
    /\ \A q \in Requests : Ready(request[q])
RowsTyped ==
    /\ sources \in [Sources -> Row \cup {None}]
    /\ jobs \subseteq {s \in Sources : sources[s] # None}
OthersTyped ==
    /\ password \in [Users -> Setters \cup {None}]
    /\ sessions \subseteq Requests
    /\ cookies \subseteq Requests
    /\ command \in [Commands -> CommandState]
    /\ server \in {"off", "put", "audit", "up"}
    /\ loop \in Requests \cup {None}
    /\ restarts \in 0..MaxRestarts
    /\ unaudited \subseteq Sources
    /\ known \in [Setters -> SUBSET Users]
LogTyped == auditLog \in Seq(Event)

TypeInv == RequestsTyped /\ RowsTyped /\ OthersTyped /\ LogTyped

LEMMA NothingTyped == Nothing \in Changed
  BY DEF Nothing, Changed

LEMMA NewTyped ==
    NewRequest \in RequestState /\ NewRequest.pc = "new" /\ NewRequest.changed = Nothing
  BY NothingTyped DEF NewRequest, RequestState

LEMMA TypeInit == Init => TypeInv
<1> SUFFICES ASSUME Init PROVE TypeInv
  OBVIOUS
<1>1. RequestsTyped
  <2>1. Ready(NewRequest)
    BY NewTyped DEF Ready
  <2> QED
    BY <2>1, NewTyped DEF Init, RequestsTyped
<1>2. RowsTyped /\ LogTyped
  BY DEF Init, RowsTyped, LogTyped
<1>3. command \in [Commands -> CommandState]
  BY DEF Init, CommandState
<1>4. OthersTyped
  BY <1>3 DEF Init, OthersTyped
<1> QED
  BY <1>1, <1>2, <1>4 DEF TypeInv

(* A handler moves one request; what it writes there has the type. *)
Moves(q, r) == request' = [request EXCEPT ![q] = r] /\ r \in RequestState /\ Ready(r)

LEMMA Moved ==
    ASSUME RequestsTyped, NEW q \in Requests, NEW r, Moves(q, r)
    PROVE  RequestsTyped'
  BY DEF RequestsTyped, Moves

(* An answer leaves what a request is about, and the other requests, as they are. *)
LEMMA EndedFields ==
    \A r \in RequestState :
        /\ Ended(r).pc = "done" /\ Ended(r).kind = r.kind /\ Ended(r).user = r.user
        /\ Ended(r).source = r.source /\ Ended(r).changed = r.changed
        /\ Ended(r).action = r.action /\ Ended(r) \in RequestState
<1> SUFFICES ASSUME NEW r \in RequestState
             PROVE  /\ Ended(r).pc = "done" /\ Ended(r).kind = r.kind /\ Ended(r).user = r.user
                    /\ Ended(r).source = r.source /\ Ended(r).changed = r.changed
                    /\ Ended(r).action = r.action /\ Ended(r) \in RequestState
  OBVIOUS
<1>1. Ended(r) \in RequestState
  BY DEF Ended, RequestState
<1>2. /\ Ended(r).pc = "done" /\ Ended(r).kind = r.kind /\ Ended(r).user = r.user
      /\ Ended(r).source = r.source /\ Ended(r).changed = r.changed
      /\ Ended(r).action = r.action
  BY DEF Ended, RequestState
<1> QED
  BY <1>1, <1>2

LEMMA Answers ==
    ASSUME request \in [Requests -> RequestState], NEW q \in Requests, Answer(q)
    PROVE  /\ request'[q].pc = "done" /\ request'[q].kind = request[q].kind
           /\ request'[q].user = request[q].user /\ request'[q].source = request[q].source
           /\ request'[q].changed = request[q].changed
           /\ \A r \in Requests \ {q} : request'[r] = request[r]
<1>1. request[q] \in RequestState /\ request'[q] = Ended(request[q])
  BY DEF Answer
<1>2. \A r \in Requests \ {q} : request'[r] = request[r]
  BY DEF Answer
<1> QED
  BY <1>1, <1>2, EndedFields

LEMMA Answered ==
    ASSUME RequestsTyped, NEW q \in Requests, Answer(q)
    PROVE  RequestsTyped'
<1> DEFINE r == Ended(request[q])
<1>1. /\ r \in RequestState /\ r.pc = "done"
      /\ r.changed = request[q].changed /\ r.source = request[q].source
  BY EndedFields DEF RequestsTyped
<1>2. request' = [request EXCEPT ![q] = r]
  BY DEF Answer
<1> HIDE DEF r
<1>3. Ready(r)
  BY <1>1 DEF Ready, RequestsTyped
<1> QED
  BY <1>1, <1>2, <1>3, Moved DEF Moves

LEMMA Logged ==
    ASSUME LogTyped, NEW actor \in Users \cup {"system", "cli"},
           NEW action \in Change \cup {"login.failed", "login.succeeded", "operator.bootstrap",
                                       "add", "passwd"},
           NEW source \in Sources \cup {None}, NEW detail \in Changed,
           Audit(actor, action, source, detail)
    PROVE  LogTyped'
<1> DEFINE e == [actor |-> actor, action |-> action, source |-> source, detail |-> detail]
<1>1. e \in Event
  BY DEF Event
<1>2. auditLog' = Append(auditLog, e)
  BY DEF Audit
<1> HIDE DEF e
<1> QED
  BY <1>1, <1>2 DEF LogTyped

LEMMA LoginTyped ==
    ASSUME TypeInv, NEW q \in Requests, NEW u \in Users, NEW typed \in Setters,
           Login(q, u, typed)
    PROVE  RequestsTyped' /\ LogTyped'
<1> DEFINE in == [request[q] EXCEPT !.pc = "session", !.kind = "login", !.user = u]
           out == [request[q] EXCEPT !.pc = "done", !.kind = "login"]
<1>1. /\ in \in RequestState /\ in.pc = "session" /\ in.kind = "login" /\ in.user = u
      /\ out \in RequestState /\ out.pc = "done"
      /\ in.changed = request[q].changed /\ in.source = request[q].source
      /\ out.changed = request[q].changed /\ out.source = request[q].source
  <2>1. request[q] \in RequestState
    BY DEF TypeInv, RequestsTyped
  <2>2. in \in RequestState /\ in.pc = "session" /\ in.kind = "login" /\ in.user = u
    BY <2>1 DEF RequestState, Kind
  <2>3. in.changed = request[q].changed /\ in.source = request[q].source
    BY <2>1 DEF RequestState
  <2>4. out \in RequestState /\ out.pc = "done"
    BY <2>1 DEF RequestState, Kind
  <2>5. out.changed = request[q].changed /\ out.source = request[q].source
    BY <2>1 DEF RequestState
  <2> QED
    BY <2>2, <2>3, <2>4, <2>5
<1>2. \/ request' = [request EXCEPT ![q] = in] /\ UNCHANGED auditLog
      \/ request' = [request EXCEPT ![q] = out] /\ Audit(u, "login.failed", None, Nothing)
  BY DEF Login, TypeInv, RequestsTyped
<1> HIDE DEF in, out
<1>3. Ready(in) /\ Ready(out)
  BY <1>1 DEF Ready, TypeInv, RequestsTyped
<1>4. RequestsTyped'
  BY <1>1, <1>2, <1>3, Moved DEF TypeInv, Moves
<1>5. LogTyped'
  <2>1. CASE UNCHANGED auditLog
    BY <2>1 DEF TypeInv, LogTyped
  <2>2. CASE Audit(u, "login.failed", None, Nothing)
    BY <2>2, Logged, NothingTyped DEF TypeInv
  <2> QED
    BY <1>2, <2>1, <2>2
<1> QED
  BY <1>4, <1>5

LEMMA BeginTyped ==
    ASSUME TypeInv, NEW q \in Requests, NEW t \in Requests, NEW s \in Sources,
           NEW form \in Form \cup {None}, NEW kind \in Kind \ {"login"},
           Begin(q, t, kind, s, form)
    PROVE  RequestsTyped'
<1> DEFINE pc == IF kind \in {"create", "edit"} THEN "await" ELSE "act"
           r == [NewRequest EXCEPT !.pc = pc, !.kind = kind, !.user = CurrentOperator(t),
                                   !.source = s, !.existing = sources[s], !.form = form]
<1>1. CurrentOperator(t) \in Users
  BY DEF Begin, CurrentOperator, TypeInv, RequestsTyped, RequestState
<1>2. sources[s] \in Row \cup {None}
  BY DEF TypeInv, RowsTyped
<1>3. /\ r \in RequestState /\ r.pc = pc /\ r.form = form /\ r.kind = kind /\ r.source = s
      /\ r.user = CurrentOperator(t) /\ r.changed = Nothing
  <2> DEFINE user == CurrentOperator(t)
             existing == sources[s]
  <2>1. pc \in {"await", "act"}
    OBVIOUS
  <2> HIDE DEF pc, user, existing
  <2>2. r = [NewRequest EXCEPT !.pc = pc, !.kind = kind, !.user = user,
                               !.source = s, !.existing = existing, !.form = form]
    BY DEF user, existing
  <2>3. user \in Users /\ existing \in Row \cup {None}
    BY <1>1, <1>2 DEF user, existing
  <2> HIDE DEF r
  <2>4. r \in RequestState
    BY <2>1, <2>2, <2>3, NewTyped DEF RequestState
  <2>5. r.pc = pc /\ r.form = form /\ r.kind = kind /\ r.source = s /\ r.user = user
    BY <2>2, NewTyped DEF RequestState
  <2>6. r.changed = Nothing
    BY <2>2, NewTyped DEF RequestState
  <2> QED
    BY <2>4, <2>5, <2>6 DEF user
<1>4. request' = [request EXCEPT ![q] = r]
  BY DEF Begin, GetSource
<1> HIDE DEF r
<1>5. Ready(r)
  BY <1>1, <1>3 DEF Ready, Begin, Kind
<1> QED
  BY <1>3, <1>4, <1>5, Moved DEF TypeInv, Moves

LEMMA EditsWithin ==
    ASSUME NEW form \in Form, NEW existing, Usable(form)
    PROVE  EditFromForm(form, existing) \in Changed
  BY DEF Form, Usable, EditFromForm, Changed

LEMMA EditTyped ==
    ASSUME TypeInv, NEW q \in Requests, EditSource(q)
    PROVE  RequestsTyped' /\ RowsTyped'
<1> DEFINE changed == EditFromForm(request[q].form, request[q].existing)
           s == request[q].source
           r == [request[q] EXCEPT !.pc = "audit", !.changed = changed, !.action = "source.edited"]
<1>1. /\ request[q] \in RequestState /\ request[q].form \in Form
      /\ request[q].kind = "edit" /\ request[q].user \in Users /\ s \in Sources
  BY DEF EditSource, TypeInv, RequestsTyped, Ready
<1>2. CASE /\ Usable(request[q].form) /\ changed # Nothing
           /\ sources[s] # None /\ Storable(changed)
  <2>1. changed \in Changed
    BY <1>1, <1>2, EditsWithin
  <2>2. /\ request' = [request EXCEPT ![q] = r]
        /\ sources' = [sources EXCEPT ![s] = Overwrite(sources[s], changed)]
        /\ jobs' = jobs
    BY <1>2 DEF EditSource, TypeInv, RequestsTyped
  <2>3. sources[s] \in Row
    BY <1>1, <1>2 DEF TypeInv, RowsTyped
  <2>4. changed.channel \in Channels \cup {None}
    BY <1>2 DEF Storable
  <2> HIDE DEF changed
  <2>5. /\ r \in RequestState /\ r.pc = "audit" /\ r.user \in Users /\ r.action \in Change
        /\ r.source = s
    BY <1>1, <2>1 DEF RequestState, Change
  <2> HIDE DEF r
  <2>6. RequestsTyped'
    BY <1>1, <2>2, <2>5, Moved DEF TypeInv, Moves, Ready
  <2>7. Overwrite(sources[s], changed) \in Row
    BY <1>1, <2>1, <2>3, <2>4 DEF Overwrite, Row, Changed
  <2> QED
    BY <1>1, <2>2, <2>6, <2>7 DEF TypeInv, RowsTyped
<1>3. CASE Answer(q) /\ UNCHANGED <<sources, loop>>
  BY <1>3, Answered DEF EditSource, TypeInv, RowsTyped
<1> QED
  BY <1>2, <1>3 DEF EditSource

LEMMA CreateTyped ==
    ASSUME TypeInv, NEW q \in Requests, CreateSource(q)
    PROVE  RequestsTyped' /\ RowsTyped'
<1> DEFINE form == request[q].form
           s == request[q].source
           r == [request[q] EXCEPT !.pc = "audit", !.action = "source.added"]
<1>1. /\ request[q] \in RequestState /\ form \in Form /\ request[q].user \in Users
      /\ s \in Sources
  BY DEF CreateSource, TypeInv, RequestsTyped, Ready
<1>2. CASE /\ sources' = [sources EXCEPT ![s] = Registered(form)]
           /\ request' = [request EXCEPT ![q].pc = "audit", ![q].action = "source.added"]
  <2>1. request' = [request EXCEPT ![q] = r] /\ jobs' = jobs
    BY <1>2 DEF CreateSource, TypeInv, RequestsTyped
  <2>2. /\ r \in RequestState /\ r.pc = "audit" /\ r.user \in Users /\ r.action \in Change
        /\ r.source = s
    BY <1>1 DEF RequestState, Change
  <2>3. Registered(form) \in Row
    BY <1>1 DEF Registered, Row, Form
  <2> HIDE DEF r
  <2>4. RequestsTyped'
    BY <1>1, <2>1, <2>2, Moved DEF TypeInv, Moves, Ready
  <2> QED
    BY <1>2, <2>1, <2>3, <2>4 DEF TypeInv, RowsTyped
<1>3. CASE Answer(q) /\ UNCHANGED <<sources, loop>>
  BY <1>3, Answered DEF CreateSource, TypeInv, RowsTyped
<1> QED
  BY <1>2, <1>3 DEF CreateSource

LEMMA EnqueueTyped ==
    ASSUME RowsTyped, UNCHANGED sources, NEW s, Enqueue(s) \/ UNCHANGED jobs
    PROVE  RowsTyped'
  BY DEF RowsTyped, Enqueue

LEMMA ValidateTyped ==
    ASSUME TypeInv, NEW q \in Requests, ValidateCreated(q)
    PROVE  RequestsTyped' /\ RowsTyped'
<1>1. UNCHANGED sources /\ Enqueue(request[q].source) /\ Answer(q)
  BY DEF ValidateCreated
<1> QED
  BY <1>1, EnqueueTyped, Answered DEF TypeInv

(* The three ways on: to the audit with something to tell, from a state in which
   somebody makes the request. *)
LEMMA ToAudit ==
    ASSUME RequestsTyped, NEW q \in Requests, request[q].pc \notin {"new", "done"},
           NEW action \in Change,
           request' = [request EXCEPT ![q].pc = "audit", ![q].action = action]
    PROVE  RequestsTyped'
<1> DEFINE r == [request[q] EXCEPT !.pc = "audit", !.action = action]
<1>1. request[q] \in RequestState /\ request[q].user \in Users
  BY DEF RequestsTyped, Ready
<1>2. /\ r \in RequestState /\ r.pc = "audit" /\ r.user \in Users /\ r.action \in Change
      /\ r.source = request[q].source /\ r.changed = request[q].changed
  BY <1>1 DEF RequestState
<1>3. request' = [request EXCEPT ![q] = r]
  BY DEF RequestsTyped
<1> HIDE DEF r
<1>4. Ready(r)
  BY <1>2 DEF Ready, RequestsTyped
<1> QED
  BY <1>2, <1>3, <1>4, Moved DEF Moves

LEMMA PollTyped ==
    ASSUME TypeInv, NEW q \in Requests, PollSource(q)
    PROVE  RequestsTyped' /\ RowsTyped'
<1> DEFINE action == IF request[q].existing.pollable THEN "source.poll" ELSE "source.poll.refused"
<1>1. RowsTyped'
  BY EnqueueTyped DEF PollSource, TypeInv
<1>2. \/ Answer(q)
      \/ request' = [request EXCEPT ![q].pc = "audit", ![q].action = action]
  BY DEF PollSource
<1>3. action \in Change /\ request[q].pc \notin {"new", "done"}
  BY DEF Change, PollSource
<1> HIDE DEF action
<1> QED
  BY <1>1, <1>2, <1>3, Answered, ToAudit DEF TypeInv

LEMMA DeleteTyped ==
    ASSUME TypeInv, NEW q \in Requests, DeleteSource(q)
    PROVE  RequestsTyped' /\ RowsTyped'
<1>1. RequestsTyped'
  BY ToAudit DEF TypeInv, DeleteSource, Change
<1>2. RowsTyped'
  BY DEF TypeInv, DeleteSource, RowsTyped
<1> QED
  BY <1>1, <1>2

LEMMA AuditTyped ==
    ASSUME TypeInv, NEW q \in Requests, AuditRequest(q)
    PROVE  RequestsTyped' /\ LogTyped'
<1>1. /\ request[q] \in RequestState /\ request[q].user \in Users /\ request[q].action \in Change
      /\ request[q].kind # "login"
  BY DEF TypeInv, RequestsTyped, Ready, AuditRequest
<1>2. LogTyped'
  <2>1. request[q].source \in Sources \cup {None} /\ request[q].changed \in Changed
    BY <1>1 DEF RequestState
  <2> QED
    BY <1>1, <2>1, Logged DEF TypeInv, AuditRequest
<1>3. CASE Goto(q, "queue")
  <2> DEFINE r == [request[q] EXCEPT !.pc = "queue"]
  <2>1. request' = [request EXCEPT ![q] = r]
    BY <1>3 DEF Goto
  <2>2. /\ r \in RequestState /\ r.pc = "queue" /\ r.user \in Users /\ r.kind # "login"
        /\ r.source = request[q].source /\ r.changed = request[q].changed
    BY <1>1 DEF RequestState
  <2> HIDE DEF r
  <2>3. Ready(r)
    BY <2>2 DEF Ready, TypeInv, RequestsTyped
  <2> QED
    BY <1>2, <2>1, <2>2, <2>3, Moved DEF TypeInv, Moves
<1>4. CASE Answer(q)
  BY <1>2, <1>4, Answered DEF TypeInv
<1> QED
  BY <1>3, <1>4 DEF AuditRequest

LEMMA SessionTyped ==
    ASSUME TypeInv, NEW q \in Requests, LoginBegins(q) \/ LoginAnswers(q)
    PROVE  RequestsTyped' /\ LogTyped'
<1>1. CASE LoginBegins(q)
  <2> DEFINE r == [request[q] EXCEPT !.pc = "audit"]
  <2>1. request' = [request EXCEPT ![q] = r] /\ UNCHANGED auditLog
    BY <1>1 DEF LoginBegins, Goto
  <2>2. request[q] \in RequestState /\ request[q].user \in Users /\ request[q].kind = "login"
    BY <1>1 DEF LoginBegins, TypeInv, RequestsTyped, Ready
  <2>3. /\ r \in RequestState /\ r.pc = "audit" /\ r.user \in Users /\ r.kind = "login"
        /\ r.source = request[q].source /\ r.changed = request[q].changed
    BY <2>2 DEF RequestState
  <2> HIDE DEF r
  <2>4. Ready(r)
    BY <2>3 DEF Ready, TypeInv, RequestsTyped
  <2> QED
    BY <2>1, <2>3, <2>4, Moved DEF TypeInv, Moves, LogTyped
<1>2. CASE LoginAnswers(q)
  <2>1. request[q].user \in Users
    BY <1>2 DEF LoginAnswers, TypeInv, RequestsTyped, Ready
  <2> QED
    BY <1>2, <2>1, Answered, Logged, NothingTyped DEF LoginAnswers, TypeInv
<1> QED
  BY <1>1, <1>2

LEMMA RestartTyped == TypeInv /\ Restart => RequestsTyped' /\ unaudited' \subseteq Sources
<1> SUFFICES ASSUME TypeInv, Restart
             PROVE  RequestsTyped' /\ unaudited' \subseteq Sources
  OBVIOUS
<1>1. \A q \in Requests : request[q] \in RequestState /\ Ready(request[q])
  BY DEF TypeInv, RequestsTyped
<1>2. \A q \in Requests :
          /\ Ended(request[q]) \in RequestState
          /\ Ready(Ended(request[q]))
  BY <1>1, EndedFields DEF Ready
<1>3. RequestsTyped'
  BY <1>1, <1>2 DEF Restart, RequestsTyped
<1>4. \A q \in Requests : request[q].changed # Nothing => request[q].source \in Sources
  BY <1>1 DEF Ready
<1>5. unaudited' \subseteq Sources
  BY <1>4 DEF Restart, InFlight, TypeInv, OthersTyped
<1> QED
  BY <1>3, <1>5

LEMMA RequestsNext == TypeInv /\ [Next]_vars => RequestsTyped'
<1> SUFFICES ASSUME TypeInv, [Next]_vars PROVE RequestsTyped'
  OBVIOUS
<1>1. CASE UNCHANGED request
  BY <1>1 DEF TypeInv, RequestsTyped
<1>2. CASE Restart
  BY <1>2, RestartTyped
<1>3. ASSUME NEW q \in Requests, NEW t \in Requests, NEW s \in Sources,
             NEW form \in Form \cup {None}, NEW kind \in Kind \ {"login"},
             Begin(q, t, kind, s, form)
      PROVE  RequestsTyped'
  BY <1>3, BeginTyped
<1> QED
  BY <1>1, <1>2, <1>3, LoginTyped, SessionTyped, EditTyped, CreateTyped, ValidateTyped, PollTyped,
     DeleteTyped, AuditTyped
     DEF Next, vars, StartServer, BootstrapOperator, AuditBootstrap, StartCommand, ChoosePassword,
         RefusePassword, AuditCommand, EndSession, JobEnds, StatusChanges

LEMMA RowsNext == TypeInv /\ [Next]_vars => RowsTyped'
<1> SUFFICES ASSUME TypeInv, [Next]_vars PROVE RowsTyped'
  OBVIOUS
<1>1. CASE UNCHANGED sourceVars
  BY <1>1 DEF sourceVars, TypeInv, RowsTyped
<1>2. ASSUME NEW s \in Sources, JobEnds(s) PROVE RowsTyped'
  BY <1>2 DEF JobEnds, TypeInv, RowsTyped
<1>3. ASSUME NEW s \in Sources, StatusChanges(s) PROVE RowsTyped'
  <2> DEFINE row == [sources[s] EXCEPT !.pollable = ~sources[s].pollable]
  <2>1. sources[s] \in Row
    BY <1>3 DEF StatusChanges, TypeInv, RowsTyped
  <2>2. row \in Row
    BY <2>1 DEF Row
  <2>3. sources' = [sources EXCEPT ![s] = row] /\ jobs' = jobs
    BY <1>3, <2>1 DEF StatusChanges, TypeInv, RowsTyped
  <2> HIDE DEF row
  <2> QED
    BY <2>2, <2>3 DEF TypeInv, RowsTyped
<1>4. CASE \E q \in Requests : \/ EditSource(q) \/ CreateSource(q) \/ ValidateCreated(q)
                                \/ PollSource(q) \/ DeleteSource(q)
  BY <1>4, EditTyped, CreateTyped, ValidateTyped, PollTyped, DeleteTyped
<1>5. CASE StartServer \/ BootstrapOperator \/ AuditBootstrap \/ Restart \/ UNCHANGED vars
  BY <1>1, <1>5 DEF vars, StartServer, BootstrapOperator, AuditBootstrap, Restart
<1>6. ASSUME NEW c \in Commands,
             \/ \E verb \in {"add", "passwd"}, u \in Users : StartCommand(c, verb, u)
             \/ ChoosePassword(c) \/ RefusePassword(c) \/ AuditCommand(c)
      PROVE  RowsTyped'
  BY <1>1, <1>6 DEF StartCommand, ChoosePassword, RefusePassword, AuditCommand
<1>7. ASSUME NEW q \in Requests,
             \/ \E u \in Users, typed \in Setters : Login(q, u, typed)
             \/ LoginBegins(q) \/ LoginAnswers(q) \/ EndSession(q) \/ AuditRequest(q)
      PROVE  RowsTyped'
  BY <1>1, <1>7 DEF Login, LoginBegins, LoginAnswers, EndSession, AuditRequest
<1>8. ASSUME NEW q \in Requests, NEW t \in Requests, NEW s \in Sources,
             NEW form \in Form \cup {None}, NEW kind \in Kind \ {"login"},
             Begin(q, t, kind, s, form)
      PROVE  RowsTyped'
  BY <1>1, <1>8 DEF Begin
<1> QED
  BY <1>2, <1>3, <1>4, <1>5, <1>6, <1>7, <1>8 DEF Next

(* The steps that write to the log. *)
LEMMA LogMoves ==
    ASSUME [Next]_vars
    PROVE  \/ UNCHANGED auditLog
           \/ AuditBootstrap
           \/ \E c \in Commands : AuditCommand(c)
           \/ \E q \in Requests : \/ LoginBegins(q) \/ LoginAnswers(q) \/ AuditRequest(q)
                                   \/ \E u \in Users, typed \in Setters : Login(q, u, typed)
<1>1. CASE StartServer \/ BootstrapOperator \/ Restart \/ UNCHANGED vars
  BY <1>1 DEF vars, StartServer, BootstrapOperator, Restart
<1>2. ASSUME NEW c \in Commands,
             \/ \E verb \in {"add", "passwd"}, u \in Users : StartCommand(c, verb, u)
             \/ ChoosePassword(c) \/ RefusePassword(c)
      PROVE  UNCHANGED auditLog
  BY <1>2 DEF StartCommand, ChoosePassword, RefusePassword
<1>3. ASSUME NEW q \in Requests, NEW t \in Requests, NEW s \in Sources,
             NEW form \in Form \cup {None}, NEW kind \in Kind \ {"login"},
             Begin(q, t, kind, s, form)
      PROVE  UNCHANGED auditLog
  BY <1>3 DEF Begin
<1>4. ASSUME NEW q \in Requests,
             \/ EndSession(q) \/ EditSource(q) \/ CreateSource(q) \/ ValidateCreated(q)
             \/ PollSource(q) \/ DeleteSource(q)
      PROVE  UNCHANGED auditLog
  BY <1>4 DEF EndSession, EditSource, CreateSource, ValidateCreated, PollSource, DeleteSource
<1>5. ASSUME NEW s \in Sources, JobEnds(s) \/ StatusChanges(s) PROVE UNCHANGED auditLog
  BY <1>5 DEF JobEnds, StatusChanges
<1> QED
  BY <1>1, <1>2, <1>3, <1>4, <1>5 DEF Next

LEMMA LogNext == TypeInv /\ [Next]_vars => LogTyped'
<1> SUFFICES ASSUME TypeInv, [Next]_vars PROVE LogTyped'
  OBVIOUS
<1>1. CASE UNCHANGED auditLog
  BY <1>1 DEF TypeInv, LogTyped
<1>2. CASE AuditBootstrap
  BY <1>2, Logged, NothingTyped DEF AuditBootstrap, TypeInv
<1>3. ASSUME NEW c \in Commands, AuditCommand(c) PROVE LogTyped'
  <2>1. command[c].verb \in {"add", "passwd"}
    BY DEF TypeInv, OthersTyped, CommandState
  <2> QED
    BY <1>3, <2>1, Logged, NothingTyped DEF AuditCommand, TypeInv
<1>4. ASSUME NEW q \in Requests, NEW u \in Users, NEW typed \in Setters, Login(q, u, typed)
      PROVE  LogTyped'
  BY <1>4, LoginTyped
<1>5. ASSUME NEW q \in Requests, LoginBegins(q) \/ LoginAnswers(q) \/ AuditRequest(q)
      PROVE  LogTyped'
  BY <1>5, SessionTyped, AuditTyped
<1> QED
  BY <1>1, <1>2, <1>3, <1>4, <1>5, LogMoves

LEMMA OthersNext == TypeInv /\ [Next]_vars => OthersTyped'
<1> SUFFICES ASSUME TypeInv, [Next]_vars PROVE OthersTyped'
  OBVIOUS
<1>1. OthersTyped
  BY DEF TypeInv
<1>0. Operators \subseteq Users /\ "bootstrap" \in Setters /\ Commands \subseteq Setters
  BY DEF Operators, Setters
<1>2. CASE StartServer \/ AuditBootstrap
  <2>1. known' \in [Setters -> SUBSET Users]
    BY <1>0, <1>1, <1>2 DEF StartServer, AuditBootstrap, OthersTyped, accountVars
  <2> QED
    BY <1>1, <1>2, <2>1 DEF StartServer, AuditBootstrap, OthersTyped, accountVars
<1>3. CASE BootstrapOperator
  BY <1>1, <1>3 DEF BootstrapOperator, PutOperator, OthersTyped, Setters
<1>4. CASE Restart
  BY <1>1, <1>4, RestartTyped DEF Restart, OthersTyped, accountVars
<1>5. ASSUME NEW c \in Commands, NEW verb \in {"add", "passwd"}, NEW u \in Users,
             StartCommand(c, verb, u)
      PROVE  OthersTyped'
  <2> DEFINE pc == IF (verb = "add") = (password[u] = None) THEN "prompt" ELSE "done"
             r == [pc |-> pc, verb |-> verb, user |-> u]
  <2>1. pc \in {"prompt", "done"}
    OBVIOUS
  <2>2. command' = [command EXCEPT ![c] = r]
    BY <1>5 DEF StartCommand
  <2> HIDE DEF pc
  <2>3. r \in CommandState
    BY <2>1 DEF CommandState
  <2> HIDE DEF r
  <2>4. known' \in [Setters -> SUBSET Users]
    BY <1>0, <1>1, <1>5 DEF StartCommand, OthersTyped
  <2> QED
    BY <1>1, <1>5, <2>2, <2>3, <2>4 DEF StartCommand, OthersTyped, accountVars
<1>6. ASSUME NEW c \in Commands, ChoosePassword(c) \/ RefusePassword(c) \/ AuditCommand(c)
      PROVE  OthersTyped'
  <2>1. command' \in [Commands -> CommandState]
    BY <1>1, <1>6 DEF ChoosePassword, RefusePassword, AuditCommand, OthersTyped, CommandState
  <2>2. password' \in [Users -> Setters \cup {None}]
    BY <1>1, <1>6 DEF ChoosePassword, RefusePassword, AuditCommand, PutOperator, OthersTyped,
                      Setters, accountVars
  <2> QED
    BY <1>1, <1>6, <2>1, <2>2
       DEF ChoosePassword, RefusePassword, AuditCommand, OthersTyped, accountVars
<1>7. ASSUME NEW q \in Requests, LoginBegins(q) \/ LoginAnswers(q) \/ EndSession(q)
      PROVE  OthersTyped'
  BY <1>1, <1>7 DEF LoginBegins, BeginSession, LoginAnswers, EndSession, OthersTyped
<1>8. ASSUME NEW q \in Requests, EditSource(q) \/ CreateSource(q) \/ ValidateCreated(q) \/ AuditRequest(q)
      PROVE  OthersTyped'
  BY <1>1, <1>8 DEF EditSource, CreateSource, ValidateCreated, AuditRequest, RunOnLoop,
                    OthersTyped, accountVars
<1>9. CASE UNCHANGED <<accountVars, command, server, loop, restarts, unaudited>>
  BY <1>1, <1>9 DEF OthersTyped, accountVars
<1> QED
  <2>1. ASSUME NEW q \in Requests,
               \/ \E u \in Users, typed \in Setters : Login(q, u, typed)
               \/ PollSource(q) \/ DeleteSource(q)
        PROVE  OthersTyped'
    BY <1>9, <2>1 DEF Login, PollSource, DeleteSource
  <2>2. ASSUME NEW q \in Requests, NEW t \in Requests, NEW s \in Sources,
               NEW form \in Form \cup {None}, NEW kind \in Kind \ {"login"},
               Begin(q, t, kind, s, form)
        PROVE  OthersTyped'
    BY <1>9, <2>2 DEF Begin
  <2>3. ASSUME NEW s \in Sources, JobEnds(s) \/ StatusChanges(s) PROVE OthersTyped'
    BY <1>9, <2>3 DEF JobEnds, StatusChanges
  <2>4. CASE UNCHANGED vars
    BY <1>9, <2>4 DEF vars
  <2> QED
    BY <1>2, <1>3, <1>4, <1>5, <1>6, <1>7, <1>8, <2>1, <2>2, <2>3, <2>4 DEF Next

LEMMA TypeNext == TypeInv /\ [Next]_vars => TypeInv'
  BY RequestsNext, RowsNext, LogNext, OthersNext DEF TypeInv

(* The tables, the requests in flight and the audit log have their types in every
   state; no job outlives its source, and a row keeps to what the table's CHECK
   allows although a form may hold more (app.edit_source, store.update_source). *)
THEOREM TypeCorrect == Spec => []TypeOK
<1>1. TypeInv => TypeOK
  BY DEF TypeInv, RequestsTyped, RowsTyped, OthersTyped, LogTyped, TypeOK
<1> QED
  BY <1>1, TypeInit, TypeNext, PTL DEF Spec

-----------------------------------------------------------------------------
(* The log tells of a login before it tells of anything its operator does: whoever
   holds a cookie, and whoever makes a request in flight, is in the log. *)

LoggedIn(u) == \E j \in DOMAIN auditLog :
                  auditLog[j].actor = u /\ auditLog[j].action = "login.succeeded"
Known ==
    /\ \A t \in cookies : request[t].pc = "done" /\ LoggedIn(request[t].user)
    /\ \A q \in Requests :
        (\/ request[q].pc \in {"await", "act", "queue"}
         \/ request[q].pc = "audit" /\ request[q].kind # "login")
        => LoggedIn(request[q].user)
LoginInv == Known /\ ActsAfterLogin

(* Nothing is ever taken out of the log. *)
LEMMA LogGrows ==
    ASSUME TypeInv, [Next]_vars
    PROVE  \/ auditLog' = auditLog
           \/ \E e : auditLog' = Append(auditLog, e) /\ e.source = None
           \/ \E q \in Requests : AuditRequest(q)
<1>1. CASE AuditBootstrap
  BY <1>1 DEF AuditBootstrap, Audit
<1>2. ASSUME NEW c \in Commands, AuditCommand(c)
      PROVE  \E e : auditLog' = Append(auditLog, e) /\ e.source = None
  BY <1>2 DEF AuditCommand, Audit
<1>3. ASSUME NEW q \in Requests, LoginAnswers(q)
      PROVE  \E e : auditLog' = Append(auditLog, e) /\ e.source = None
  BY <1>3 DEF LoginAnswers, Audit
<1>4. ASSUME NEW q \in Requests, NEW u \in Users, NEW typed \in Setters, Login(q, u, typed)
      PROVE  \/ auditLog' = auditLog
             \/ \E e : auditLog' = Append(auditLog, e) /\ e.source = None
  BY <1>4 DEF Login, Audit
<1>5. ASSUME NEW q \in Requests, LoginBegins(q) PROVE auditLog' = auditLog
  BY <1>5 DEF LoginBegins
<1> QED
  BY <1>1, <1>2, <1>3, <1>4, <1>5, LogMoves

LEMMA StaysLoggedIn ==
    ASSUME TypeInv, [Next]_vars, NEW u, LoggedIn(u)
    PROVE  LoggedIn(u)'
<1>1. auditLog' = auditLog \/ \E e : auditLog' = Append(auditLog, e)
  BY LogGrows DEF AuditRequest, Audit
<1>2. auditLog \in Seq(Event)
  BY DEF TypeInv, LogTyped
<1>3. ASSUME NEW e, auditLog' = Append(auditLog, e) PROVE LoggedIn(u)'
  <2>1. PICK j \in DOMAIN auditLog :
          auditLog[j].actor = u /\ auditLog[j].action = "login.succeeded"
    BY DEF LoggedIn
  <2>2. j \in DOMAIN auditLog' /\ auditLog'[j] = auditLog[j]
    BY <1>2, <1>3, <2>1
  <2> QED
    BY <2>1, <2>2 DEF LoggedIn
<1> QED
  BY <1>1, <1>3 DEF LoggedIn

(* How a step moves a request: one that is new begins as a login, or on behalf of
   whoever's cookie it has; one that is under way stays what it is; nothing happens
   to one that is done. *)
UnderWay(q) ==
    /\ request[q].pc \notin {"new", "done"}
    /\ request'[q].user = request[q].user /\ request'[q].kind = request[q].kind
    /\ request[q].kind = "login" => request'[q].pc \in {"audit", "done"}

LEMMA RequestMoves ==
    ASSUME TypeInv, [Next]_vars, NEW q \in Requests
    PROVE  \/ request'[q] = request[q]
           \/ request[q].pc = "new" /\ request'[q].pc \in {"session", "done"}
           \/ /\ request[q].pc = "new"
              /\ \E t \in cookies : request'[q].user = request[t].user
           \/ UnderWay(q)
<1>1. request[q] \in RequestState /\ Ready(request[q]) /\ request \in [Requests -> RequestState]
  BY DEF TypeInv, RequestsTyped
<1> USE <1>1 DEF UnderWay
<1>2. ASSUME NEW p \in Requests, NEW u, NEW typed, Login(p, u, typed)
      PROVE  \/ request'[q] = request[q]
             \/ request[q].pc = "new" /\ request'[q].pc \in {"session", "done"}
  <2>1. CASE p = q
    BY <1>2, <2>1 DEF Login, RequestState
  <2>2. CASE p # q
    BY <1>2, <2>2 DEF Login
  <2> QED
    BY <2>1, <2>2
<1>3. ASSUME NEW p \in Requests, NEW t \in Requests, NEW s \in Sources,
             NEW form, NEW kind, Begin(p, t, kind, s, form)
      PROVE  \/ request'[q] = request[q]
             \/ /\ request[q].pc = "new"
                /\ \E c \in cookies : request'[q].user = request[c].user
  <2>1. t \in cookies /\ CurrentOperator(t) = request[t].user
    BY <1>3 DEF Begin, CurrentOperator
  <2>2. CASE p = q
    <3>1. request'[q].user = CurrentOperator(t)
      BY <1>3, <2>2 DEF Begin, NewRequest
    <3> QED
      BY <1>3, <2>1, <2>2, <3>1 DEF Begin
  <2>3. CASE p # q
    BY <1>3, <2>3 DEF Begin
  <2> QED
    BY <2>2, <2>3
<1>4. ASSUME NEW p \in Requests, LoginBegins(p) \/ LoginAnswers(p)
      PROVE  request'[q] = request[q] \/ UnderWay(q)
  <2>1. CASE p = q
    BY <1>4, <2>1, Answers DEF LoginBegins, LoginAnswers, Goto, RequestState
  <2>2. CASE p # q
    BY <1>4, <2>2, Answers DEF LoginBegins, LoginAnswers, Goto
  <2> QED
    BY <2>1, <2>2
<1>5. ASSUME NEW p \in Requests, EditSource(p) \/ CreateSource(p) \/ ValidateCreated(p)
      PROVE  request'[q] = request[q] \/ UnderWay(q)
  <2>1. CASE p = q
    BY <1>5, <2>1, Answers DEF EditSource, CreateSource, ValidateCreated, Goto, RequestState, Ready
  <2>2. CASE p # q
    BY <1>5, <2>2, Answers DEF EditSource, CreateSource, ValidateCreated, Goto
  <2> QED
    BY <2>1, <2>2
<1>6. ASSUME NEW p \in Requests, PollSource(p) \/ DeleteSource(p) \/ AuditRequest(p)
      PROVE  request'[q] = request[q] \/ UnderWay(q)
  <2>1. CASE p = q
    BY <1>6, <2>1, Answers DEF PollSource, DeleteSource, AuditRequest, Goto, RequestState, Ready
  <2>2. CASE p # q
    BY <1>6, <2>2, Answers DEF PollSource, DeleteSource, AuditRequest, Goto
  <2> QED
    BY <2>1, <2>2
<1>7. CASE Restart
  BY <1>7, EndedFields DEF Restart, InFlight, RequestState
<1>8. CASE UNCHANGED request
  BY <1>8
<1> QED
  BY <1>2, <1>3, <1>4, <1>5, <1>6, <1>7, <1>8
     DEF Next, vars, StartServer, BootstrapOperator, AuditBootstrap, StartCommand, ChoosePassword,
         RefusePassword, AuditCommand, EndSession, JobEnds, StatusChanges

LEMMA CookiesMove ==
    ASSUME [Next]_vars
    PROVE  cookies' = cookies \/ \E p \in Requests : LoginAnswers(p)
<1>1. ASSUME NEW q \in Requests, NEW t, NEW s, NEW form, NEW kind, Begin(q, t, kind, s, form)
      PROVE  cookies' = cookies
  BY <1>1 DEF Begin, accountVars
<1>2. ASSUME NEW q, NEW u, NEW typed, Login(q, u, typed)
      PROVE  cookies' = cookies
  BY <1>2 DEF Login, accountVars
<1>3. ASSUME NEW c, NEW verb, NEW u, StartCommand(c, verb, u)
      PROVE  cookies' = cookies
  BY <1>3 DEF StartCommand, accountVars
<1>4. ASSUME NEW q,
             \/ LoginBegins(q) \/ EndSession(q) \/ EditSource(q) \/ CreateSource(q)
             \/ ValidateCreated(q) \/ PollSource(q) \/ DeleteSource(q) \/ AuditRequest(q)
             \/ JobEnds(q) \/ StatusChanges(q)
             \/ ChoosePassword(q) \/ RefusePassword(q) \/ AuditCommand(q)
      PROVE  cookies' = cookies
  BY <1>4 DEF LoginBegins, BeginSession, EndSession, EditSource, CreateSource, ValidateCreated,
       PollSource, DeleteSource, AuditRequest, JobEnds, StatusChanges, ChoosePassword,
       RefusePassword, AuditCommand, accountVars
<1>5. CASE StartServer \/ BootstrapOperator \/ AuditBootstrap \/ Restart \/ UNCHANGED vars
  BY <1>5 DEF StartServer, BootstrapOperator, AuditBootstrap, Restart, vars, accountVars
<1> QED
  BY <1>1, <1>2, <1>3, <1>4, <1>5 DEF Next

LEMMA KnownNext == TypeInv /\ TypeInv' /\ Known /\ [Next]_vars => Known'
<1> SUFFICES ASSUME TypeInv, TypeInv', Known, [Next]_vars PROVE Known'
  OBVIOUS
<1>1. ASSUME NEW t \in cookies'
      PROVE  request'[t].pc = "done" /\ LoggedIn(request[t].user)'
  <2>1. t \in Requests
    BY DEF TypeInv, OthersTyped
  <2>2. CASE t \in cookies
    <3>1. request[t].pc = "done" /\ LoggedIn(request[t].user)
      BY <2>2 DEF Known
    <3>2. request'[t] = request[t]
      BY <2>1, <3>1, RequestMoves DEF UnderWay
    <3>3. \A u : LoggedIn(u) => LoggedIn(u)'
      BY StaysLoggedIn
    <3> QED
      BY <3>1, <3>2, <3>3 DEF LoggedIn
  <2>3. CASE t \notin cookies
    <3>1. LoginAnswers(t)
      BY <2>3, CookiesMove DEF LoginAnswers
    <3> DEFINE e == [actor |-> request[t].user, action |-> "login.succeeded", source |-> None,
                     detail |-> Nothing]
    <3>2. auditLog' = Append(auditLog, e)
      BY <3>1 DEF LoginAnswers, Audit
    <3>3. request'[t].pc = "done" /\ request'[t].user = request[t].user
      BY <2>1, <3>1, Answers DEF LoginAnswers, Goto, TypeInv, RequestsTyped, RequestState
    <3>4. e.actor = request[t].user /\ e.action = "login.succeeded"
      OBVIOUS
    <3> HIDE DEF e
    <3>5. /\ Len(auditLog) + 1 \in DOMAIN auditLog'
          /\ auditLog'[Len(auditLog) + 1] = e
      BY <3>2 DEF TypeInv, LogTyped
    <3> QED
      BY <3>3, <3>4, <3>5 DEF LoggedIn
  <2> QED
    BY <2>2, <2>3
<1>2. ASSUME NEW q \in Requests,
             \/ request'[q].pc \in {"await", "act", "queue"}
             \/ request'[q].pc = "audit" /\ request'[q].kind # "login"
      PROVE  LoggedIn(request[q].user)'
  <2>1. ASSUME NEW u, LoggedIn(u), request'[q].user = u
        PROVE  LoggedIn(request[q].user)'
    <3>1. LoggedIn(u)'
      BY <2>1, StaysLoggedIn
    <3> QED
      BY <2>1, <3>1 DEF LoggedIn
  <2>2. CASE request'[q] = request[q]
    <3>1. LoggedIn(request[q].user)
      BY <1>2, <2>2 DEF Known
    <3> QED
      BY <2>1, <2>2, <3>1
  <2>3. ASSUME NEW t \in cookies, request'[q].user = request[t].user
        PROVE  LoggedIn(request[q].user)'
    BY <2>1, <2>3 DEF Known
  <2>4. CASE UnderWay(q)
    <3>1. request[q] \in RequestState /\ Ready(request[q]) /\ Ready(request'[q])
      BY DEF TypeInv, RequestsTyped
    <3>2. request[q].kind # "login"
      BY <1>2, <2>4, <3>1 DEF UnderWay
    <3>3. request[q].pc \in {"await", "act", "queue", "audit"}
      BY <2>4, <3>1, <3>2 DEF UnderWay, RequestState, Ready
    <3>4. LoggedIn(request[q].user)
      BY <3>2, <3>3 DEF Known
    <3> QED
      BY <2>1, <2>4, <3>4 DEF UnderWay
  <2> QED
    BY <1>2, <2>2, <2>3, <2>4, RequestMoves
<1> QED
  BY <1>1, <1>2 DEF Known

LEMMA ToldNext == TypeInv /\ LoginInv /\ [Next]_vars => ActsAfterLogin'
<1> SUFFICES ASSUME TypeInv, Known, ActsAfterLogin, [Next]_vars PROVE ActsAfterLogin'
  BY DEF LoginInv
<1>1. auditLog \in Seq(Event) /\ Len(auditLog) \in Nat
  BY DEF TypeInv, LogTyped
<1>2. CASE auditLog' = auditLog
  BY <1>2 DEF ActsAfterLogin
<1>3. ASSUME NEW e, auditLog' = Append(auditLog, e), e.source = None \/ LoggedIn(e.actor)
      PROVE  ActsAfterLogin'
  <2>1. /\ Len(auditLog') = Len(auditLog) + 1
        /\ \A i \in DOMAIN auditLog : auditLog'[i] = auditLog[i]
        /\ auditLog'[Len(auditLog) + 1] = e
        /\ DOMAIN auditLog = 1..Len(auditLog)
        /\ DOMAIN auditLog' = 1..(Len(auditLog) + 1)
    BY <1>1, <1>3
  <2> SUFFICES ASSUME NEW i \in DOMAIN auditLog', auditLog'[i].source # None
               PROVE  \E j \in 1..(i - 1) : /\ auditLog'[j].actor = auditLog'[i].actor
                                            /\ auditLog'[j].action = "login.succeeded"
    BY DEF ActsAfterLogin
  <2>2. CASE i \in DOMAIN auditLog
    <3>1. PICK j \in 1..(i - 1) : /\ auditLog[j].actor = auditLog[i].actor
                                  /\ auditLog[j].action = "login.succeeded"
      BY <2>1, <2>2 DEF ActsAfterLogin
    <3>2. j \in DOMAIN auditLog
      BY <1>1, <2>1, <2>2
    <3> QED
      BY <2>1, <2>2, <3>1, <3>2
  <2>3. CASE i = Len(auditLog) + 1
    <3>1. LoggedIn(e.actor) /\ auditLog'[i] = e
      BY <1>3, <2>1, <2>3
    <3>2. PICK j \in DOMAIN auditLog :
            auditLog[j].actor = e.actor /\ auditLog[j].action = "login.succeeded"
      BY <3>1 DEF LoggedIn
    <3>3. j \in 1..(i - 1) /\ auditLog'[j] = auditLog[j]
      BY <1>1, <2>1, <2>3, <3>2
    <3> QED
      BY <3>1, <3>2, <3>3
  <2> QED
    BY <1>1, <2>1, <2>2, <2>3
<1>4. ASSUME NEW q \in Requests, AuditRequest(q) PROVE ActsAfterLogin'
  <2> DEFINE e == [actor |-> request[q].user, action |-> request[q].action,
                   source |-> request[q].source, detail |-> request[q].changed]
  <2>1. auditLog' = Append(auditLog, e)
    BY <1>4 DEF AuditRequest, Audit
  <2>2. LoggedIn(request[q].user)
    BY <1>4 DEF AuditRequest, Known
  <2>3. e.actor = request[q].user
    OBVIOUS
  <2> HIDE DEF e
  <2> QED
    BY <1>3, <2>1, <2>2, <2>3
<1> QED
  BY <1>2, <1>3, <1>4, LogGrows

(* The log never tells of a change before the login of who made it (app.login,
   store.audit), whatever requests overlap and wherever the process is killed. *)
THEOREM LogTellsOfLogins == Spec => []ActsAfterLogin
<1>1. Init => LoginInv
  <2>1. Init => Known
    BY DEF Init, Known, NewRequest
  <2>2. Init => ActsAfterLogin
    BY DEF Init, ActsAfterLogin
  <2> QED
    BY <2>1, <2>2 DEF LoginInv
<1>2. TypeInv /\ TypeInv' /\ LoginInv /\ [Next]_vars => LoginInv'
  BY KnownNext, ToldNext DEF LoginInv
<1>3. LoginInv => ActsAfterLogin
  BY DEF LoginInv
<1> QED
  BY <1>1, <1>2, <1>3, TypeInit, TypeNext, PTL DEF Spec

-----------------------------------------------------------------------------
(* Passwords: what a startup or a command found out when it looked, with whatever the
   others did to the table since. *)

FoundOut ==
    /\ server = "put" => known["bootstrap"] = {}
    /\ \A c \in Commands : command[c].pc = "prompt" /\ command[c].verb = "add" =>
           command[c].user \notin known[c]

LEMMA NoOperators ==
    ASSUME OperatorCount = 0
    PROVE  Operators = {}
<1>1. IsFiniteSet(Operators)
  BY FS_Subset DEF Operators
<1> QED
  BY <1>1, FS_EmptySet DEF OperatorCount

LEMMA AccountsMove ==
    ASSUME [Next]_vars
    PROVE  \/ UNCHANGED <<password, known, command, server>>
           \/ StartServer \/ BootstrapOperator \/ AuditBootstrap \/ Restart
           \/ \E c \in Commands :
               \/ \E verb \in {"add", "passwd"}, u \in Users : StartCommand(c, verb, u)
               \/ ChoosePassword(c) \/ RefusePassword(c) \/ AuditCommand(c)
<1>1. ASSUME NEW q, NEW t, NEW s, NEW form, NEW kind, Begin(q, t, kind, s, form)
      PROVE  UNCHANGED <<password, known, command, server>>
  BY <1>1 DEF Begin, accountVars
<1>2. ASSUME NEW q, NEW u, NEW typed, Login(q, u, typed)
      PROVE  UNCHANGED <<password, known, command, server>>
  BY <1>2 DEF Login, accountVars
<1>3. ASSUME NEW q,
             \/ LoginBegins(q) \/ LoginAnswers(q) \/ EndSession(q) \/ EditSource(q)
             \/ CreateSource(q) \/ ValidateCreated(q) \/ PollSource(q) \/ DeleteSource(q)
             \/ AuditRequest(q) \/ JobEnds(q) \/ StatusChanges(q)
      PROVE  UNCHANGED <<password, known, command, server>>
  BY <1>3 DEF LoginBegins, LoginAnswers, EndSession, EditSource, CreateSource, ValidateCreated,
       PollSource, DeleteSource, AuditRequest, JobEnds, StatusChanges, accountVars
<1>4. CASE UNCHANGED vars
  BY <1>4 DEF vars, accountVars
<1> QED
  BY <1>1, <1>2, <1>3, <1>4 DEF Next

LEMMA FoundOutNext ==
    ASSUME TypeInv, FoundOut, [Next]_vars
    PROVE  FoundOut'
<1>1. /\ command \in [Commands -> CommandState] /\ known \in [Setters -> SUBSET Users]
      /\ Commands \subseteq Setters /\ "bootstrap" \in Setters /\ "bootstrap" \notin Commands
  BY DEF TypeInv, OthersTyped, Setters
<1>2. CASE StartServer
  <2>1. /\ command' = command /\ known' = [known EXCEPT !["bootstrap"] = Operators]
        /\ server' = "put" => OperatorCount = 0
    BY <1>2 DEF StartServer, BootstrapWanted
  <2>2. server' = "put" => known'["bootstrap"] = {}
    BY <1>1, <2>1, NoOperators
  <2>3. \A c \in Commands : known'[c] = known[c]
    BY <1>1, <2>1
  <2> QED
    BY <2>1, <2>2, <2>3 DEF FoundOut
<1>3. CASE BootstrapOperator \/ AuditBootstrap \/ Restart
  BY <1>3 DEF BootstrapOperator, AuditBootstrap, Restart, accountVars, FoundOut
<1>4. ASSUME NEW c \in Commands, NEW verb \in {"add", "passwd"}, NEW u \in Users,
             StartCommand(c, verb, u)
      PROVE  FoundOut'
  <2>1. /\ server' = server /\ known' = [known EXCEPT ![c] = Operators]
    BY <1>4 DEF StartCommand
  <2>2. \A d \in Commands : d # c => command'[d] = command[d] /\ known'[d] = known[d]
    BY <1>1, <1>4, <2>1 DEF StartCommand
  <2>3. /\ command'[c].verb = verb /\ command'[c].user = u
        /\ command'[c].pc = "prompt" => ((verb = "add") = (password[u] = None))
    BY <1>1, <1>4 DEF StartCommand
  <2>4. command'[c].pc = "prompt" /\ verb = "add" => u \notin known'[c]
    BY <1>1, <2>1, <2>3 DEF Operators
  <2>5. known'["bootstrap"] = known["bootstrap"]
    BY <1>1, <2>1
  <2> QED
    BY <2>1, <2>2, <2>3, <2>4, <2>5 DEF FoundOut
<1>5. ASSUME NEW c \in Commands, ChoosePassword(c) \/ RefusePassword(c) \/ AuditCommand(c)
      PROVE  FoundOut'
  <2>1. /\ server' = server /\ known' = known
        /\ \A d \in Commands : d # c => command'[d] = command[d]
        /\ command'[c].pc \in {"audit", "done"}
    BY <1>1, <1>5 DEF ChoosePassword, RefusePassword, AuditCommand, CommandState, accountVars
  <2> QED
    BY <2>1 DEF FoundOut
<1>6. CASE UNCHANGED <<password, known, command, server>>
  BY <1>6 DEF FoundOut
<1> QED
  BY <1>2, <1>3, <1>4, <1>5, <1>6, AccountsMove

LEMMA PasswordChanges ==
    ASSUME [Next]_vars, password' # password
    PROVE  BootstrapOperator \/ \E c \in Commands : ChoosePassword(c)
  BY AccountsMove DEF StartServer, AuditBootstrap, Restart, StartCommand, RefusePassword,
       AuditCommand, accountVars

(* A password that was there when a startup or an add command looked is not what it
   resets (app._bootstrap_operator, operators.main), with any number of restarts and
   of commands, which overlap as they like. *)
THEOREM ChosenPasswordsStay == Spec => PasswordsAreKept
<1>1. Init => FoundOut
  BY DEF Init, FoundOut
<1>2. TypeInv /\ FoundOut /\ [Next]_vars => FoundOut'
  BY FoundOutNext
<1>3. TypeInv /\ FoundOut /\ [Next]_vars => [\A u \in Users : Resets(u) => MayReset(u)]_vars
  <2> SUFFICES ASSUME TypeInv, FoundOut, [Next]_vars, NEW u \in Users, Resets(u)
               PROVE  MayReset(u)
    OBVIOUS
  <2>1. password'[u] # password[u]
    BY DEF Resets
  <2>2. CASE BootstrapOperator
    BY <2>2 DEF BootstrapOperator, FoundOut, MayReset
  <2>3. ASSUME NEW c \in Commands, ChoosePassword(c) PROVE MayReset(u)
    <3>1. /\ command[c] \in CommandState /\ command \in [Commands -> CommandState]
          /\ password \in [Users -> Setters \cup {None}]
      BY DEF TypeInv, OthersTyped
    <3>2. command[c].user = u
      BY <2>1, <2>3, <3>1 DEF ChoosePassword, PutOperator
    <3>3. command[c].verb = "passwd" \/ u \notin known[c]
      BY <2>3, <3>1, <3>2 DEF ChoosePassword, FoundOut, CommandState
    <3>4. command[c].pc = "prompt" /\ command'[c].pc = "audit"
      BY <2>3, <3>1 DEF ChoosePassword, CommandState
    <3> QED
      BY <3>2, <3>3, <3>4 DEF MayReset
  <2> QED
    BY <2>1, <2>2, <2>3, PasswordChanges
<1> QED
  BY <1>1, <1>2, <1>3, TypeInit, TypeNext, PTL DEF Spec, PasswordsAreKept

-----------------------------------------------------------------------------
(* The log agrees with the rows: an edit that is not yet in the log is that of the
   coroutine that has the loop, so that nobody else writes to the row meanwhile. *)

Untold(q) == request[q].pc \notin {"new", "done"} /\ request[q].changed # Nothing

EditIsAlone == \A q \in Requests : Untold(q) =>
    request[q].pc = "audit" /\ request[q].kind = "edit" /\ loop = q
NewIsBlank == \A q \in Requests : request[q].pc = "new" => request[q] = NewRequest

(* The log tells only of sources that some request was about, so that it has told
   nothing of one that is about to be registered. *)
TellsOfKnown == \A i \in DOMAIN auditLog : auditLog[i].source # None =>
    \E r \in Requests : request[r].source = auditLog[i].source
CreatesAnew == \A q \in Requests : request[q].pc = "await" /\ request[q].kind = "create" =>
    /\ sources[request[q].source] = None
    /\ \A i \in DOMAIN auditLog : auditLog[i].source # request[q].source
    /\ \A r \in Requests \ {q} : request[r].source # request[q].source

(* What the log will have told last of a column, once the edits in flight are in
   it, is what the column holds. *)
Columns == {"channel", "asset"}
Agrees(s, field) ==
    LET untold == {q \in Requests : Untold(q) /\ request[q].source = s} IN
    /\ \A q \in untold : request[q].changed[field] \in {None, sources[s][field]}
    /\ (\A q \in untold : request[q].changed[field] = None) =>
           LastOf(s, field) \in {None, sources[s][field]}
RowsAgree == \A s \in Sources \ unaudited : sources[s] # None =>
    \A field \in Columns : Agrees(s, field)

(* LastOf is of an entry of the log. *)
Told(s, field) == {i \in DOMAIN auditLog : auditLog[i].source = s /\ auditLog[i].detail[field] # None}
LastIsThere == \A s \in Sources, field \in Columns :
    Told(s, field) = {} \/ \E i \in Told(s, field) : \A j \in Told(s, field) : j <= i

ReplayInv == LastIsThere /\ EditIsAlone /\ NewIsBlank /\ TellsOfKnown /\ CreatesAnew /\ RowsAgree


LEMMA LastAppended ==
    ASSUME LogTyped, LastIsThere, NEW e, auditLog' = Append(auditLog, e),
           NEW s \in Sources, NEW field \in Columns
    PROVE  /\ LastOf(s, field)' = IF e.source = s /\ e.detail[field] # None THEN e.detail[field]
                                  ELSE LastOf(s, field)
           /\ \/ Told(s, field)' = {}
              \/ \E i \in Told(s, field)' : \A j \in Told(s, field)' : j <= i
<1> DEFINE n == Len(auditLog)
<1>1. PICK told : told = Told(s, field)
  OBVIOUS
<1>2. PICK new : new = Told(s, field)'
  OBVIOUS
<1>3. /\ n \in Nat /\ DOMAIN auditLog = 1..n /\ DOMAIN auditLog' = 1..(n + 1)
      /\ \A i \in 1..n : auditLog'[i] = auditLog[i]
      /\ auditLog'[n + 1] = e
  BY DEF LogTyped
<1>4. LastOf(s, field) = IF told = {} THEN None
                         ELSE auditLog[CHOOSE i \in told : \A j \in told : j <= i].detail[field]
  BY <1>1 DEF LastOf, Told
<1>5. LastOf(s, field)' = IF new = {} THEN None
                          ELSE auditLog'[CHOOSE i \in new : \A j \in new : j <= i].detail[field]
  BY <1>2 DEF LastOf, Told
<1>6. told \subseteq 1..n /\ new \subseteq 1..(n + 1)
  BY <1>1, <1>2, <1>3 DEF Told
<1>7. CASE e.source = s /\ e.detail[field] # None
  <2>1. n + 1 \in new
    BY <1>2, <1>3, <1>7 DEF Told
  <2>2. \A i \in new : i <= n + 1
    BY <1>3, <1>6
  <2>3. \A i \in new : (\A j \in new : j <= i) => i = n + 1
    BY <1>3, <1>6, <2>1
  <2>4. (CHOOSE i \in new : \A j \in new : j <= i) = n + 1
    BY <2>1, <2>2, <2>3
  <2> QED
    BY <1>2, <1>3, <1>5, <1>7, <2>1, <2>2, <2>4
<1>8. CASE ~(e.source = s /\ e.detail[field] # None)
  <2>1. new = told
    BY <1>1, <1>2, <1>3, <1>8 DEF Told
  <2>2. CASE told = {}
    BY <1>2, <1>4, <1>5, <1>8, <2>1, <2>2
  <2>3. CASE told # {}
    <3>1. PICK k : k = CHOOSE i \in told : \A j \in told : j <= i
      OBVIOUS
    <3>2. \E i \in told : \A j \in told : j <= i
      BY <1>1, <2>3 DEF LastIsThere
    <3>3. k \in 1..n
      BY <1>6, <3>1, <3>2
    <3>4. LastOf(s, field) = auditLog[k].detail[field] /\ LastOf(s, field)' = auditLog'[k].detail[field]
      BY <1>4, <1>5, <2>1, <2>3, <3>1
    <3> QED
      BY <1>2, <1>3, <1>8, <2>1, <3>2, <3>3, <3>4
  <2> QED
    BY <2>2, <2>3
<1> QED
  BY <1>7, <1>8

(* A step changes what a request has to tell when it edits its source, when it tells
   of it, and when the process is killed; whatever it is about, it stays about. *)
Tells(q) ==
    \/ request'[q] = request[q]
    \/ /\ request[q].changed = Nothing /\ request'[q].changed = Nothing /\ request'[q].pc # "new"
       /\ request'[q].source = request[q].source \/ request[q].pc = "new"
       /\ request'[q].pc # "await" \/ request[q].pc = "new"
    \/ EditSource(q) /\ request'[q].pc = "audit" /\ request'[q].source = request[q].source
    \/ /\ AuditRequest(q) /\ request'[q].pc \in {"queue", "done"}
       /\ request'[q].source = request[q].source /\ request'[q].changed = request[q].changed
       /\ request'[q].kind = request[q].kind
    \/ Restart

LEMMA TellMoves ==
    ASSUME TypeInv, EditIsAlone, NewIsBlank, [Next]_vars, NEW q \in Requests
    PROVE  Tells(q)
<1>1. request[q] \in RequestState /\ request \in [Requests -> RequestState]
  BY DEF TypeInv, RequestsTyped
<1>2. request[q].pc \notin {"audit", "done"} => request[q].changed = Nothing
  <2>1. CASE request[q].pc = "new"
    BY <2>1, NewTyped DEF NewIsBlank
  <2>2. CASE request[q].pc # "new"
    BY <2>2 DEF EditIsAlone, Untold
  <2> QED
    BY <2>1, <2>2
<1>3. request[q].pc = "audit" /\ request[q].kind # "edit" => request[q].changed = Nothing
  BY DEF EditIsAlone, Untold
<1> USE <1>1, <1>2, <1>3 DEF Tells
<1>4. ASSUME NEW p \in Requests, NEW u, NEW typed, Login(p, u, typed)
      PROVE  Tells(q)
  <2>1. CASE p = q
    BY <1>4, <2>1 DEF Login, RequestState
  <2>2. CASE p # q
    BY <1>4, <2>2 DEF Login
  <2> QED
    BY <2>1, <2>2
<1>5. ASSUME NEW p \in Requests, NEW t \in Requests, NEW s \in Sources,
             NEW form, NEW kind, Begin(p, t, kind, s, form)
      PROVE  Tells(q)
  <2>1. CASE p = q
    <3>1. /\ request'[q].changed = Nothing /\ request'[q].pc \in {"await", "act"}
          /\ request[q].pc = "new"
      BY <1>5, <2>1 DEF Begin, NewRequest
    <3> QED
      BY <3>1
  <2>2. CASE p # q
    BY <1>5, <2>2 DEF Begin
  <2> QED
    BY <2>1, <2>2
<1>6. ASSUME NEW p \in Requests, LoginBegins(p) \/ LoginAnswers(p)
      PROVE  Tells(q)
  <2>1. CASE p = q
    BY <1>6, <2>1, Answers DEF LoginBegins, LoginAnswers, Goto, RequestState
  <2>2. CASE p # q
    BY <1>6, <2>2, Answers DEF LoginBegins, LoginAnswers, Goto
  <2> QED
    BY <2>1, <2>2
<1>7. ASSUME NEW p \in Requests, EditSource(p)
      PROVE  Tells(q)
  <2>1. CASE p = q
    BY <1>7, <2>1, Answers DEF EditSource, Goto, RequestState
  <2>2. CASE p # q
    BY <1>7, <2>2, Answers DEF EditSource, Goto
  <2> QED
    BY <2>1, <2>2
<1>8. ASSUME NEW p \in Requests, CreateSource(p) \/ ValidateCreated(p)
      PROVE  Tells(q)
  <2>1. CASE p = q
    BY <1>8, <2>1, Answers DEF CreateSource, ValidateCreated, Goto, RequestState
  <2>2. CASE p # q
    BY <1>8, <2>2, Answers DEF CreateSource, ValidateCreated, Goto
  <2> QED
    BY <2>1, <2>2
<1>9. ASSUME NEW p \in Requests, PollSource(p) \/ DeleteSource(p)
      PROVE  Tells(q)
  <2>1. CASE p = q
    BY <1>9, <2>1, Answers DEF PollSource, DeleteSource, Goto, RequestState
  <2>2. CASE p # q
    BY <1>9, <2>2, Answers DEF PollSource, DeleteSource, Goto
  <2> QED
    BY <2>1, <2>2
<1>10. ASSUME NEW p \in Requests, AuditRequest(p)
       PROVE  Tells(q)
  <2>1. CASE p = q
    BY <1>10, <2>1, Answers DEF AuditRequest, Goto, RequestState
  <2>2. CASE p # q
    BY <1>10, <2>2, Answers DEF AuditRequest, Goto
  <2> QED
    BY <2>1, <2>2
<1>11. CASE UNCHANGED request
  BY <1>11
<1> QED
  BY <1>4, <1>5, <1>6, <1>7, <1>8, <1>9, <1>10, <1>11
     DEF Next, vars, StartServer, BootstrapOperator, AuditBootstrap, StartCommand, ChoosePassword,
         RefusePassword, AuditCommand, EndSession, JobEnds, StatusChanges

(* The loop is taken by a coroutine when it writes and given back when it answers. *)
LEMMA LoopMoves ==
    ASSUME [Next]_vars
    PROVE  \/ loop' = loop
           \/ loop = None /\ \E p \in Requests : loop' = p /\ (EditSource(p) \/ CreateSource(p))
           \/ loop' = None /\ loop \in Requests /\ (ValidateCreated(loop) \/ AuditRequest(loop))
           \/ Restart
<1>1. ASSUME NEW p \in Requests, NEW t, NEW s, NEW form, NEW kind, Begin(p, t, kind, s, form)
      PROVE  loop' = loop
  BY <1>1 DEF Begin
<1>2. ASSUME NEW p, NEW u, NEW typed, Login(p, u, typed)
      PROVE  loop' = loop
  BY <1>2 DEF Login
<1>3. ASSUME NEW p, NEW verb, NEW u, StartCommand(p, verb, u)
      PROVE  loop' = loop
  BY <1>3 DEF StartCommand
<1>4. ASSUME NEW p,
             \/ LoginBegins(p) \/ LoginAnswers(p) \/ EndSession(p) \/ PollSource(p)
             \/ DeleteSource(p) \/ JobEnds(p) \/ StatusChanges(p)
             \/ ChoosePassword(p) \/ RefusePassword(p) \/ AuditCommand(p)
      PROVE  loop' = loop
  BY <1>4 DEF LoginBegins, LoginAnswers, EndSession, PollSource, DeleteSource, JobEnds,
       StatusChanges, ChoosePassword, RefusePassword, AuditCommand
<1>5. ASSUME NEW p \in Requests, EditSource(p) \/ CreateSource(p)
      PROVE  loop' = loop \/ (loop = None /\ loop' = p)
  BY <1>5 DEF EditSource, CreateSource, RunOnLoop
<1>6. ASSUME NEW p \in Requests, ValidateCreated(p) \/ AuditRequest(p)
      PROVE  loop' = loop \/ (loop = p /\ loop' = None)
  BY <1>6 DEF ValidateCreated, AuditRequest
<1>7. CASE StartServer \/ BootstrapOperator \/ AuditBootstrap \/ UNCHANGED vars
  BY <1>7 DEF StartServer, BootstrapOperator, AuditBootstrap, vars
<1> QED
  BY <1>1, <1>2, <1>3, <1>4, <1>5, <1>6, <1>7 DEF Next

LEMMA AloneNext ==
    ASSUME TypeInv, EditIsAlone, NewIsBlank, [Next]_vars
    PROVE  EditIsAlone' /\ NewIsBlank'
<1>1. request \in [Requests -> RequestState] /\ loop \in Requests \cup {None}
  BY DEF TypeInv, RequestsTyped, OthersTyped
<1>2. ASSUME NEW q \in Requests, request'[q].pc = "new" PROVE request'[q] = NewRequest
  <2>1. CASE request'[q] = request[q]
    BY <1>2, <2>1 DEF NewIsBlank
  <2>2. CASE Restart
    BY <1>1, <1>2, <2>2, EndedFields DEF Restart, InFlight, RequestState, NewIsBlank
  <2> QED
    BY <1>2, <2>1, <2>2, TellMoves DEF Tells
<1>3. ASSUME NEW q \in Requests, request'[q].pc \notin {"new", "done"},
             request'[q].changed # Nothing
      PROVE  request'[q].pc = "audit" /\ request'[q].kind = "edit" /\ loop' = q
  <2>1. ~Restart
    BY <1>1, <1>3, EndedFields DEF Restart, InFlight, RequestState
  <2>2. CASE request'[q] = request[q]
    <3>1. request[q].pc = "audit" /\ request[q].kind = "edit" /\ loop = q
      BY <1>3, <2>2 DEF EditIsAlone, Untold
    <3>2. ~ValidateCreated(q)
      BY <3>1 DEF ValidateCreated
    <3>3. ~AuditRequest(q)
      BY <1>1, <1>3, <2>2, <3>1, Answers DEF AuditRequest, Goto, RequestState
    <3> QED
      BY <2>1, <2>2, <3>1, <3>2, <3>3, LoopMoves
  <2>3. CASE EditSource(q) /\ request'[q].pc = "audit"
    BY <1>1, <2>3, Answers DEF EditSource, RunOnLoop, Goto, RequestState
  <2>4. CASE AuditRequest(q) /\ request'[q].changed = request[q].changed
    <3>1. request[q].kind = "edit"
      BY <1>3, <2>4 DEF AuditRequest, EditIsAlone, Untold
    <3> QED
      BY <1>1, <1>3, <2>4, <3>1, Answers DEF AuditRequest, Goto, RequestState
  <2> QED
    BY <1>3, <2>1, <2>2, <2>3, <2>4, TellMoves DEF Tells
<1> QED
  BY <1>2, <1>3 DEF EditIsAlone, NewIsBlank, Untold

(* The steps that write to a row, and what becomes of the columns an edit can change. *)
Edits(q) ==
    LET s == request[q].source
        changed == EditFromForm(request[q].form, request[q].existing) IN
    /\ EditSource(q) /\ loop = None /\ s \in Sources
    /\ sources[s] # None /\ changed # Nothing
    /\ sources' = [sources EXCEPT ![s] = Overwrite(sources[s], changed)]
    /\ request' = [request EXCEPT ![q].pc = "audit", ![q].changed = changed,
                                  ![q].action = "source.edited"]
Creates(q) ==
    LET s == request[q].source IN
    /\ CreateSource(q) /\ s \in Sources
    /\ sources' = [sources EXCEPT ![s] = Registered(request[q].form)]

LEMMA SourcesMove ==
    ASSUME TypeInv, [Next]_vars
    PROVE  \/ sources' = sources
           \/ \E s \in Sources : StatusChanges(s)
           \/ \E q \in Requests : Edits(q) \/ Creates(q) \/ DeleteSource(q)
<1>1. ASSUME NEW p \in Requests, NEW t, NEW s, NEW form, NEW kind, Begin(p, t, kind, s, form)
      PROVE  sources' = sources
  BY <1>1 DEF Begin, sourceVars
<1>2. ASSUME NEW p, NEW u, NEW typed, Login(p, u, typed)
      PROVE  sources' = sources
  BY <1>2 DEF Login, sourceVars
<1>3. ASSUME NEW p, NEW verb, NEW u, StartCommand(p, verb, u)
      PROVE  sources' = sources
  BY <1>3 DEF StartCommand, sourceVars
<1>4. ASSUME NEW p,
             \/ LoginBegins(p) \/ LoginAnswers(p) \/ EndSession(p) \/ PollSource(p)
             \/ ValidateCreated(p) \/ AuditRequest(p) \/ JobEnds(p)
             \/ ChoosePassword(p) \/ RefusePassword(p) \/ AuditCommand(p)
      PROVE  sources' = sources
  BY <1>4 DEF LoginBegins, LoginAnswers, EndSession, PollSource, ValidateCreated, AuditRequest,
       JobEnds, ChoosePassword, RefusePassword, AuditCommand, sourceVars
<1>5. ASSUME NEW p \in Requests, EditSource(p)
      PROVE  sources' = sources \/ Edits(p)
  <2>1. request[p].source \in Sources
    BY <1>5 DEF EditSource, TypeInv, RequestsTyped, Ready
  <2> QED
    BY <1>5, <2>1 DEF EditSource, RunOnLoop, Edits
<1>6. ASSUME NEW p \in Requests, CreateSource(p)
      PROVE  sources' = sources \/ Creates(p)
  <2>1. request[p].source \in Sources
    BY <1>6 DEF CreateSource, TypeInv, RequestsTyped, Ready
  <2> QED
    BY <1>6, <2>1 DEF CreateSource, Creates
<1>7. CASE StartServer \/ BootstrapOperator \/ AuditBootstrap \/ Restart \/ UNCHANGED vars
  BY <1>7 DEF StartServer, BootstrapOperator, AuditBootstrap, Restart, vars, sourceVars
<1> QED
  BY <1>1, <1>2, <1>3, <1>4, <1>5, <1>6, <1>7 DEF Next

LEMMA SourceStays ==
    ASSUME TypeInv, EditIsAlone, NewIsBlank, [Next]_vars, NEW q \in Requests,
           request[q].source # None
    PROVE  request'[q].source = request[q].source
<1>1. request[q].pc # "new"
  BY DEF NewIsBlank, NewRequest
<1>2. request \in [Requests -> RequestState]
  BY DEF TypeInv, RequestsTyped
<1>3. CASE Restart
  BY <1>2, <1>3, EndedFields DEF Restart, RequestState
<1> QED
  BY <1>1, <1>3, TellMoves DEF Tells

(* The log and the requests, one step on, tell of nothing that they did not tell of
   before, except a request that has just begun. *)
LEMMA KnownSourceNext ==
    ASSUME TypeInv, EditIsAlone, NewIsBlank, TellsOfKnown, [Next]_vars
    PROVE  TellsOfKnown'
<1>1. auditLog \in Seq(Event)
  BY DEF TypeInv, LogTyped
<1>2. ASSUME NEW s, s # None, \E r \in Requests : request[r].source = s
      PROVE  \E r \in Requests : request'[r].source = s
  BY <1>2, SourceStays
<1>3. CASE auditLog' = auditLog
  BY <1>2, <1>3 DEF TellsOfKnown
<1>4. ASSUME NEW e, auditLog' = Append(auditLog, e),
             e.source = None \/ \E r \in Requests : request[r].source = e.source
      PROVE  TellsOfKnown'
  <2> SUFFICES ASSUME NEW i \in DOMAIN auditLog', auditLog'[i].source # None
               PROVE  \E r \in Requests : request'[r].source = auditLog'[i].source
    BY DEF TellsOfKnown
  <2>1. \/ i \in DOMAIN auditLog /\ auditLog'[i] = auditLog[i]
        \/ auditLog'[i] = e
    BY <1>1, <1>4
  <2>2. \E r \in Requests : request[r].source = auditLog'[i].source
    <3>1. CASE i \in DOMAIN auditLog /\ auditLog'[i] = auditLog[i]
      BY <3>1 DEF TellsOfKnown
    <3>2. CASE auditLog'[i] = e
      BY <1>4, <3>2
    <3> QED
      BY <2>1, <3>1, <3>2
  <2> QED
    BY <1>2, <2>2
<1>5. ASSUME NEW q \in Requests, AuditRequest(q) PROVE TellsOfKnown'
  <2>1. \E e : auditLog' = Append(auditLog, e) /\ e.source = request[q].source
    BY <1>5 DEF AuditRequest, Audit
  <2> QED
    BY <1>4, <2>1
<1> QED
  BY <1>3, <1>4, <1>5, LogGrows

LEMMA SourceBegins ==
    ASSUME TypeInv, [Next]_vars, NEW q \in Requests, request'[q].source # request[q].source
    PROVE  \E t \in Requests, s \in Sources, form \in Form \cup {None} :
             \E kind \in Kind \ {"login"} :
               /\ Begin(q, t, kind, s, form)
               /\ request'[q].source = s /\ request'[q].kind = kind
               /\ \A r \in Requests \ {q} : request'[r] = request[r]
<1>1. request \in [Requests -> RequestState]
  BY DEF TypeInv, RequestsTyped
<1> USE <1>1
<1>2. ASSUME NEW p, NEW u, NEW typed, Login(p, u, typed) PROVE FALSE
  BY <1>2 DEF Login, RequestState
<1>3. ASSUME NEW p \in Requests, LoginBegins(p) \/ LoginAnswers(p) PROVE FALSE
  BY <1>3, Answers DEF LoginBegins, LoginAnswers, Goto, RequestState
<1>4. ASSUME NEW p \in Requests, EditSource(p) PROVE FALSE
  BY <1>4, Answers DEF EditSource, Goto, RequestState
<1>5. ASSUME NEW p \in Requests, CreateSource(p) \/ ValidateCreated(p) PROVE FALSE
  BY <1>5, Answers DEF CreateSource, ValidateCreated, Goto, RequestState
<1>6. ASSUME NEW p \in Requests, PollSource(p) \/ DeleteSource(p) PROVE FALSE
  BY <1>6, Answers DEF PollSource, DeleteSource, Goto, RequestState
<1>7. ASSUME NEW p \in Requests, AuditRequest(p) PROVE FALSE
  BY <1>7, Answers DEF AuditRequest, Goto, RequestState
<1>8. ~Restart
  BY EndedFields DEF Restart, RequestState
<1>9. ASSUME NEW p \in Requests, NEW t \in Requests, NEW s \in Sources,
             NEW form \in Form \cup {None}, NEW kind \in Kind \ {"login"},
             Begin(p, t, kind, s, form)
      PROVE  /\ p = q /\ request'[q].source = s /\ request'[q].kind = kind
             /\ \A r \in Requests \ {q} : request'[r] = request[r]
  <2>1. p = q
    BY <1>9 DEF Begin
  <2> QED
    BY <1>9, <2>1 DEF Begin, NewRequest
<1>10. request' # request
  OBVIOUS
<1>11. ASSUME NEW p \in Requests,
              \/ \E u \in Users, typed \in Setters : Login(p, u, typed)
              \/ LoginBegins(p) \/ LoginAnswers(p) \/ EndSession(p) \/ EditSource(p)
              \/ CreateSource(p) \/ ValidateCreated(p) \/ PollSource(p) \/ DeleteSource(p)
              \/ AuditRequest(p)
       PROVE  FALSE
  <2>1. ~EndSession(p)
    BY <1>10 DEF EndSession
  <2> QED
    BY <1>2, <1>3, <1>4, <1>5, <1>6, <1>7, <1>11, <2>1
<1>12. ASSUME NEW c \in Commands,
              \/ \E verb \in {"add", "passwd"}, u \in Users : StartCommand(c, verb, u)
              \/ ChoosePassword(c) \/ RefusePassword(c) \/ AuditCommand(c)
       PROVE  FALSE
  BY <1>10, <1>12 DEF StartCommand, ChoosePassword, RefusePassword, AuditCommand
<1>13. ASSUME NEW s \in Sources, JobEnds(s) \/ StatusChanges(s) PROVE FALSE
  BY <1>10, <1>13 DEF JobEnds, StatusChanges
<1>14. ~(StartServer \/ BootstrapOperator \/ AuditBootstrap \/ Restart \/ UNCHANGED vars)
  BY <1>8, <1>10 DEF StartServer, BootstrapOperator, AuditBootstrap, vars
<1>15. PICK p \in Requests, t \in Requests, s \in Sources, form \in Form \cup {None} :
         \E kind \in Kind \ {"login"} : Begin(p, t, kind, s, form)
  BY <1>11, <1>12, <1>13, <1>14 DEF Next
<1>16. PICK kind \in Kind \ {"login"} : Begin(p, t, kind, s, form)
  BY <1>15
<1> QED
  BY <1>9, <1>16

LEMMA CreatesAnewNext ==
    ASSUME TypeInv, TypeInv', EditIsAlone, NewIsBlank, TellsOfKnown, CreatesAnew, [Next]_vars
    PROVE  CreatesAnew'
<1> SUFFICES ASSUME NEW q \in Requests,
                    request'[q].pc = "await", request'[q].kind = "create"
             PROVE  /\ sources'[request'[q].source] = None
                    /\ \A i \in DOMAIN auditLog' : auditLog'[i].source # request'[q].source
                    /\ \A r \in Requests \ {q} : request'[r].source # request'[q].source
  BY DEF CreatesAnew
<1>1. /\ request \in [Requests -> RequestState] /\ sources \in [Sources -> Row \cup {None}]
      /\ auditLog \in Seq(Event) /\ request'[q].source \in Sources
  BY DEF TypeInv, RequestsTyped, RowsTyped, LogTyped, Ready
<1>2. PICK s \in Sources : s = request'[q].source
  BY <1>1
<1>3. CASE request'[q] = request[q]
  <2>1. /\ sources[s] = None /\ request[q].source = s
        /\ \A i \in DOMAIN auditLog : auditLog[i].source # s
        /\ \A r \in Requests \ {q} : request[r].source # s
    BY <1>2, <1>3 DEF CreatesAnew
  <2>2. sources'[s] = None
    <3>1. ASSUME NEW p \in Sources, StatusChanges(p) PROVE sources'[s] = None
      BY <1>1, <2>1, <3>1 DEF StatusChanges
    <3>2. ASSUME NEW p \in Requests, Edits(p) PROVE sources'[s] = None
      BY <1>1, <2>1, <3>2 DEF Edits
    <3>3. ASSUME NEW p \in Requests, Creates(p) PROVE sources'[s] = None
      <4>1. p # q
        BY <1>1, <1>3, <3>3, Answers DEF Creates, CreateSource, Goto, RequestState
      <4> QED
        BY <1>1, <2>1, <3>3, <4>1 DEF Creates
    <3>4. ASSUME NEW p \in Requests, DeleteSource(p) PROVE sources'[s] = None
      BY <1>1, <2>1, <3>4 DEF DeleteSource
    <3> QED
      BY <2>1, <3>1, <3>2, <3>3, <3>4, SourcesMove
  <2>3. \A i \in DOMAIN auditLog' : auditLog'[i].source # s
    <3>1. ASSUME NEW e, auditLog' = Append(auditLog, e), e.source # s
          PROVE  \A i \in DOMAIN auditLog' : auditLog'[i].source # s
      BY <1>1, <2>1, <3>1
    <3>2. ASSUME NEW p \in Requests, AuditRequest(p)
          PROVE  \E e : auditLog' = Append(auditLog, e) /\ e.source # s
      <4>1. p # q
        BY <1>3, <3>2 DEF AuditRequest
      <4>2. \E e : auditLog' = Append(auditLog, e) /\ e.source = request[p].source
        BY <3>2 DEF AuditRequest, Audit
      <4> QED
        BY <2>1, <4>1, <4>2
    <3> QED
      BY <2>1, <3>1, <3>2, LogGrows
  <2>4. ASSUME NEW r \in Requests \ {q} PROVE request'[r].source # s
    <3> SUFFICES ASSUME request'[r].source # request[r].source PROVE request'[r].source # s
      BY <2>1
    <3>1. PICK t \in Requests, x \in Sources, form \in Form \cup {None} :
            \E kind \in Kind \ {"login"} :
              Begin(r, t, kind, x, form) /\ request'[r].source = x
      BY SourceBegins
    <3>2. Fresh(x) \/ sources[x] # None
      BY <3>1 DEF Begin, GetSource
    <3> QED
      BY <2>1, <3>1, <3>2 DEF Fresh
  <2> QED
    BY <1>2, <2>2, <2>3, <2>4
<1>4. CASE request'[q] # request[q]
  <2>1. request[q].pc = "new"
    <3>1. ~Restart
      BY <1>1, <1>4, EndedFields DEF Restart, InFlight, RequestState
    <3> QED
      BY <1>4, <3>1, TellMoves DEF Tells
  <2>2. request[q].source = None
    BY <2>1 DEF NewIsBlank, NewRequest
  <2>3. /\ Fresh(s) /\ sources' = sources /\ auditLog' = auditLog
        /\ \A r \in Requests \ {q} : request'[r] = request[r]
    <3>1. request'[q].source # request[q].source
      BY <1>1, <2>2
    <3>2. PICK t \in Requests, x \in Sources, form \in Form \cup {None} :
            \E kind \in Kind \ {"login"} :
              /\ Begin(q, t, kind, x, form) /\ request'[q].source = x
              /\ request'[q].kind = kind
              /\ \A r \in Requests \ {q} : request'[r] = request[r]
      BY <3>1, SourceBegins
    <3>3. Begin(q, t, "create", s, form)
      BY <1>2, <3>2
    <3> QED
      BY <3>2, <3>3 DEF Begin, sourceVars
  <2> QED
    BY <1>2, <2>3 DEF Fresh, TellsOfKnown
<1> QED
  BY <1>3, <1>4

(* What the log told last of a column changes when a request is told of it. *)
TellsOf(q, s, field) ==
    AuditRequest(q) /\ request[q].source = s /\ request[q].changed[field] # None

LEMMA LastMoves ==
    ASSUME TypeInv, LastIsThere, [Next]_vars, NEW s \in Sources, NEW field \in Columns
    PROVE  /\ \/ /\ LastOf(s, field)' = LastOf(s, field)
                 /\ ~\E q \in Requests : TellsOf(q, s, field)
              \/ \E q \in Requests :
                    TellsOf(q, s, field) /\ LastOf(s, field)' = request[q].changed[field]
           /\ \/ Told(s, field)' = {}
              \/ \E i \in Told(s, field)' : \A j \in Told(s, field)' : j <= i
<1>1. LogTyped
  BY DEF TypeInv
<1>2. ASSUME NEW q \in Requests, AuditRequest(q)
      PROVE  \E e : /\ auditLog' = Append(auditLog, e)
                    /\ e.source = request[q].source /\ e.detail = request[q].changed
  BY <1>2 DEF AuditRequest, Audit
<1>3. CASE \E q \in Requests : AuditRequest(q)
  <2>1. PICK q \in Requests : AuditRequest(q)
    BY <1>3
  <2>2. PICK e : /\ auditLog' = Append(auditLog, e)
                 /\ e.source = request[q].source /\ e.detail = request[q].changed
    BY <1>2, <2>1
  <2>3. \A p \in Requests : AuditRequest(p) => /\ request[p].source = e.source
                                               /\ request[p].changed = e.detail
    <3> SUFFICES ASSUME NEW p \in Requests, AuditRequest(p)
                 PROVE  request[p].source = e.source /\ request[p].changed = e.detail
      OBVIOUS
    <3>1. PICK f : /\ auditLog' = Append(auditLog, f)
                   /\ f.source = request[p].source /\ f.detail = request[p].changed
      BY <1>2
    <3>2. e = auditLog'[Len(auditLog) + 1]
      BY <1>1, <2>2 DEF LogTyped
    <3>3. f = auditLog'[Len(auditLog) + 1]
      BY <1>1, <3>1 DEF LogTyped
    <3> QED
      BY <3>1, <3>2, <3>3
  <2>4. /\ LastOf(s, field)' = IF e.source = s /\ e.detail[field] # None THEN e.detail[field]
                               ELSE LastOf(s, field)
        /\ \/ Told(s, field)' = {}
           \/ \E i \in Told(s, field)' : \A j \in Told(s, field)' : j <= i
    BY <1>1, <2>2, LastAppended
  <2>5. CASE e.source = s /\ e.detail[field] # None
    BY <2>1, <2>2, <2>4, <2>5 DEF TellsOf
  <2>6. CASE ~(e.source = s /\ e.detail[field] # None)
    BY <2>3, <2>4, <2>6 DEF TellsOf
  <2> QED
    BY <2>5, <2>6
<1>4. CASE ~\E q \in Requests : AuditRequest(q)
  <2>1. CASE auditLog' = auditLog
    <3>1. LastOf(s, field)' = LastOf(s, field)
      BY <2>1 DEF LastOf
    <3>2. Told(s, field)' = Told(s, field)
      BY <2>1 DEF Told
    <3> QED
      BY <1>4, <3>1, <3>2 DEF TellsOf, LastIsThere
  <2>2. ASSUME NEW e, auditLog' = Append(auditLog, e), e.source = None
        PROVE  /\ LastOf(s, field)' = LastOf(s, field)
               /\ \/ Told(s, field)' = {}
                  \/ \E i \in Told(s, field)' : \A j \in Told(s, field)' : j <= i
    <3>1. e.source # s
      BY <2>2
    <3> QED
      BY <1>1, <2>2, <3>1, LastAppended
  <2> QED
    BY <1>4, <2>1, <2>2, LogGrows DEF TellsOf
<1> QED
  BY <1>3, <1>4

LEMMA LastThereNext ==
    ASSUME TypeInv, LastIsThere, [Next]_vars
    PROVE  LastIsThere'
  BY LastMoves DEF LastIsThere

LEMMA LastOfNothing ==
    ASSUME NEW s, NEW field, \A i \in DOMAIN auditLog : auditLog[i].source # s
    PROVE  LastOf(s, field) = None
  BY DEF LastOf

LEMMA UnauditedMoves ==
    ASSUME [Next]_vars
    PROVE  unaudited' = unaudited \/ Restart
<1>1. ASSUME NEW p \in Requests, NEW t, NEW s, NEW form, NEW kind, Begin(p, t, kind, s, form)
      PROVE  unaudited' = unaudited
  BY <1>1 DEF Begin
<1>2. ASSUME NEW p, NEW u, NEW typed, Login(p, u, typed)
      PROVE  unaudited' = unaudited
  BY <1>2 DEF Login
<1>3. ASSUME NEW p, NEW verb, NEW u, StartCommand(p, verb, u)
      PROVE  unaudited' = unaudited
  BY <1>3 DEF StartCommand
<1>4. ASSUME NEW p,
             \/ LoginBegins(p) \/ LoginAnswers(p) \/ EndSession(p) \/ PollSource(p)
             \/ EditSource(p) \/ CreateSource(p) \/ ValidateCreated(p) \/ AuditRequest(p)
             \/ DeleteSource(p) \/ JobEnds(p) \/ StatusChanges(p)
             \/ ChoosePassword(p) \/ RefusePassword(p) \/ AuditCommand(p)
      PROVE  unaudited' = unaudited
  BY <1>4 DEF LoginBegins, LoginAnswers, EndSession, PollSource, EditSource, CreateSource,
       ValidateCreated, AuditRequest, DeleteSource, JobEnds,
       StatusChanges, ChoosePassword, RefusePassword, AuditCommand
<1>5. CASE StartServer \/ BootstrapOperator \/ AuditBootstrap \/ UNCHANGED vars
  BY <1>5 DEF StartServer, BootstrapOperator, AuditBootstrap, vars
<1> QED
  BY <1>1, <1>2, <1>3, <1>4, <1>5 DEF Next

LEMMA AgreesStays ==
    ASSUME NEW s \in Sources, NEW field \in Columns, Agrees(s, field),
           LastOf(s, field)' = LastOf(s, field), sources'[s][field] = sources[s][field],
           \A q \in Requests :
               Untold(q)' /\ request'[q].source = s <=> Untold(q) /\ request[q].source = s,
           \A q \in Requests : Untold(q) /\ request[q].source = s =>
               request'[q].changed = request[q].changed
    PROVE  Agrees(s, field)'
<1>1. ASSUME NEW q \in Requests, Untold(q)', request'[q].source = s
      PROVE  request'[q].changed[field] \in {None, sources'[s][field]}
  BY <1>1 DEF Agrees
<1>2. ASSUME \A q \in Requests : Untold(q)' /\ request'[q].source = s =>
                 request'[q].changed[field] = None
      PROVE  LastOf(s, field)' \in {None, sources'[s][field]}
  <2>1. \A q \in Requests : Untold(q) /\ request[q].source = s =>
            request[q].changed[field] = None
    BY <1>2
  <2> QED
    BY <2>1 DEF Agrees
<1> QED
  BY <1>1, <1>2 DEF Agrees

(* Without an edit in flight the row agrees with the log itself. *)
LEMMA AgreesAtRest ==
    ASSUME NEW s, NEW field, ~\E q \in Requests : Untold(q) /\ request[q].source = s
    PROVE  Agrees(s, field) <=> LastOf(s, field) \in {None, sources[s][field]}
  BY DEF Agrees

LEMMA AgreesEdited ==
    ASSUME TypeInv, LastIsThere, EditIsAlone, [Next]_vars,
           NEW q \in Requests, Edits(q), NEW field \in Columns,
           NEW s \in Sources, s = request[q].source, Agrees(s, field)
    PROVE  Agrees(s, field)'
<1> DEFINE changed == EditFromForm(request[q].form, request[q].existing)
<1>1. s = request[q].source
  OBVIOUS
<1>2. PICK c : c = changed
  OBVIOUS
<1>3. /\ loop = None /\ c # Nothing /\ sources[s] \in Row
      /\ sources' = [sources EXCEPT ![s] = Overwrite(sources[s], c)]
      /\ request' = [request EXCEPT ![q].pc = "audit", ![q].changed = c,
                                    ![q].action = "source.edited"]
  BY <1>1, <1>2 DEF Edits, TypeInv, RowsTyped
<1> HIDE DEF changed
<1>4. request \in [Requests -> RequestState] /\ sources \in [Sources -> Row \cup {None}]
  BY DEF TypeInv, RequestsTyped, RowsTyped
<1>5. \A r \in Requests : ~Untold(r)
  BY <1>3 DEF EditIsAlone
<1>6. LastOf(s, field) \in {None, sources[s][field]}
  BY <1>1, <1>5, AgreesAtRest
<1>7. /\ request'[q].changed = c /\ request'[q].pc = "audit" /\ request'[q].source = s
      /\ \A r \in Requests \ {q} : request'[r] = request[r]
  BY <1>1, <1>3, <1>4 DEF RequestState
<1>8. sources'[s][field] = IF c[field] = None THEN sources[s][field] ELSE c[field]
  <2>1. sources'[s] = Overwrite(sources[s], c)
    BY <1>3, <1>4
  <2> PICK row \in Row : row = sources[s]
    BY <1>3
  <2>2. sources'[s] = [row EXCEPT !.channel = IF c.channel = None THEN @ ELSE c.channel,
                                  !.asset = IF c.asset = None THEN @ ELSE c.asset]
    BY <2>1 DEF Overwrite
  <2>3. CASE field = "channel"
    BY <2>2, <2>3 DEF Row
  <2>4. CASE field = "asset"
    BY <2>2, <2>4 DEF Row
  <2> QED
    BY <2>3, <2>4 DEF Columns
<1>9. \A r \in Requests : request'[r].pc \notin {"new", "done"} /\ request'[r].changed # Nothing
          => r = q
  BY <1>5, <1>7 DEF Untold
<1>10. LastOf(s, field)' = LastOf(s, field)
  <2>1. auditLog' = auditLog
    BY DEF Edits, EditSource
  <2> QED
    BY <2>1 DEF LastOf
<1>11. \A r \in Requests : Untold(r)' => r = q
  BY <1>9 DEF Untold
<1>12. Untold(q)'
  BY <1>3, <1>7 DEF Untold
<1>13. ASSUME NEW r \in Requests, Untold(r)', request'[r].source = s
       PROVE  request'[r].changed[field] \in {None, sources'[s][field]}
  BY <1>7, <1>8, <1>11, <1>13
<1>14. ASSUME \A r \in Requests : Untold(r)' /\ request'[r].source = s =>
                  request'[r].changed[field] = None
       PROVE  LastOf(s, field)' \in {None, sources'[s][field]}
  <2>1. c[field] = None
    BY <1>7, <1>12, <1>14
  <2> QED
    BY <1>6, <1>8, <1>10, <2>1
<1> QED
  BY <1>13, <1>14 DEF Agrees

LEMMA AgreesCreated ==
    ASSUME TypeInv, EditIsAlone, NewIsBlank, CreatesAnew, [Next]_vars,
           NEW q \in Requests, Creates(q), NEW field \in Columns,
           NEW s \in Sources, s = request[q].source
    PROVE  Agrees(s, field)'
<1>1. /\ request[q].pc = "await" /\ request[q].kind = "create" /\ auditLog' = auditLog
      /\ request \in [Requests -> RequestState]
  BY DEF Creates, CreateSource, TypeInv, RequestsTyped
<1>2. /\ \A i \in DOMAIN auditLog : auditLog[i].source # s
      /\ \A r \in Requests \ {q} : request[r].source # s
  BY <1>1 DEF CreatesAnew
<1>3. LastOf(s, field) = None
  BY <1>2, LastOfNothing
<1>4. LastOf(s, field)' = None
  <2>1. auditLog' = auditLog
    BY <1>1
  <2>2. LastOf(s, field)' = LastOf(s, field)
    BY <2>1 DEF LastOf
  <2> QED
    BY <2>2, <1>3
<1>5. request[q].changed = Nothing
  <2>1. ~Untold(q)
    BY <1>1 DEF EditIsAlone
  <2>2. request[q].pc \notin {"new", "done"}
    BY <1>1
  <2> QED
    BY <2>1, <2>2 DEF Untold
<1>6. \/ request' = [request EXCEPT ![q].pc = "audit", ![q].action = "source.added"]
      \/ Answer(q)
  BY DEF Creates, CreateSource
<1>7. /\ \A r \in Requests \ {q} : request'[r] = request[r]
      /\ request'[q].changed = Nothing
  BY <1>1, <1>5, <1>6, Answers DEF RequestState
<1>8. ~\E r \in Requests : Untold(r)' /\ request'[r].source = s
  BY <1>2, <1>7 DEF Untold
<1> QED
  BY <1>4, <1>8 DEF Agrees

(* The entry that tells of the edit in flight says what the row holds. *)
LEMMA AgreesTold ==
    ASSUME TypeInv, LastIsThere, EditIsAlone, [Next]_vars,
           NEW q \in Requests, AuditRequest(q), request[q].changed # Nothing,
           NEW field \in Columns, NEW s \in Sources, s = request[q].source,
           Agrees(s, field), sources'[s][field] = sources[s][field]
    PROVE  Agrees(s, field)'
<1>1. Untold(q) /\ request[q].kind = "edit" /\ loop = q /\ request \in [Requests -> RequestState]
  BY DEF AuditRequest, Untold, EditIsAlone, TypeInv, RequestsTyped
<1>2. \A r \in Requests : Untold(r) => r = q
  BY <1>1 DEF EditIsAlone
<1>3. Answer(q)
  BY <1>1 DEF AuditRequest
<1>4. request'[q].pc = "done" /\ \A r \in Requests \ {q} : request'[r] = request[r]
  BY <1>1, <1>3, Answers DEF Goto, RequestState
<1>5. ~\E r \in Requests : Untold(r)'
  BY <1>2, <1>4 DEF Untold
<1>6. LastOf(s, field)' \in {None, sources'[s][field]}
  <2>1. CASE request[q].changed[field] = None
    <3>1. LastOf(s, field) \in {None, sources[s][field]}
      BY <1>2, <2>1 DEF Agrees
    <3>2. ~\E r \in Requests : TellsOf(r, s, field)
      BY <1>1, <2>1 DEF TellsOf, AuditRequest, EditIsAlone, Untold, Nothing
    <3> QED
      BY <3>1, <3>2, LastMoves
  <2>2. CASE request[q].changed[field] # None
    <3>1. request[q].changed[field] = sources[s][field]
      BY <1>1, <2>2 DEF Agrees
    <3>2. TellsOf(q, s, field)
      BY <2>2 DEF TellsOf
    <3>3. \A r \in Requests : TellsOf(r, s, field) => r = q
      BY <1>1, <1>4, Answers DEF TellsOf, AuditRequest, Goto, RequestState
    <3> QED
      BY <3>1, <3>2, <3>3, LastMoves
  <2> QED
    BY <2>1, <2>2
<1> QED
  BY <1>5, <1>6 DEF Agrees

(* A row that is neither registered nor edited keeps its columns. *)
LEMMA ColumnsStay ==
    ASSUME TypeInv, [Next]_vars, NEW s \in Sources, NEW field \in Columns, sources'[s] # None,
           ~\E q \in Requests : (Edits(q) \/ Creates(q)) /\ request[q].source = s
    PROVE  sources[s] # None /\ sources'[s][field] = sources[s][field]
<1>1. sources \in [Sources -> Row \cup {None}]
  BY DEF TypeInv, RowsTyped
<1>2. ASSUME NEW x \in Sources, StatusChanges(x)
      PROVE  sources[s] # None /\ sources'[s][field] = sources[s][field]
  <2>1. CASE x = s
    <3>1. sources[s] \in Row /\ sources'[s] = [sources[s] EXCEPT !.pollable = ~@]
      BY <1>1, <1>2, <2>1 DEF StatusChanges
    <3> QED
      BY <1>1, <1>2, <2>1, <3>1 DEF Row, Columns, StatusChanges
  <2>2. CASE x # s
    BY <1>1, <1>2, <2>2 DEF StatusChanges
  <2> QED
    BY <2>1, <2>2
<1>3. ASSUME NEW q \in Requests, Edits(q) \/ Creates(q) \/ DeleteSource(q)
      PROVE  sources'[s] = sources[s]
  <2>1. CASE Edits(q)
    BY <1>1, <2>1 DEF Edits
  <2>2. CASE Creates(q)
    BY <1>1, <2>2 DEF Creates
  <2>3. CASE DeleteSource(q)
    BY <1>1, <2>3 DEF DeleteSource
  <2> QED
    BY <1>3, <2>1, <2>2, <2>3
<1> QED
  BY <1>2, <1>3, SourcesMove

LEMMA EditsWhen ==
    ASSUME TypeInv, NEW q \in Requests, EditSource(q), request'[q].pc = "audit"
    PROVE  Edits(q)
<1>1. /\ request \in [Requests -> RequestState] /\ request[q].source \in Sources
      /\ ~Answer(q)
  BY Answers DEF EditSource, TypeInv, RequestsTyped, Ready, Goto, RequestState
<1> QED
  BY <1>1 DEF EditSource, RunOnLoop, Edits

LEMMA RowsAgreeNext ==
    ASSUME TypeInv, ReplayInv, [Next]_vars
    PROVE  RowsAgree'
<1>1. /\ LastIsThere /\ EditIsAlone /\ NewIsBlank /\ CreatesAnew /\ RowsAgree
      /\ request \in [Requests -> RequestState]
  BY DEF ReplayInv, TypeInv, RequestsTyped
<1> SUFFICES ASSUME NEW s \in Sources \ unaudited', sources'[s] # None, NEW field \in Columns
             PROVE  Agrees(s, field)'
  BY DEF RowsAgree
<1>2. s \notin unaudited
  BY UnauditedMoves DEF Restart
<1>3. CASE \E q \in Requests : Creates(q) /\ request[q].source = s
  BY <1>1, <1>3, AgreesCreated
<1>4. CASE \E q \in Requests : Edits(q) /\ request[q].source = s
  <2>1. Agrees(s, field)
    BY <1>1, <1>2, <1>4 DEF RowsAgree, Edits
  <2> QED
    BY <1>1, <1>4, <2>1, AgreesEdited
<1>5. CASE ~\E q \in Requests : (Edits(q) \/ Creates(q)) /\ request[q].source = s
  <2>1. sources[s] # None /\ sources'[s][field] = sources[s][field]
    BY <1>5, ColumnsStay
  <2>2. Agrees(s, field)
    BY <1>1, <1>2, <2>1 DEF RowsAgree
  <2>3. CASE Restart
    <3>1. ~\E q \in Requests : Untold(q) /\ request[q].source = s
      BY <2>3, EndedFields DEF Restart, InFlight, Untold
    <3>2. ~\E q \in Requests : Untold(q)'
      BY <1>1, <2>3, EndedFields DEF Restart, InFlight, Untold, RequestState
    <3>3. LastOf(s, field) \in {None, sources[s][field]}
      BY <2>2, <3>1, AgreesAtRest
    <3>4. LastOf(s, field)' = LastOf(s, field)
      BY <2>3 DEF Restart, LastOf
    <3> QED
      BY <2>1, <3>2, <3>3, <3>4 DEF Agrees
  <2>4. CASE \E q \in Requests : /\ AuditRequest(q) /\ request[q].source = s
                                 /\ request[q].changed # Nothing
    BY <1>1, <2>1, <2>2, <2>4, AgreesTold
  <2>5. CASE /\ ~Restart
             /\ ~\E q \in Requests : /\ AuditRequest(q) /\ request[q].source = s
                                     /\ request[q].changed # Nothing
    <3>1. LastOf(s, field)' = LastOf(s, field)
      <4>1. ~\E q \in Requests : TellsOf(q, s, field)
        BY <2>5 DEF TellsOf, Nothing, Columns
      <4> QED
        BY <1>1, <4>1, LastMoves
    <3>2. ASSUME NEW q \in Requests
          PROVE  /\ Untold(q)' /\ request'[q].source = s <=> Untold(q) /\ request[q].source = s
                 /\ Untold(q) /\ request[q].source = s => request'[q].changed = request[q].changed
      <4>1. CASE request'[q] = request[q]
        BY <4>1 DEF Untold
      <4>2. CASE request[q].changed = Nothing /\ request'[q].changed = Nothing
        BY <4>2 DEF Untold
      <4>3. CASE /\ EditSource(q) /\ request'[q].pc = "audit"
                 /\ request'[q].source = request[q].source
        BY <1>5, <4>3, EditsWhen
      <4>4. CASE /\ AuditRequest(q) /\ request'[q].source = request[q].source
                 /\ request'[q].changed = request[q].changed
        BY <2>5, <4>4 DEF Untold
      <4> QED
        BY <1>1, <2>5, <4>1, <4>2, <4>3, <4>4, TellMoves DEF Tells
    <3> QED
      BY <2>1, <2>2, <3>1, <3>2, AgreesStays
  <2> QED
    BY <2>3, <2>4, <2>5
<1> QED
  BY <1>3, <1>4, <1>5

LEMMA ReplayInit == Init => ReplayInv
<1> SUFFICES ASSUME Init PROVE ReplayInv
  OBVIOUS
<1>1. /\ \A q \in Requests : request[q] = NewRequest /\ ~Untold(q)
      /\ DOMAIN auditLog = {}
  BY NewTyped DEF Init, Untold
<1>2. LastIsThere /\ TellsOfKnown
  BY <1>1 DEF LastIsThere, Told, TellsOfKnown
<1>3. EditIsAlone /\ NewIsBlank /\ CreatesAnew
  BY <1>1, NewTyped DEF EditIsAlone, NewIsBlank, CreatesAnew
<1>4. RowsAgree
  <2> SUFFICES ASSUME NEW s \in Sources, NEW field \in Columns PROVE Agrees(s, field)
    BY DEF RowsAgree
  <2>1. LastOf(s, field) = None
    BY <1>1, LastOfNothing
  <2> QED
    BY <1>1, <2>1, AgreesAtRest
<1> QED
  BY <1>2, <1>3, <1>4 DEF ReplayInv

LEMMA ReplayNext == TypeInv /\ TypeInv' /\ ReplayInv /\ [Next]_vars => ReplayInv'
<1> SUFFICES ASSUME TypeInv, TypeInv', ReplayInv, [Next]_vars PROVE ReplayInv'
  OBVIOUS
<1>1. LastIsThere /\ EditIsAlone /\ NewIsBlank /\ TellsOfKnown /\ CreatesAnew
  BY DEF ReplayInv
<1>2. EditIsAlone' /\ NewIsBlank'
  BY <1>1, AloneNext
<1>3. LastIsThere' /\ TellsOfKnown'
  BY <1>1, LastThereNext, KnownSourceNext
<1>4. CreatesAnew'
  BY <1>1, CreatesAnewNext
<1>5. RowsAgree'
  BY RowsAgreeNext
<1> QED
  BY <1>2, <1>3, <1>4, <1>5 DEF ReplayInv

(* The audit log replays: the last value it has for a column is what the column
   holds, for any number of requests that edit, register, delete and are killed,
   although an edit is made in one transaction, told of in another and computed
   from a row that was read before a wait (app.edit_source, store.audit). *)
THEOREM LogReplays == Spec => []Replays
<1>1. ReplayInv => Replays
  <2> SUFFICES ASSUME ReplayInv, NEW s \in Sources \ unaudited, sources[s] # None,
                      ~Auditing(s), NEW field \in {"channel", "asset"}
               PROVE  LastOf(s, field) \in {None, sources[s][field]}
    BY DEF Replays
  <2>1. Agrees(s, field)
    BY DEF ReplayInv, RowsAgree, Columns
  <2>2. ~\E q \in Requests : Untold(q) /\ request[q].source = s
    BY DEF Auditing, InFlight, Untold
  <2> QED
    BY <2>1, <2>2, AgreesAtRest
<1> QED
  BY <1>1, ReplayInit, ReplayNext, TypeInit, TypeNext, PTL DEF Spec
=============================================================================
