------------------------------- MODULE Admin -------------------------------
(***************************************************************************)
(* The admin plane as its operators see it: accounts and sessions (auth.py,*)
(* operators.py, _bootstrap_operator), the forms that change a source      *)
(* (forms.py and the handlers of app.py), and the audit log that tells of  *)
(* them.  Every call of the store commits, so a handler is one action per  *)
(* call and anything may come between them -- except for the handlers that *)
(* are coroutines, which share one event loop: once the form is there,     *)
(* create_source and edit_source run to their end before the other does.   *)
(* Registry has the status of a source and the life of a job.              *)
(*                                                                         *)
(* How the data is abstracted:                                             *)
(*   - A password is named by who chose it, a session by its login.        *)
(*   - A source has one field of each kind an edit can change: one that    *)
(*     the table constrains (channel) and one that it does not.            *)
(*   - A session ends by its logout or its expiry; nothing in the code     *)
(*     disables an operator.                                               *)
(***************************************************************************)
EXTENDS Naturals, Sequences, FiniteSets

CONSTANTS
    None,
    Users, Bootstrapped,    \* operators, and the one named "admin"
    Requests, Commands,     \* requests, and invocations of dist_admin.operators
    Sources,
    Channels, DefaultChannel,   \* the CHECK and the DEFAULT of sources.channel
    Slugs,                  \* what _slug accepts
    Assets,
    MaxRestarts             \* bound

Setters == Commands \cup {"bootstrap"}

Row == [channel: Channels, asset: Assets, pollable: BOOLEAN]
Form == [channel: Slugs \cup {"unusable"}, asset: Assets]

ASSUME AdminAssumption ==
    /\ None \notin Users /\ None \notin Requests /\ None \notin Slugs /\ None \notin Assets
    /\ None \notin Sources /\ None \notin Setters /\ None \notin Row
    /\ "bootstrap" \notin Commands
    /\ IsFiniteSet(Users)
    /\ Bootstrapped \in Users
    /\ Channels \subseteq Slugs /\ DefaultChannel \in Channels
    /\ MaxRestarts \in Nat

VARIABLES
    password,   \* operators: who chose the password, None for no such operator
    sessions,   \* logins whose session is in the table
    cookies,    \* logins whose cookie a browser has
    sources,    \* the editable columns; None when there is no row
    jobs,       \* sources with an unfinished job
    auditLog,
    request, command,
    server,     \* the lifespan of the admin plane
    loop,       \* the coroutine between its first write and its answer
    restarts,
    unaudited,  \* history: sources with a change whose audit was lost in a crash
    known       \* history: the operators there were when a startup or a command looked

accountVars == <<password, sessions, cookies, known>>
sourceVars == <<sources, jobs>>
vars == <<accountVars, sourceVars, auditLog, request, command, server, loop, restarts, unaudited>>

Changed == [channel: Slugs \cup {None}, asset: Assets \cup {None}]
Nothing == [channel |-> None, asset |-> None]
Change == {"source.added", "source.edited", "source.poll", "source.poll.refused", "source.deleted"}
Kind == {"login", "create", "edit", "poll", "delete"}
RequestState ==
    [pc: {"new", "session", "await", "act", "queue", "audit", "done"}, kind: Kind \cup {None},
     user: Users \cup {None}, source: Sources \cup {None},
     existing: Row \cup {None}, form: Form \cup {None}, changed: Changed, action: Change \cup {None}]
NewRequest == [pc |-> "new", kind |-> None, user |-> None, source |-> None, existing |-> None,
               form |-> None, changed |-> Nothing, action |-> None]
CommandState == [pc: {"new", "prompt", "audit", "done"}, verb: {"add", "passwd"},
                 user: Users \cup {None}]
Event == [actor: Users \cup {"system", "cli"},
          action: Change \cup {"login.failed", "login.succeeded", "operator.bootstrap",
                               "add", "passwd"},
          source: Sources \cup {None}, detail: Changed]

TypeOK ==
    /\ password \in [Users -> Setters \cup {None}]
    /\ sessions \subseteq Requests
    /\ cookies \subseteq Requests
    /\ sources \in [Sources -> Row \cup {None}]
    /\ jobs \subseteq {s \in Sources : sources[s] # None}
    /\ auditLog \in Seq(Event)
    /\ request \in [Requests -> RequestState]
    /\ command \in [Commands -> CommandState]
    /\ server \in {"off", "put", "audit", "up"}
    /\ loop \in Requests \cup {None}
    /\ restarts \in 0..MaxRestarts
    /\ unaudited \subseteq Sources
    /\ known \in [Setters -> SUBSET Users]

Init ==
    /\ password = [u \in Users |-> None]
    /\ sessions = {}
    /\ cookies = {}
    /\ sources \in [Sources -> Row \cup {None}]
    /\ jobs = {}
    /\ auditLog = <<>>
    /\ request = [q \in Requests |-> NewRequest]
    /\ command = [c \in Commands |-> [pc |-> "new", verb |-> "add", user |-> None]]
    /\ server = "off"
    /\ loop = None
    /\ restarts = 0
    /\ unaudited = {}
    /\ known = [setter \in Setters |-> {}]

(* store.audit *)
Audit(actor, action, source, detail) ==
    auditLog' = Append(auditLog, [actor |-> actor, action |-> action, source |-> source,
                                  detail |-> detail])

-----------------------------------------------------------------------------
(* Accounts *)

Operators == {u \in Users : password[u] # None}
OperatorCount == Cardinality(Operators)

PutOperator(u, setter) == password' = [password EXCEPT ![u] = setter]

(* Mutant: the bootstrap password is put at every start. *)
BootstrapAlways == TRUE

BootstrapWanted == OperatorCount = 0

(* lifespan, with the bootstrap variable left set. *)
StartServer ==
    /\ server = "off"
    /\ server' = IF BootstrapWanted THEN "put" ELSE "up"
    /\ known' = [known EXCEPT !["bootstrap"] = Operators]
    /\ UNCHANGED <<password, sessions, cookies, sourceVars, auditLog, request, command, loop,
                   restarts, unaudited>>

BootstrapOperator ==
    /\ server = "put"
    /\ PutOperator(Bootstrapped, "bootstrap")
    /\ server' = "audit"
    /\ UNCHANGED <<sessions, cookies, known, sourceVars, auditLog, request, command, loop,
                   restarts, unaudited>>

AuditBootstrap ==
    /\ server = "audit"
    /\ Audit("system", "operator.bootstrap", None, Nothing)
    /\ server' = "up"
    /\ UNCHANGED <<accountVars, sourceVars, request, command, loop, restarts, unaudited>>

(* operators.main: looked up, prompted for the password, and only then put. *)
StartCommand(c, verb, u) ==
    /\ command[c].pc = "new"
    /\ command' = [command EXCEPT ![c] =
         [pc |-> IF (verb = "add") = (password[u] = None) THEN "prompt" ELSE "done",
          verb |-> verb, user |-> u]]
    /\ known' = [known EXCEPT ![c] = Operators]
    /\ UNCHANGED <<password, sessions, cookies, sourceVars, auditLog, request, server, loop,
                   restarts, unaudited>>

ChoosePassword(c) ==
    /\ command[c].pc = "prompt"
    /\ PutOperator(command[c].user, c)
    /\ command' = [command EXCEPT ![c].pc = "audit"]
    /\ UNCHANGED <<sessions, cookies, known, sourceVars, auditLog, request, server, loop,
                   restarts, unaudited>>

(* Too short a password, or two that differ. *)
RefusePassword(c) ==
    /\ command[c].pc = "prompt"
    /\ command' = [command EXCEPT ![c].pc = "done"]
    /\ UNCHANGED <<accountVars, sourceVars, auditLog, request, server, loop, restarts, unaudited>>

AuditCommand(c) ==
    /\ command[c].pc = "audit"
    /\ Audit("cli", command[c].verb, None, Nothing)
    /\ command' = [command EXCEPT ![c].pc = "done"]
    /\ UNCHANGED <<accountVars, sourceVars, request, server, loop, restarts, unaudited>>

-----------------------------------------------------------------------------
(* Sessions *)

Goto(q, pc) == request' = [request EXCEPT ![q].pc = pc]

(* What the request read is gone with it. *)
Ended(r) == [r EXCEPT !.pc = "done", !.existing = None, !.form = None]
Answer(q) == request' = [request EXCEPT ![q] = Ended(@)]

(* authenticate: against the password of the moment. *)
Login(q, u, typed) ==
    /\ server = "up"
    /\ request[q].pc = "new"
    /\ IF password[u] = typed
       THEN /\ request' = [request EXCEPT ![q].pc = "session", ![q].kind = "login", ![q].user = u]
            /\ UNCHANGED auditLog
       ELSE /\ request' = [request EXCEPT ![q].pc = "done", ![q].kind = "login"]
            /\ Audit(u, "login.failed", None, Nothing)
    /\ UNCHANGED <<accountVars, sourceVars, command, server, loop, restarts, unaudited>>

(* Mutant: the cookie is there before the login is on record. *)
BeginSessionWithCookie(q) ==
    /\ sessions' = sessions \cup {q}
    /\ cookies' = cookies \cup {q}

BeginSession(q) ==
    /\ sessions' = sessions \cup {q}
    /\ UNCHANGED cookies

LoginBegins(q) ==
    /\ request[q].pc = "session"
    /\ BeginSession(q)
    /\ Goto(q, "audit")
    /\ UNCHANGED <<password, known, sourceVars, auditLog, command, server, loop, restarts,
                   unaudited>>

LoginAnswers(q) ==
    /\ request[q].pc = "audit" /\ request[q].kind = "login"
    /\ Audit(request[q].user, "login.succeeded", None, Nothing)
    /\ cookies' = cookies \cup {q}
    /\ Answer(q)
    /\ UNCHANGED <<password, sessions, known, sourceVars, command, server, loop, restarts,
                   unaudited>>

(* logout, or the twelve hours are over.  The cookie may still be presented. *)
EndSession(t) ==
    /\ t \in sessions
    /\ sessions' = sessions \ {t}
    /\ UNCHANGED <<password, cookies, known, sourceVars, auditLog, request, command, server,
                   loop, restarts, unaudited>>

-----------------------------------------------------------------------------
(* Requests about a source.  The session and the row are read first; a coroutine
   then waits for its form, a function goes on in its thread. *)

CurrentOperator(t) == IF t \in sessions THEN request[t].user ELSE None

(* The identifier of a new row is a uuid4: nothing was ever said of it. *)
Fresh(s) == sources[s] = None /\ \A r \in Requests : request[r].source # s

GetSource(s) == sources[s]

Begin(q, t, kind, s, form) ==
    /\ server = "up"
    /\ kind = "edit" => loop = None
    /\ (form = None) = (kind \in {"poll", "delete"})
    /\ request[q].pc = "new"
    /\ t \in cookies
    /\ CurrentOperator(t) # None
    /\ IF kind = "create" THEN Fresh(s) ELSE GetSource(s) # None
    /\ request' = [request EXCEPT ![q] =
         [NewRequest EXCEPT !.pc = IF kind \in {"create", "edit"} THEN "await" ELSE "act",
                            !.kind = kind, !.user = CurrentOperator(t), !.source = s,
                            !.existing = GetSource(s), !.form = form]]
    /\ UNCHANGED <<accountVars, sourceVars, auditLog, command, server, loop, restarts, unaudited>>

(* source_edit_from_form: refused as a whole, or what differs from the row as it
   was read, before the wait for the form. *)
Usable(form) == form.channel \in Slugs
EditFromForm(form, existing) ==
    [channel |-> IF form.channel = existing.channel THEN None ELSE form.channel,
     asset   |-> IF form.asset = existing.asset THEN None ELSE form.asset]

(* What update_source writes; the row's CHECK refuses other channels, with an
   exception that nobody catches. *)
Overwrite(row, changed) ==
    [row EXCEPT !.channel = IF changed.channel = None THEN @ ELSE changed.channel,
                !.asset = IF changed.asset = None THEN @ ELSE changed.asset]
(* Mutant: a table without the CHECK. *)
StorableAnything(changed) == TRUE

Storable(changed) == changed.channel \in Channels \cup {None}

(* Mutant: the handler is a plain function, in a thread of its own. *)
RunInThread(q) == UNCHANGED loop

RunOnLoop(q) ==
    /\ loop = None
    /\ loop' = q

EditSource(q) ==
    LET changed == EditFromForm(request[q].form, request[q].existing)
        s == request[q].source IN
    /\ request[q].pc = "await" /\ request[q].kind = "edit"
    /\ IF /\ Usable(request[q].form) /\ changed # Nothing
          /\ sources[s] # None /\ Storable(changed)
       THEN /\ RunOnLoop(q)
            /\ sources' = [sources EXCEPT ![s] = Overwrite(@, changed)]
            /\ request' = [request EXCEPT ![q].pc = "audit", ![q].changed = changed,
                                          ![q].action = "source.edited"]
       ELSE /\ loop = None
            /\ Answer(q)
            /\ UNCHANGED <<sources, loop>>
    /\ UNCHANGED <<accountVars, jobs, auditLog, command, server, restarts, unaudited>>

(* source_from_form: a draft, and the form does not ask for a channel. *)
Registered(form) == [channel |-> DefaultChannel, pollable |-> FALSE, asset |-> form.asset]

(* add_source refuses an application that is registered already. *)
CreateSource(q) ==
    /\ request[q].pc = "await" /\ request[q].kind = "create"
    /\ \/ /\ Usable(request[q].form)
          /\ RunOnLoop(q)
          /\ sources' = [sources EXCEPT ![request[q].source] = Registered(request[q].form)]
          /\ request' = [request EXCEPT ![q].pc = "audit", ![q].action = "source.added"]
       \/ /\ loop = None
          /\ Answer(q)
          /\ UNCHANGED <<sources, loop>>
    /\ UNCHANGED <<accountVars, jobs, auditLog, command, server, restarts, unaudited>>

(* enqueue: nothing if there is a job; an exception if there is no row any more. *)
Enqueue(s) == jobs' = jobs \cup ({s} \cap {t \in Sources : sources[t] # None})

ValidateCreated(q) ==
    /\ request[q].pc = "queue"
    /\ Enqueue(request[q].source)
    /\ loop' = IF loop = q THEN None ELSE loop
    /\ Answer(q)
    /\ UNCHANGED <<accountVars, sources, auditLog, command, server, restarts, unaudited>>

(* source_action *)
PollSource(q) ==
    LET s == request[q].source
        queues == request[q].existing.pollable IN
    /\ request[q].pc = "act" /\ request[q].kind = "poll"
    /\ IF queues THEN Enqueue(s) ELSE UNCHANGED jobs
    /\ IF queues /\ sources[s] = None THEN Answer(q)
       ELSE request' = [request EXCEPT ![q].pc = "audit",
              ![q].action = IF queues THEN "source.poll" ELSE "source.poll.refused"]
    /\ UNCHANGED <<accountVars, sources, auditLog, command, server, loop, restarts, unaudited>>

DeleteSource(q) ==
    LET s == request[q].source IN
    /\ request[q].pc = "act" /\ request[q].kind = "delete"
    /\ sources' = [sources EXCEPT ![s] = None]
    /\ jobs' = jobs \ {s}
    /\ request' = [request EXCEPT ![q].pc = "audit", ![q].action = "source.deleted"]
    /\ UNCHANGED <<accountVars, auditLog, command, server, loop, restarts, unaudited>>

(* The event of a deletion names the source by its application. *)
AuditRequest(q) ==
    /\ request[q].pc = "audit" /\ request[q].kind # "login"
    /\ Audit(request[q].user, request[q].action, request[q].source, request[q].changed)
    /\ IF request[q].kind = "create"
       THEN Goto(q, "queue") /\ UNCHANGED loop
       ELSE Answer(q) /\ loop' = IF loop = q THEN None ELSE loop
    /\ UNCHANGED <<accountVars, sourceVars, command, server, restarts, unaudited>>

-----------------------------------------------------------------------------
(* The rest of the system, and faults *)

JobEnds(s) ==
    /\ s \in jobs
    /\ jobs' = jobs \ {s}
    /\ UNCHANGED <<accountVars, sources, auditLog, request, command, server, loop, restarts,
                   unaudited>>

StatusChanges(s) ==
    /\ sources[s] # None
    /\ sources' = [sources EXCEPT ![s].pollable = ~@]
    /\ UNCHANGED <<accountVars, jobs, auditLog, request, command, server, loop, restarts,
                   unaudited>>

(* The process is killed and started again, its requests where they were. *)
InFlight == {q \in Requests : request[q].pc \notin {"new", "done"}}
Restart ==
    /\ restarts < MaxRestarts
    /\ server # "off"
    /\ restarts' = restarts + 1
    /\ server' = "off"
    /\ loop' = None
    /\ unaudited' = unaudited \cup
         {request[q].source : q \in {p \in InFlight : request[p].changed # Nothing}}
    /\ request' = [q \in Requests |-> IF q \in InFlight THEN Ended(request[q]) ELSE request[q]]
    /\ UNCHANGED <<accountVars, sourceVars, auditLog, command>>

Next ==
    \/ StartServer \/ BootstrapOperator \/ AuditBootstrap \/ Restart
    \/ \E c \in Commands :
        \/ \E verb \in {"add", "passwd"}, u \in Users : StartCommand(c, verb, u)
        \/ ChoosePassword(c)
        \/ RefusePassword(c)
        \/ AuditCommand(c)
    \/ \E q \in Requests :
        \/ \E u \in Users, typed \in Setters : Login(q, u, typed)
        \/ LoginBegins(q) \/ LoginAnswers(q) \/ EndSession(q)
        \/ \E t \in Requests, s \in Sources, form \in Form \cup {None} :
             \E kind \in Kind \ {"login"} : Begin(q, t, kind, s, form)
        \/ EditSource(q) \/ CreateSource(q) \/ ValidateCreated(q)
        \/ PollSource(q) \/ DeleteSource(q) \/ AuditRequest(q)
    \/ \E s \in Sources : JobEnds(s) \/ StatusChanges(s)

Spec == Init /\ [][Next]_vars

-----------------------------------------------------------------------------
(* The audit log replays: the last value it has for a column of a source is what
   the column holds, although an edit is computed from a row that was read before a
   wait and is recorded in another transaction than it is made -- unless the process
   was killed between the two (app.edit_source). *)
Auditing(s) == \E q \in InFlight : request[q].source = s /\ request[q].changed # Nothing
LastOf(s, field) ==
    LET told == {i \in DOMAIN auditLog : auditLog[i].source = s /\ auditLog[i].detail[field] # None}
    IN  IF told = {} THEN None
        ELSE auditLog[CHOOSE i \in told : \A j \in told : j <= i].detail[field]
Replays ==
    \A s \in Sources \ unaudited : sources[s] # None /\ ~Auditing(s) =>
        \A field \in {"channel", "asset"} :
            LastOf(s, field) \in {None, sources[s][field]}

(* The log never tells of a change before the login of who made it, in whatever
   order requests commit (app.login). *)
ActsAfterLogin ==
    \A i \in DOMAIN auditLog : auditLog[i].source # None =>
        \E j \in 1..(i - 1) :
            auditLog[j].actor = auditLog[i].actor /\ auditLog[j].action = "login.succeeded"

(* A password that was there when a startup or an add command looked is not what it
   resets: neither a bootstrap variable that is left set, nor an add, whatever put
   operators into the table since.  Only what was put between the look and the reset
   is lost, and to a passwd command (app._bootstrap_operator, operators.main). *)
Resets(u) == password[u] # None /\ password'[u] # password[u]
MayReset(u) ==
    \/ server = "put" /\ server' = "audit" /\ u \notin known["bootstrap"]
    \/ \E c \in Commands :
          /\ command[c].pc = "prompt" /\ command'[c].pc = "audit" /\ command[c].user = u
          /\ command[c].verb = "passwd" \/ u \notin known[c]
PasswordsAreKept ==
    [][\A u \in Users : Resets(u) => MayReset(u)]_vars
=============================================================================
