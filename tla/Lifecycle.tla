----------------------------- MODULE Lifecycle -----------------------------
(***************************************************************************)
(* One life of the process: boot, requests on kept-alive connections, the  *)
(* mails their handlers leave behind, and the ways it ends.                *)
(*                                                                         *)
(* server.close() stops listening and closes the connections on which no   *)
(* request is in progress; its callback runs once the last of the others   *)
(* is gone.  A handler does not notice that its client has left.  An event *)
(* is published in the same tick as the answer is sent, and the mail it    *)
(* starts is awaited by nobody.                                            *)
(*                                                                         *)
(* A connection is modelled from its first request on.                     *)
(***************************************************************************)
EXTENDS Naturals

CONSTANTS
  Conns,      \* connections there can be at once, one request on each
  MaxSignals  \* bound: SIGINT and SIGTERM received

ASSUME SignalsAssumption == MaxSignals \in Nat

VARIABLES
  exit,         \* "running", or how the process ended
  ready,        \* registerShutdown has run
  listening,    \* the server accepts connections
  database,     \* prisma is connected, and nobody asked it to disconnect
  conn,         \* each connection: none, busy with a request, or kept alive
  working,      \* connections whose last request's handler has not ended
  mail,         \* where the mail published from each connection is, or "none"
  signals,      \* signals received
  closes,       \* callbacks of server.close() that wait for the close
  disconnects,  \* calls of prisma.$disconnect() in progress
  stuck         \* history: such a call was rejected

requestVars == <<conn, working, mail>>
closeVars == <<signals, closes, disconnects, stuck>>
vars == <<exit, ready, listening, database, conn, working, mail,
          signals, closes, disconnects, stuck>>

(* The types; a connection is busy only while its request is handled. *)
LifecycleTypeOK ==
  /\ exit \in {"running", "clean", "failed", "killed"}
  /\ ready \in BOOLEAN /\ listening \in BOOLEAN
  /\ database \in BOOLEAN /\ stuck \in BOOLEAN
  /\ conn \in [Conns -> {"none", "busy", "kept"}]
  /\ working \subseteq Conns
  /\ \A c \in Conns : conn[c] = "busy" => c \in working
  /\ \A c \in Conns : conn[c] = "kept" => c \notin working
  /\ mail \in [Conns -> {"none", "template", "slack", "smtp", "note"}]
  /\ signals \in 0..MaxSignals
  /\ closes \in Nat /\ disconnects \in Nat

(* main.ts has subscribed the mail handlers and waits for the database. *)
Init ==
  /\ exit = "running"
  /\ ready = FALSE /\ listening = FALSE /\ database = FALSE
  /\ conn = [c \in Conns |-> "none"]
  /\ working = {}
  /\ mail = [c \in Conns |-> "none"]
  /\ signals = 0 /\ closes = 0 /\ disconnects = 0
  /\ stuck = FALSE

(* process.exit, and everything in progress stays where it is. *)
Exit(how) ==
  /\ exit = "running" /\ exit' = how
  /\ UNCHANGED <<ready, listening, database, requestVars, closeVars>>

-----------------------------------------------------------------------------
(* Boot: the database answers, the server listens, the handlers of signals *)
(* are registered; all in one tick.                                        *)
Connected ==
  /\ exit = "running"
  /\ ~ready
  /\ ready' = TRUE /\ listening' = TRUE /\ database' = TRUE
  /\ UNCHANGED <<exit, requestVars, closeVars>>

(* Boot: the database cannot be reached. *)
ConnectFails ==
  /\ ~ready
  /\ Exit("failed")

(* A client connects and sends a request. *)
Arrive(c) ==
  /\ exit = "running"
  /\ listening
  /\ conn[c] = "none" /\ c \notin working
  /\ conn' = [conn EXCEPT ![c] = "busy"]
  /\ working' = working \cup {c}
  /\ UNCHANGED <<exit, ready, listening, database, mail, closeVars>>

(* A client sends another request on a connection that was kept alive.     *)
AskAgain(c) ==
  /\ exit = "running"
  /\ conn[c] = "kept"
  /\ conn' = [conn EXCEPT ![c] = "busy"]
  /\ working' = working \cup {c}
  /\ UNCHANGED <<exit, ready, listening, database, mail, closeVars>>

(* A client closes its connection, answered or not.  Its handler goes on.  *)
Hangup(c) ==
  /\ exit = "running"
  /\ conn[c] # "none"
  /\ conn' = [conn EXCEPT ![c] = "none"]
  /\ UNCHANGED <<exit, ready, listening, database, working, mail, closeVars>>

(* The publish of a handler that ends, if there is one: the subscriber     *)
(* starts the mail and is not awaited.  Bound: one mail per connection.    *)
Publish(c) ==
  \/ UNCHANGED mail
  \/ mail[c] = "none" /\ mail' = [mail EXCEPT ![c] = "template"]

(* Mutant: the handler awaits what it published. *)
AnswerAwaitsMail(c) ==
  /\ exit = "running"
  /\ c \in working
  /\ mail[c] = "none"
  /\ \/ /\ mail' = [mail EXCEPT ![c] = "template"]
        /\ UNCHANGED <<conn, working>>
     \/ /\ working' = working \ {c}
        /\ conn' = IF conn[c] = "busy" THEN [conn EXCEPT ![c] = "kept"] ELSE conn
        /\ UNCHANGED mail
  /\ UNCHANGED <<exit, ready, listening, database, closeVars>>

(* Mutant: the answer is sent before the last await of the handler. *)
AnswerEarly(c) ==
  /\ exit = "running"
  /\ c \in working
  /\ \/ /\ conn[c] = "busy"
        /\ conn' = [conn EXCEPT ![c] = "kept"]
        /\ UNCHANGED <<working, mail>>
     \/ /\ working' = working \ {c}
        /\ UNCHANGED conn
        /\ Publish(c)
  /\ UNCHANGED <<exit, ready, listening, database, closeVars>>

(* The last await of a handler is over, by an answer or by an error that   *)
(* asyncHandler and errorHandler turn into one: it publishes what it has   *)
(* to, and answers whoever is still there.                                 *)
Answer(c) ==
  /\ exit = "running"
  /\ c \in working
  /\ working' = working \ {c}
  /\ conn' \in IF conn[c] = "busy"
               THEN {[conn EXCEPT ![c] = "kept"], [conn EXCEPT ![c] = "none"]}
               ELSE {conn}
  /\ Publish(c)
  /\ UNCHANGED <<exit, ready, listening, database, closeVars>>

(* A kept connection has been idle for the server's keepAliveTimeout. *)
KeepAliveTimeout(c) ==
  /\ exit = "running"
  /\ conn[c] = "kept"
  /\ conn' = [conn EXCEPT ![c] = "none"]
  /\ UNCHANGED <<exit, ready, listening, database, working, mail, closeVars>>

(* sendEmail: the template is read, Slack is told, the mail is sent, and   *)
(* Slack is told again, which sendEmail does not wait for.                 *)
MailStep(c) ==
  /\ exit = "running"
  /\ mail[c] # "none"
  /\ mail' = [mail EXCEPT ![c] = CASE @ = "template" -> "slack"
                                   [] @ = "slack" -> "smtp"
                                   [] @ = "smtp" -> "note"
                                   [] @ = "note" -> "none"]
  /\ UNCHANGED <<exit, ready, listening, database, conn, working, closeVars>>

(* sendEmail: any of them fails; the error is logged and the mail given    *)
(* up. When it is the second note, the mail is sent by then, and the       *)
(* failure is an unhandled rejection, which is logged.                     *)
MailFails(c) ==
  /\ exit = "running"
  /\ mail[c] # "none"
  /\ mail' = [mail EXCEPT ![c] = "none"]
  /\ UNCHANGED <<exit, ready, listening, database, conn, working, closeVars>>

-----------------------------------------------------------------------------
(* shutdown, on every signal: server.close() with one more callback.  A    *)
(* server that is closed already takes the callback all the same.          *)
Signal ==
  /\ exit = "running"
  /\ ready
  /\ signals < MaxSignals
  /\ signals' = signals + 1
  /\ closes' = closes + 1
  /\ listening' = FALSE
  /\ conn' = [c \in Conns |-> IF conn[c] = "kept" THEN "none" ELSE conn[c]]
  /\ UNCHANGED <<exit, ready, database, working, mail, disconnects, stuck>>

(* Mutant: prisma is disconnected beside server.close(), not in its callback. *)
CloseBeforeDrain ==
  /\ exit = "running"
  /\ closes > 0
  /\ database' = FALSE
  /\ disconnects' = disconnects + closes
  /\ closes' = 0
  /\ UNCHANGED <<exit, ready, listening, requestVars, signals, stuck>>

(* Mutant: the mails in progress hold the exit up. *)
CloseAfterMails ==
  /\ exit = "running"
  /\ closes > 0
  /\ \A c \in Conns : conn[c] = "none" /\ mail[c] = "none"
  /\ database' = FALSE
  /\ disconnects' = disconnects + closes
  /\ closes' = 0
  /\ UNCHANGED <<exit, ready, listening, requestVars, signals, stuck>>

(* The server is closed and its last connection gone: every callback runs, *)
(* to its await of prisma.$disconnect().                                   *)
Close ==
  /\ exit = "running"
  /\ closes > 0
  /\ \A c \in Conns : conn[c] = "none"
  /\ database' = FALSE
  /\ disconnects' = disconnects + closes
  /\ closes' = 0
  /\ UNCHANGED <<exit, ready, listening, requestVars, signals, stuck>>

(* The first callback to get its answer ends the process. *)
Disconnected ==
  /\ disconnects > 0
  /\ Exit("clean")

(* prisma.$disconnect() is rejected in a callback the try around           *)
(* server.close() does not cover: an unhandled rejection, which is logged. *)
DisconnectFails ==
  /\ exit = "running"
  /\ disconnects > 0
  /\ disconnects' = disconnects - 1
  /\ stuck' = TRUE
  /\ UNCHANGED <<exit, ready, listening, database, requestVars, signals, closes>>

(* An exception nobody caught; also that the port is taken. *)
Uncaught ==
  /\ ready
  /\ Exit("failed")

(* SIGKILL; or SIGINT or SIGTERM before there is a handler. *)
Killed == Exit("killed")

Next ==
  \/ Connected \/ ConnectFails
  \/ \E c \in Conns :
       \/ Arrive(c) \/ AskAgain(c) \/ Hangup(c)
       \/ Answer(c) \/ KeepAliveTimeout(c)
       \/ MailStep(c) \/ MailFails(c)
  \/ Signal \/ Close \/ Disconnected \/ DisconnectFails
  \/ Uncaught \/ Killed

(***************************************************************************)
(* Queries and hashes are answered or fail, the timers of the server fire  *)
(* and the event loop runs the callbacks it was given.  Nothing is assumed *)
(* of clients, of signals, of Slack or of the mail server.                 *)
(***************************************************************************)
Fairness ==
  /\ WF_vars(Connected \/ ConnectFails)
  /\ WF_vars(Close)
  /\ WF_vars(Disconnected \/ DisconnectFails)
  /\ \A c \in Conns :
       /\ WF_vars(Answer(c))
       /\ WF_vars(KeepAliveTimeout(c))

Spec == Init /\ [][Next]_vars /\ Fairness

-----------------------------------------------------------------------------
(* A shutdown leaves nobody without an answer: prisma is disconnected, and *)
(* the process exits with 0, only when no request is in progress whose     *)
(* client is still there, however many signals arrive and whatever kept    *)
(* connections carry in the meantime (shutdown.bootstrap.ts:9-13).         *)
GracefulExit ==
  exit = "clean" \/ disconnects > 0 =>
    \A c \in Conns : conn[c] # "busy"

(* No request waits for a mail: it is answered, its client leaves or the   *)
(* process ends, although Slack and the mail server may never answer       *)
(* (auth.service.ts:79 and 223, event-bul.service.ts:51).                  *)
AnswersDontWait ==
  \A c \in Conns : conn[c] = "busy" ~> conn[c] # "busy" \/ exit # "running"

(* A signal ends the process, whatever requests and mails are in progress, *)
(* unless $disconnect fails: as soon as clients stop sending requests on   *)
(* the connections they have kept (shutdown.bootstrap.ts:6-23).            *)
Drains ==
  <>[][\A c \in Conns : ~AskAgain(c)]_vars =>
    (signals > 0 ~> exit # "running" \/ stuck)

(* What holds from the close of the server on: nobody is connected, and    *)
(* nobody can be.                                                          *)
ClosedForGood ==
  /\ disconnects > 0 \/ stuck \/ exit = "clean" => ready /\ ~database
  /\ ready /\ ~database => ~listening /\ \A c \in Conns : conn[c] = "none"
  /\ closes > 0 => ready /\ ~listening

=============================================================================
