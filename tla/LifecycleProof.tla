--------------------------- MODULE LifecycleProof ---------------------------
(* Proofs about Lifecycle, for any number of connections and signals.      *)
EXTENDS Lifecycle, TLAPS

(* Each step keeps the types, and with them what links a connection to the *)
(* handler of its last request: no answer leaves a connection busy, and no *)
(* request is sent on a connection whose handler still works.              *)
LEMMA TypeStep ==
  ASSUME LifecycleTypeOK, [Next]_vars
  PROVE  LifecycleTypeOK'
<1>. USE SignalsAssumption DEF LifecycleTypeOK, requestVars, closeVars
<1>1. CASE Connected
  BY <1>1 DEF Connected
<1>2. CASE ConnectFails
  BY <1>2 DEF ConnectFails, Exit
<1>3. ASSUME NEW c \in Conns, Arrive(c)
      PROVE  LifecycleTypeOK'
  BY <1>3 DEF Arrive
<1>4. ASSUME NEW c \in Conns, AskAgain(c)
      PROVE  LifecycleTypeOK'
  BY <1>4 DEF AskAgain
<1>5. ASSUME NEW c \in Conns, Hangup(c)
      PROVE  LifecycleTypeOK'
  BY <1>5 DEF Hangup
<1>6. ASSUME NEW c \in Conns, Answer(c)
      PROVE  LifecycleTypeOK'
  <2>1. mail' \in [Conns -> {"none", "template", "slack", "smtp", "note"}]
    BY <1>6 DEF Answer, Publish
  <2>. QED
    BY <1>6, <2>1 DEF Answer
<1>7. ASSUME NEW c \in Conns, KeepAliveTimeout(c)
      PROVE  LifecycleTypeOK'
  BY <1>7 DEF KeepAliveTimeout
<1>8. ASSUME NEW c \in Conns, MailStep(c)
      PROVE  LifecycleTypeOK'
  BY <1>8 DEF MailStep
<1>9. ASSUME NEW c \in Conns, MailFails(c)
      PROVE  LifecycleTypeOK'
  BY <1>9 DEF MailFails
<1>10. CASE Signal
  <2>1. conn' \in [Conns -> {"none", "busy", "kept"}]
    BY <1>10 DEF Signal
  <2>2. \A c \in Conns : conn'[c] \in {"busy", "kept"} => conn'[c] = conn[c]
    BY <1>10 DEF Signal
  <2>3. signals' \in 0..MaxSignals /\ closes' \in Nat
    BY <1>10 DEF Signal
  <2>. QED
    BY <1>10, <2>1, <2>2, <2>3 DEF Signal
<1>11. CASE Close
  <2>1. closes' \in Nat /\ disconnects' \in Nat
    BY <1>11 DEF Close
  <2>2. UNCHANGED <<exit, ready, listening, conn, working, mail, signals, stuck>>
    BY <1>11 DEF Close
  <2>3. database' \in BOOLEAN
    BY <1>11 DEF Close
  <2>. QED
    BY <2>1, <2>2, <2>3
<1>12. CASE Disconnected
  BY <1>12 DEF Disconnected, Exit
<1>13. CASE DisconnectFails
  BY <1>13 DEF DisconnectFails
<1>14. CASE Uncaught
  BY <1>14 DEF Uncaught, Exit
<1>15. CASE Killed
  BY <1>15 DEF Killed, Exit
<1>16. CASE UNCHANGED vars
  BY <1>16 DEF vars
<1>. QED
  BY <1>1, <1>2, <1>3, <1>4, <1>5, <1>6, <1>7, <1>8, <1>9, <1>10, <1>11,
     <1>12, <1>13, <1>14, <1>15, <1>16 DEF Next

(* Every step of the process keeps every variable in its type. *)
THEOREM TypeCorrect == Spec => []LifecycleTypeOK
<1>1. Init => LifecycleTypeOK
  <2>. SUFFICES ASSUME Init PROVE LifecycleTypeOK
    OBVIOUS
  <2>1. conn \in [Conns -> {"none", "busy", "kept"}]
    BY DEF Init
  <2>2. mail \in [Conns -> {"none", "template", "slack", "smtp", "note"}]
    BY DEF Init
  <2>3. signals \in 0..MaxSignals /\ closes \in Nat /\ disconnects \in Nat
    BY SignalsAssumption DEF Init
  <2>. QED
    BY <2>1, <2>2, <2>3 DEF Init, LifecycleTypeOK
<1>2. LifecycleTypeOK /\ [Next]_vars => LifecycleTypeOK'
  BY TypeStep
<1>. QED
  BY <1>1, <1>2, PTL DEF Spec

-----------------------------------------------------------------------------
(* Once the server has closed nobody is connected, and neither a new       *)
(* connection nor a request on a kept one can change that.                 *)
LEMMA ClosedStep ==
  ASSUME LifecycleTypeOK, ClosedForGood, [Next]_vars
  PROVE  ClosedForGood'
<1>. USE DEF ClosedForGood, requestVars, closeVars
<1>1. CASE Connected
  BY <1>1 DEF Connected
<1>2. CASE ConnectFails
  BY <1>2 DEF ConnectFails, Exit
<1>3. ASSUME NEW c \in Conns, Arrive(c)
      PROVE  ClosedForGood'
  BY <1>3 DEF Arrive
<1>4. ASSUME NEW c \in Conns, AskAgain(c)
      PROVE  ClosedForGood'
  BY <1>4 DEF AskAgain
<1>5. ASSUME NEW c \in Conns, Hangup(c)
      PROVE  ClosedForGood'
  BY <1>5 DEF Hangup
<1>6. ASSUME NEW c \in Conns, Answer(c)
      PROVE  ClosedForGood'
  <2>1. CASE conn[c] = "busy"
    BY <1>6, <2>1 DEF Answer
  <2>2. CASE conn[c] # "busy"
    BY <1>6, <2>2 DEF Answer
  <2>. QED
    BY <2>1, <2>2
<1>7. ASSUME NEW c \in Conns, KeepAliveTimeout(c)
      PROVE  ClosedForGood'
  BY <1>7 DEF KeepAliveTimeout
<1>8. ASSUME NEW c \in Conns, MailStep(c) \/ MailFails(c)
      PROVE  ClosedForGood'
  BY <1>8 DEF MailStep, MailFails
<1>9. CASE Signal
  BY <1>9 DEF Signal, LifecycleTypeOK
<1>10. CASE Close
  BY <1>10 DEF Close, LifecycleTypeOK
<1>11. CASE Disconnected
  BY <1>11 DEF Disconnected, Exit
<1>12. CASE DisconnectFails
  BY <1>12 DEF DisconnectFails
<1>13. CASE Uncaught
  BY <1>13 DEF Uncaught, Exit
<1>14. CASE Killed
  BY <1>14 DEF Killed, Exit
<1>15. CASE UNCHANGED vars
  BY <1>15 DEF vars
<1>. QED
  BY <1>1, <1>2, <1>3, <1>4, <1>5, <1>6, <1>7, <1>8, <1>9, <1>10, <1>11,
     <1>12, <1>13, <1>14, <1>15 DEF Next

(* What the close of the server guarantees for the rest of the process. *)
THEOREM ClosedStaysClosed == Spec => []ClosedForGood
<1>1. Init => ClosedForGood
  BY DEF Init, ClosedForGood
<1>2. LifecycleTypeOK /\ ClosedForGood /\ [Next]_vars => ClosedForGood'
  BY ClosedStep
<1>. QED
  BY <1>1, <1>2, TypeCorrect, PTL DEF Spec

(* A clean exit cuts nobody off who waits for an answer. *)
THEOREM ExitIsGraceful == Spec => []GracefulExit
<1>1. ClosedForGood => GracefulExit
  BY DEF ClosedForGood, GracefulExit
<1>. QED
  BY <1>1, ClosedStaysClosed, PTL
=============================================================================
