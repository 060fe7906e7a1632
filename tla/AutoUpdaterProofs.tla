-------------------------- MODULE AutoUpdaterProofs --------------------------
(***************************************************************************)
(* Proofs about AutoUpdater: it implements UpdateProtocol, and no check is *)
(* forgotten, for any number of checks and feeds.                          *)
(*                                                                         *)
(* What makes both hold is where a check stands: as long as it has to hear *)
(* something, one token stands for it, on the JavaScript stack, among the  *)
(* callbacks of the event in progress or at a process, and the token says  *)
(* which event the check heard last.                                       *)
(***************************************************************************)
EXTENDS AutoUpdater, SequenceTheorems, TLAPS

Commands == {"--download", "--update", "--processStartAndWait"}
Token    == [cmd : Commands, check : Checks \cup {0}]
Entry    == [on : {"tick", "error", "exit"}, l : Token,
             result : {"error", "nothing", "update", "done"}]
Events   == {"none", "checking-for-update", "update-available",
             "update-not-available", "update-downloaded", "error"}

TypeInv ==
  /\ heard \in [Checks -> Events]
  /\ updateAvailable \in BOOLEAN
  /\ quitting \in BOOLEAN
  /\ reliable \in BOOLEAN
  /\ spawnedProcess \in Pids \cup {0}
  /\ alive \subseteq Pids
  /\ stack \in Seq(Token)
  /\ todo \in Seq(Entry)
  /\ listeners \in [Pids -> Seq(Token)]

\* Token l says what its check has heard.
Due(h, l) ==
  /\ l.check = 0 <=> l.cmd = "--processStartAndWait"
  /\ l.cmd = "--download" => h[l.check] = "checking-for-update"
  /\ l.cmd = "--update" => h[l.check] = "update-available"

StackDue     == \A i \in DOMAIN stack : stack[i].check # 0 /\ Due(heard, stack[i])
TodoDue      == \A i \in DOMAIN todo : Due(heard, todo[i].l)
ListenersDue == \A p \in Pids : \A i \in DOMAIN listeners[p] : Due(heard, listeners[p][i])

\* Two tokens of one check are one token.
OnStack ==
  \A i, j \in DOMAIN stack : stack[i].check = stack[j].check => i = j
OnTodo ==
  \A i, j \in DOMAIN todo :
    todo[i].l.check = todo[j].l.check /\ todo[i].l.check # 0 => i = j
OnProcesses ==
  \A p, q \in Pids : \A i \in DOMAIN listeners[p], j \in DOMAIN listeners[q] :
    listeners[p][i].check = listeners[q][j].check /\ listeners[p][i].check # 0
      => p = q /\ i = j
StackOrTodo ==
  \A i \in DOMAIN stack, j \in DOMAIN todo : stack[i].check # todo[j].l.check
StackOrProcess ==
  \A i \in DOMAIN stack, p \in Pids : \A j \in DOMAIN listeners[p] :
    stack[i].check # listeners[p][j].check
TodoOrProcess ==
  \A i \in DOMAIN todo, p \in Pids : \A j \in DOMAIN listeners[p] :
    todo[i].l.check = listeners[p][j].check => todo[i].l.check = 0

OneToken == /\ OnStack /\ OnTodo /\ OnProcesses
            /\ StackOrTodo /\ StackOrProcess /\ TodoOrProcess

\* A process that has not failed has somebody to report to.
HasListener == \A p \in alive \ failed : listeners[p] # <<>>

\* A process that spawnUpdate may attach to will exit.
AttachesToLive == reliable => spawnedProcess \in alive \cup {0}

IInv == /\ TypeInv /\ StackDue /\ TodoDue /\ ListenersDue /\ OneToken
        /\ HasListener /\ AttachesToLive

-----------------------------------------------------------------------------
(***************************************************************************)
(* Sequences.                                                              *)
(***************************************************************************)
LEMMA Appended ==
  ASSUME NEW S, NEW s \in Seq(S), NEW e \in S
  PROVE  /\ Append(s, e) \in Seq(S)
         /\ DOMAIN Append(s, e) = DOMAIN s \cup {Len(s) + 1}
         /\ Len(s) + 1 \notin DOMAIN s
         /\ \A i \in DOMAIN s : Append(s, e)[i] = s[i]
         /\ Append(s, e)[Len(s) + 1] = e
  OBVIOUS

LEMMA FrontOf ==
  ASSUME NEW S, NEW s \in Seq(S), s # <<>>
  PROVE  /\ SubSeq(s, 1, Len(s) - 1) \in Seq(S)
         /\ DOMAIN SubSeq(s, 1, Len(s) - 1) = DOMAIN s \ {Len(s)}
         /\ Len(s) \in DOMAIN s
         /\ s[Len(s)] \in S
         /\ \A i \in DOMAIN s \ {Len(s)} : SubSeq(s, 1, Len(s) - 1)[i] = s[i]
  OBVIOUS

\* What is left of a queue stands one place further to the front.
LEMMA TailOf ==
  ASSUME NEW S, NEW s \in Seq(S), s # <<>>
  PROVE  /\ Tail(s) \in Seq(S)
         /\ Head(s) = s[1] /\ 1 \in DOMAIN s /\ s[1] \in S
         /\ \A i \in DOMAIN Tail(s) : i + 1 \in DOMAIN s /\ i + 1 # 1 /\ Tail(s)[i] = s[i + 1]
  OBVIOUS

LEMMA Queued ==
  ASSUME NEW ls \in Seq(Token), ls # <<>>, NEW on \in {"tick", "error", "exit"},
         NEW r \in {"error", "nothing", "update", "done"}
  PROVE  /\ Queue(ls, on, r) \in Seq(Entry)
         /\ 1 \in DOMAIN ls /\ ls[1] \in Token
         /\ DOMAIN Queue(ls, on, r) = 1 .. Len(ls) - 1
         /\ \A i \in DOMAIN Queue(ls, on, r) :
              i + 1 \in DOMAIN ls /\ i + 1 # 1 /\ Queue(ls, on, r)[i].l = ls[i + 1]
<1>1. Len(ls) \in Nat /\ Len(ls) >= 1 /\ \A i \in 1 .. Len(ls) : ls[i] \in Token
  OBVIOUS
<1>2. \A i \in 1 .. Len(ls) - 1 : [on |-> on, l |-> ls[i + 1], result |-> r] \in Entry
  BY <1>1 DEF Entry
<1>3. Queue(ls, on, r) \in Seq(Entry)
  BY <1>1, <1>2 DEF Queue
<1> QED
  BY <1>1, <1>3 DEF Queue

-----------------------------------------------------------------------------
(***************************************************************************)
(* What an event changes.                                                  *)
(***************************************************************************)
\* An event of one check leaves the tokens of the others valid.
LEMMA HearingOne ==
  ASSUME NEW h \in [Checks -> Events], NEW c, NEW e, NEW l \in Token,
         Due(h, l), l.check # c
  PROVE  Due([h EXCEPT ![c] = e], l)
<1>1. l.cmd # "--processStartAndWait" => l.check \in Checks
  BY DEF Due, Token
<1>2. l.check \in Checks => [h EXCEPT ![c] = e][l.check] = h[l.check]
  OBVIOUS
<1> QED
  BY <1>1, <1>2 DEF Due, Token, Commands

\* A callback ends its check, or announces an update and leaves the code that
\* follows the announcement on the stack.
Reports(l, e) ==
  /\ l.check \in Checks
  /\ e \in Protocol!After(heard[l.check])
  /\ e # "checking-for-update"
  /\ heard' = [heard EXCEPT ![l.check] = e]
  /\ updateAvailable' = (updateAvailable \/ e = "update-available")
  /\ IF e = "update-available"
       THEN stack' = Append(stack, Listener("--update", l.check))
       ELSE UNCHANGED stack

LEMMA CallbackReports ==
  ASSUME TypeInv, NEW l \in Token, Due(heard, l), NEW r, Callback(l, r)
  PROVE  \/ l.check = 0 /\ UNCHANGED <<updateAvailable, stack, heard>>
         \/ \E e \in Events \ {"none"} : Reports(l, e)
<1>1. CASE l.cmd = "--processStartAndWait"
  BY <1>1 DEF Callback, Due
<1>2. ASSUME l.cmd = "--download" \/ l.cmd = "--update"
      PROVE  l.check \in Checks
  BY <1>2 DEF Due, Token
<1>3. ASSUME l.cmd = "--download"
      PROVE  Protocol!After(heard[l.check]) = {"update-available", "update-not-available", "error"}
  BY <1>3 DEF Due, Protocol!After
<1>4. ASSUME l.cmd = "--update"
      PROVE  Protocol!After(heard[l.check]) = {"update-downloaded", "error"}
  BY <1>4 DEF Due, Protocol!After
<1>5. updateAvailable \in BOOLEAN
  BY DEF TypeInv
<1>6. CASE l.cmd # "--processStartAndWait" /\ r = "error"
  <2>1. heard' = [heard EXCEPT ![l.check] = "error"] /\ UNCHANGED <<updateAvailable, stack>>
    BY <1>6 DEF Callback, Emit
  <2>2. Reports(l, "error")
    BY <1>2, <1>3, <1>4, <1>5, <1>6, <2>1 DEF Reports, Token, Commands
  <2> QED
    BY <2>2 DEF Events
<1>7. CASE l.cmd = "--download" /\ r = "nothing"
  <2>1. heard' = [heard EXCEPT ![l.check] = "update-not-available"] /\ UNCHANGED <<updateAvailable, stack>>
    BY <1>7 DEF Callback, Emit
  <2>2. Reports(l, "update-not-available")
    BY <1>2, <1>3, <1>5, <1>7, <2>1 DEF Reports
  <2> QED
    BY <2>2 DEF Events
<1>8. CASE l.cmd = "--download" /\ r = "update"
  <2>1. /\ heard' = [heard EXCEPT ![l.check] = "update-available"]
        /\ updateAvailable' = TRUE
        /\ stack' = Append(stack, Listener("--update", l.check))
    BY <1>8 DEF Callback, Emit
  <2>2. Reports(l, "update-available")
    BY <1>2, <1>3, <1>5, <1>8, <2>1 DEF Reports
  <2> QED
    BY <2>2 DEF Events
<1>9. CASE l.cmd = "--update" /\ r = "done"
  <2>1. heard' = [heard EXCEPT ![l.check] = "update-downloaded"] /\ UNCHANGED <<updateAvailable, stack>>
    BY <1>9 DEF Callback, Emit
  <2>2. Reports(l, "update-downloaded")
    BY <1>2, <1>4, <1>5, <1>9, <2>1 DEF Reports
  <2> QED
    BY <2>2 DEF Events
<1> QED
  BY <1>1, <1>6, <1>7, <1>8, <1>9 DEF Callback

\* The tokens after a callback, when those that stay are valid, are not the
\* token that reported, and are one for each check.
LEMMA Consumed ==
  ASSUME TypeInv, stack = <<>>, NEW l \in Token, Due(heard, l), NEW r, Callback(l, r),
         todo' \in Seq(Entry), listeners' \in [Pids -> Seq(Token)],
         OnTodo', OnProcesses', TodoOrProcess',
         \A i \in DOMAIN todo' :
           /\ Due(heard, todo'[i].l)
           /\ todo'[i].l.check = l.check => l.check = 0,
         \A p \in Pids : \A i \in DOMAIN listeners'[p] :
           /\ Due(heard, listeners'[p][i])
           /\ listeners'[p][i].check = l.check => l.check = 0
  PROVE  /\ heard' \in [Checks -> Events] /\ updateAvailable' \in BOOLEAN
         /\ stack' \in Seq(Token)
         /\ StackDue' /\ TodoDue' /\ ListenersDue' /\ OneToken'
<1> DEFINE Rest == {l2 \in Token : Due(heard, l2) /\ (l2.check = l.check => l.check = 0)}
<1>1. heard \in [Checks -> Events] /\ updateAvailable \in BOOLEAN
  BY DEF TypeInv
<1>2. \A i \in DOMAIN todo' : todo'[i].l \in Rest
  <2>1. \A i \in DOMAIN todo' : todo'[i] \in Entry
    BY ElementOfSeq, LenProperties
  <2> QED
    BY <2>1 DEF Entry
<1>3. \A p \in Pids : \A i \in DOMAIN listeners'[p] : listeners'[p][i] \in Rest
  <2>1. \A p \in Pids : \A i \in DOMAIN listeners'[p] : listeners'[p][i] \in Token
    BY ElementOfSeq, LenProperties
  <2> QED
    BY <2>1
<1>4. ASSUME l.check = 0, UNCHANGED <<updateAvailable, stack, heard>>
      PROVE  /\ heard' \in [Checks -> Events] /\ updateAvailable' \in BOOLEAN
             /\ stack' = <<>>
             /\ \A l2 \in Rest : Due(heard', l2)
  BY <1>1, <1>4
<1>5. ASSUME NEW e \in Events \ {"none"}, Reports(l, e)
      PROVE  /\ heard' \in [Checks -> Events] /\ updateAvailable' \in BOOLEAN
             /\ \A l2 \in Rest : Due(heard', l2) /\ l2.check # l.check
             /\ stack' = <<>> \/ stack' = <<Listener("--update", l.check)>>
             /\ stack' # <<>> => heard'[l.check] = "update-available"
  <2>1. /\ heard' = [heard EXCEPT ![l.check] = e] /\ l.check \in Checks
        /\ updateAvailable' \in BOOLEAN
    BY <1>1, <1>5 DEF Reports
  <2>2. l.check # 0
    BY <2>1 DEF Checks
  <2>3. \A l2 \in Rest : Due(heard', l2) /\ l2.check # l.check
    BY <1>1, <2>1, <2>2, HearingOne
  <2>4. /\ stack' = <<>> \/ stack' = <<Listener("--update", l.check)>>
        /\ stack' # <<>> => e = "update-available"
    <3>1. CASE e = "update-available"
      BY <1>5, <3>1 DEF Reports
    <3>2. CASE e # "update-available"
      BY <1>5, <3>2 DEF Reports
    <3> QED
      BY <3>1, <3>2
  <2> QED
    BY <1>1, <2>1, <2>3, <2>4
<1> HIDE DEF Rest
<1>6. /\ heard' \in [Checks -> Events] /\ updateAvailable' \in BOOLEAN
      /\ \A l2 \in Rest : Due(heard', l2)
      /\ \/ stack' = <<>>
         \/ /\ stack' = <<Listener("--update", l.check)>>
            /\ l.check \in Checks
            /\ heard'[l.check] = "update-available"
            /\ \A l2 \in Rest : l2.check # l.check
  BY <1>4, <1>5, CallbackReports DEF Reports
<1>7. TodoDue' /\ ListenersDue'
  BY <1>2, <1>3, <1>6 DEF TodoDue, ListenersDue
<1>8. CASE stack' = <<>>
  BY <1>6, <1>7, <1>8 DEF StackDue, OneToken, OnStack, StackOrTodo, StackOrProcess
<1>9. CASE stack' # <<>>
  <2>1. /\ stack' = <<Listener("--update", l.check)>> /\ l.check \in Checks
        /\ heard'[l.check] = "update-available"
        /\ \A l2 \in Rest : l2.check # l.check
    BY <1>6, <1>9
  <2>2. Listener("--update", l.check) \in Token
    BY <2>1 DEF Listener, Token, Commands
  <2>3. /\ stack' \in Seq(Token) /\ DOMAIN stack' = {1}
        /\ stack'[1] = Listener("--update", l.check)
    BY <2>1, <2>2
  <2>4. Listener("--update", l.check).check = l.check /\ l.check # 0
    BY <2>1 DEF Listener, Checks
  <2>5. StackDue'
    BY <2>1, <2>3, <2>4 DEF StackDue, Due, Listener
  <2>6. OnStack' /\ StackOrTodo' /\ StackOrProcess'
    BY <1>2, <1>3, <2>1, <2>3, <2>4 DEF OnStack, StackOrTodo, StackOrProcess
  <2> QED
    BY <1>6, <1>7, <2>3, <2>5, <2>6 DEF OneToken
<1> QED
  BY <1>8, <1>9

-----------------------------------------------------------------------------
(***************************************************************************)
(* What spawnUpdate leaves behind.                                         *)
(***************************************************************************)
\* No listener and no callback stands for the check of token l.
Alone(l) ==
  /\ \A i \in DOMAIN todo : todo[i].l.check = l.check => l.check = 0
  /\ \A p \in Pids : \A i \in DOMAIN listeners[p] :
       listeners[p][i].check = l.check => l.check = 0

\* The stack keeps tokens of other checks only.
StackWithout(l) ==
  /\ stack' \in Seq(Token)
  /\ \A i \in DOMAIN stack' :
       i \in DOMAIN stack /\ stack'[i] = stack[i] /\ stack'[i].check # l.check

LEMMA AttachedAt ==
  ASSUME TypeInv, HasListener, AttachesToLive, NEW args, NEW l \in Token,
         Attach(args, l), UNCHANGED reliable
  PROVE  /\ spawnedProcess' \in Pids /\ alive' \subseteq Pids /\ alive \subseteq alive'
         /\ listeners' = [listeners EXCEPT ![spawnedProcess'] = Append(@, l)]
         /\ listeners' \in [Pids -> Seq(Token)]
         /\ listeners'[spawnedProcess'] = Append(listeners[spawnedProcess'], l)
         /\ HasListener' /\ AttachesToLive'
         /\ reliable => spawnedProcess' \in alive'
         /\ UNCHANGED todo
<1>1. /\ spawnedProcess' \in Pids /\ alive' \subseteq Pids
      /\ alive' \in {alive, alive \cup {spawnedProcess'}} /\ failed' = failed
      /\ reliable => spawnedProcess' \in alive'
      /\ listeners' = [listeners EXCEPT ![spawnedProcess'] = Append(@, l)]
      /\ UNCHANGED todo
  <2>1. CASE spawnedProcess = 0
    BY <2>1 DEF Attach, TypeInv
  <2>2. CASE spawnedProcess # 0
    BY <2>2 DEF Attach, TypeInv, AttachesToLive, process
  <2> QED
    BY <2>1, <2>2
<1>2. listeners[spawnedProcess'] \in Seq(Token)
  BY <1>1 DEF TypeInv
<1>3. Append(listeners[spawnedProcess'], l) \in Seq(Token) \ {<<>>}
  BY <1>2
<1>4. /\ listeners' \in [Pids -> Seq(Token)]
      /\ listeners'[spawnedProcess'] = Append(listeners[spawnedProcess'], l)
      /\ \A p \in Pids \ {spawnedProcess'} : listeners'[p] = listeners[p]
  BY <1>1, <1>3 DEF TypeInv
<1>5. HasListener'
  BY <1>1, <1>3, <1>4 DEF HasListener
<1>6. AttachesToLive'
  BY <1>1 DEF AttachesToLive
<1> QED
  BY <1>1, <1>4, <1>5, <1>6

LEMMA AttachKeeps ==
  ASSUME TypeInv, StackDue, TodoDue, ListenersDue, OneToken, NEW l \in Token,
         Due(heard, l), Alone(l), StackWithout(l), NEW q \in Pids,
         listeners' = [listeners EXCEPT ![q] = Append(@, l)],
         UNCHANGED <<todo, heard>>
  PROVE  StackDue' /\ TodoDue' /\ ListenersDue' /\ OneToken'
<1>1. listeners \in [Pids -> Seq(Token)]
  BY DEF TypeInv
<1>2. /\ DOMAIN listeners'[q] = DOMAIN listeners[q] \cup {Len(listeners[q]) + 1}
      /\ Len(listeners[q]) + 1 \notin DOMAIN listeners[q]
      /\ \A i \in DOMAIN listeners[q] : listeners'[q][i] = listeners[q][i]
      /\ listeners'[q][Len(listeners[q]) + 1] = l
  BY <1>1, Appended
<1>3. \A p \in Pids \ {q} : listeners'[p] = listeners[p]
  BY <1>1
\* An attached listener is an old one in its place or the new one.
<1>4. \A p \in Pids : \A i \in DOMAIN listeners'[p] :
        \/ i \in DOMAIN listeners[p] /\ listeners'[p][i] = listeners[p][i]
        \/ p = q /\ i = Len(listeners[q]) + 1 /\ listeners'[p][i] = l
  BY <1>2, <1>3
<1>5. StackDue' /\ TodoDue'
  BY DEF StackDue, TodoDue, StackWithout
<1>6. ListenersDue'
  BY <1>4 DEF ListenersDue
<1>7. OnStack' /\ OnTodo' /\ StackOrTodo'
  BY DEF OneToken, OnStack, OnTodo, StackOrTodo, StackWithout
<1>8. OnProcesses'
  BY <1>4 DEF OneToken, OnProcesses, Alone
<1>9. StackOrProcess'
  BY <1>4 DEF OneToken, StackOrProcess, StackWithout
<1>10. TodoOrProcess'
  BY <1>4 DEF OneToken, TodoOrProcess, Alone
<1> QED
  BY <1>5, <1>6, <1>7, <1>8, <1>9, <1>10 DEF OneToken

LEMMA ThrowKeeps ==
  ASSUME TypeInv, StackDue, TodoDue, ListenersDue, OneToken, NEW l \in Token,
         Due(heard, l), Alone(l), StackWithout(l),
         SpawnThrows(l), UNCHANGED heard
  PROVE  /\ todo' \in Seq(Entry)
         /\ StackDue' /\ TodoDue' /\ ListenersDue' /\ OneToken'
<1> DEFINE e == [on |-> "tick", l |-> l, result |-> "error"]
<1>1. e \in Entry /\ e.l = l
  BY DEF Entry
<1>2. todo \in Seq(Entry) /\ todo' = Append(todo, e) /\ listeners' = listeners
  BY DEF TypeInv, SpawnThrows
<1> HIDE DEF e
<1>3. /\ todo' \in Seq(Entry)
      /\ \A i \in DOMAIN todo' :
           \/ i \in DOMAIN todo /\ todo'[i] = todo[i]
           \/ i = Len(todo) + 1 /\ todo'[i].l = l
  BY <1>1, <1>2, Appended
<1>4. StackDue' /\ ListenersDue'
  BY <1>2 DEF StackDue, ListenersDue, StackWithout
<1>5. TodoDue'
  BY <1>3 DEF TodoDue
<1>6. OnStack' /\ OnProcesses' /\ StackOrProcess'
  BY <1>2 DEF OneToken, OnStack, OnProcesses, StackOrProcess, StackWithout
<1>7. OnTodo'
  BY <1>3 DEF OneToken, OnTodo, Alone
<1>8. StackOrTodo'
  BY <1>3 DEF OneToken, StackOrTodo, StackWithout
<1>9. TodoOrProcess'
  BY <1>2, <1>3 DEF OneToken, TodoOrProcess, Alone
<1> QED
  BY <1>3, <1>4, <1>5, <1>6, <1>7, <1>8, <1>9 DEF OneToken

-----------------------------------------------------------------------------
(***************************************************************************)
(* The invariant.                                                          *)
(***************************************************************************)
LEMMA InitIInv == Init => IInv
<1> SUFFICES ASSUME Init PROVE IInv
  OBVIOUS
<1>1. stack = <<>> /\ todo = <<>> /\ listeners = [p \in Pids |-> <<>>]
  BY DEF Init
<1>2. TypeInv
  <2>1. <<>> \in Seq(Token) /\ <<>> \in Seq(Entry)
    OBVIOUS
  <2>2. listeners \in [Pids -> Seq(Token)]
    BY <1>1, <2>1
  <2>3. heard \in [Checks -> Events]
    BY DEF Init, Events
  <2> QED
    BY <1>1, <2>1, <2>2, <2>3 DEF Init, TypeInv
<1>3. StackDue /\ TodoDue /\ ListenersDue
  BY <1>1 DEF StackDue, TodoDue, ListenersDue
<1>4. OneToken
  BY <1>1 DEF OneToken, OnStack, OnTodo, OnProcesses, StackOrTodo, StackOrProcess, TodoOrProcess
<1>5. HasListener /\ AttachesToLive
  BY DEF Init, HasListener, AttachesToLive
<1> QED
  BY <1>2, <1>3, <1>4, <1>5 DEF IInv

LEMMA StutterIInv ==
  ASSUME IInv, UNCHANGED <<updateAvailable, process, listeners, todo, stack, heard,
                           quitting, reliable>>
  PROVE  IInv'
<1>1. TypeInv'
  BY DEF IInv, TypeInv, process
<1>2. StackDue' /\ TodoDue' /\ ListenersDue'
  BY DEF IInv, StackDue, TodoDue, ListenersDue
<1>3. OneToken'
  BY DEF IInv, OneToken, OnStack, OnTodo, OnProcesses, StackOrTodo, StackOrProcess, TodoOrProcess
<1>4. HasListener' /\ AttachesToLive'
  BY DEF IInv, HasListener, AttachesToLive, process
<1> QED
  BY <1>1, <1>2, <1>3, <1>4 DEF IInv

\* No token stands for a check that has not begun.
LEMMA CheckIInv ==
  ASSUME IInv, NEW c \in Checks, CheckForUpdates(c), UNCHANGED reliable
  PROVE  IInv'
<1> DEFINE l == Listener("--download", c)
<1>1. /\ heard' = [heard EXCEPT ![c] = "checking-for-update"] /\ heard[c] = "none"
      /\ stack' = Append(stack, l)
      /\ UNCHANGED <<updateAvailable, process, listeners, todo, quitting>>
  BY DEF CheckForUpdates, Emit
<1>2. TypeInv
  BY DEF IInv
<1>3. c # 0 /\ l \in Token /\ l.check = c /\ l.cmd = "--download"
  BY DEF Checks, Listener, Token, Commands
<1> HIDE DEF l
<1>4. ASSUME NEW k \in Token, Due(heard, k)
      PROVE  k.check # c /\ Due(heard', k)
  <2>1. k.check # c
    BY <1>1, <1>3, <1>4 DEF Due, Token, Commands
  <2> QED
    BY <1>1, <1>2, <1>4, <2>1, HearingOne DEF TypeInv
<1>5. \A i \in DOMAIN stack : stack[i] \in Token /\ stack[i].check # 0 /\ Due(heard, stack[i])
  BY <1>2, ElementOfSeq DEF IInv, StackDue, TypeInv
<1>6. \A i \in DOMAIN todo : todo[i].l \in Token /\ Due(heard, todo[i].l)
  <2>1. \A i \in DOMAIN todo : todo[i] \in Entry
    BY <1>2, ElementOfSeq DEF TypeInv
  <2> QED
    BY <2>1 DEF IInv, TodoDue, Entry
<1>7. \A p \in Pids : \A i \in DOMAIN listeners[p] :
        listeners[p][i] \in Token /\ Due(heard, listeners[p][i])
  <2>1. \A p \in Pids : listeners[p] \in Seq(Token)
    BY <1>2 DEF TypeInv
  <2> QED
    BY <2>1, ElementOfSeq DEF IInv, ListenersDue
<1>8. /\ stack' \in Seq(Token)
      /\ \A i \in DOMAIN stack' :
           \/ i \in DOMAIN stack /\ stack'[i] = stack[i]
           \/ i = Len(stack) + 1 /\ stack'[i] = l
  BY <1>1, <1>2, <1>3, Appended DEF TypeInv
<1>9. TypeInv'
  BY <1>1, <1>2, <1>8 DEF TypeInv, Events, process
<1>10. Due(heard', l)
  BY <1>1, <1>2, <1>3 DEF Due, TypeInv
<1>11. StackDue'
  BY <1>3, <1>4, <1>5, <1>8, <1>10 DEF StackDue
<1>12. TodoDue' /\ ListenersDue'
  BY <1>1, <1>4, <1>6, <1>7 DEF TodoDue, ListenersDue
<1>13. OnTodo' /\ OnProcesses' /\ TodoOrProcess'
  BY <1>1 DEF IInv, OneToken, OnTodo, OnProcesses, TodoOrProcess
<1>14. OnStack'
  BY <1>3, <1>4, <1>5, <1>8 DEF IInv, OneToken, OnStack
<1>15. StackOrTodo'
  BY <1>1, <1>3, <1>4, <1>6, <1>8 DEF IInv, OneToken, StackOrTodo
<1>16. StackOrProcess'
  BY <1>1, <1>3, <1>4, <1>7, <1>8 DEF IInv, OneToken, StackOrProcess
<1>17. HasListener' /\ AttachesToLive'
  BY <1>1 DEF IInv, HasListener, AttachesToLive, process
<1> QED
  BY <1>9, <1>11, <1>12, <1>13, <1>14, <1>15, <1>16, <1>17 DEF IInv, OneToken

\* The top of the stack is the only token of its check.
LEMMA TopOfStack ==
  ASSUME IInv, stack # <<>>, NEW l, l = stack[Len(stack)],
         stack' = SubSeq(stack, 1, Len(stack) - 1)
  PROVE  /\ l \in Token /\ l.check \in Checks /\ l.check # 0 /\ Due(heard, l)
         /\ Alone(l) /\ StackWithout(l)
<1>1. stack \in Seq(Token)
  BY DEF IInv, TypeInv
<1>2. /\ stack' \in Seq(Token) /\ DOMAIN stack' = DOMAIN stack \ {Len(stack)}
      /\ Len(stack) \in DOMAIN stack /\ l \in Token
      /\ \A i \in DOMAIN stack \ {Len(stack)} : stack'[i] = stack[i]
  BY <1>1, FrontOf
<1>3. l.check # 0 /\ Due(heard, l)
  BY <1>2 DEF IInv, StackDue
<1>4. l.check \in Checks
  BY <1>2, <1>3 DEF Token
<1>5. Alone(l)
  BY <1>2 DEF IInv, OneToken, StackOrTodo, StackOrProcess, Alone
<1>6. StackWithout(l)
  BY <1>2 DEF IInv, OneToken, OnStack, StackWithout
<1> QED
  BY <1>2, <1>3, <1>4, <1>5, <1>6

LEMMA EmitReturnsIInv ==
  ASSUME IInv, EmitReturns, UNCHANGED reliable
  PROVE  IInv'
<1> DEFINE l    == stack[Len(stack)]
           args == <<l.cmd, updateURL>>
<1>1. /\ stack # <<>> /\ stack' = SubSeq(stack, 1, Len(stack) - 1)
      /\ UNCHANGED <<updateAvailable, quitting>>
      /\ \/ Emit(l.check, "error") /\ UNCHANGED <<process, listeners, todo>>
         \/ Attach(args, l) /\ UNCHANGED heard
         \/ SpawnThrows(l) /\ UNCHANGED heard
  BY DEF EmitReturns
<1>2. /\ l \in Token /\ l.check \in Checks /\ l.check # 0 /\ Due(heard, l)
      /\ Alone(l) /\ StackWithout(l)
  BY <1>1, TopOfStack
<1> HIDE DEF l, args
<1>3. /\ TypeInv /\ StackDue /\ TodoDue /\ ListenersDue /\ OneToken
      /\ HasListener /\ AttachesToLive
  BY DEF IInv
<1>4. stack' \in Seq(Token)
  BY <1>2 DEF StackWithout
<1>5. CASE Emit(l.check, "error") /\ UNCHANGED <<process, listeners, todo>>
  <2>1. heard' = [heard EXCEPT ![l.check] = "error"]
    BY <1>5 DEF Emit
  <2>2. TypeInv'
    BY <1>1, <1>3, <1>4, <1>5, <2>1 DEF TypeInv, Events, process
  <2>3. ASSUME NEW k \in Token, Due(heard, k), k.check # l.check
        PROVE  Due(heard', k)
    BY <1>3, <2>1, <2>3, HearingOne DEF TypeInv
  <2>4. \A i \in DOMAIN stack : stack[i] \in Token
    BY <1>3, ElementOfSeq DEF TypeInv
  <2>5. \A i \in DOMAIN todo : todo[i].l \in Token
    <3>1. \A i \in DOMAIN todo : todo[i] \in Entry
      BY <1>3, ElementOfSeq DEF TypeInv
    <3> QED
      BY <3>1 DEF Entry
  <2>6. \A p \in Pids : \A i \in DOMAIN listeners[p] : listeners[p][i] \in Token
    <3>1. \A p \in Pids : listeners[p] \in Seq(Token)
      BY <1>3 DEF TypeInv
    <3> QED
      BY <3>1, ElementOfSeq
  <2>7. StackDue'
    BY <1>2, <1>3, <2>3, <2>4 DEF StackDue, StackWithout
  <2>8. TodoDue'
    BY <1>2, <1>3, <1>5, <2>3, <2>5 DEF TodoDue, Alone
  <2>9. ListenersDue'
    BY <1>2, <1>3, <1>5, <2>3, <2>6 DEF ListenersDue, Alone
  <2>10. OneToken'
    BY <1>2, <1>3, <1>5 DEF OneToken, OnStack, OnTodo, OnProcesses, StackOrTodo,
       StackOrProcess, TodoOrProcess, StackWithout
  <2>11. HasListener' /\ AttachesToLive'
    BY <1>3, <1>5 DEF HasListener, AttachesToLive, process
  <2> QED
    BY <2>2, <2>7, <2>8, <2>9, <2>10, <2>11 DEF IInv
<1>6. CASE Attach(args, l) /\ UNCHANGED heard
  <2>1. /\ spawnedProcess' \in Pids /\ alive' \subseteq Pids
        /\ listeners' = [listeners EXCEPT ![spawnedProcess'] = Append(@, l)]
        /\ listeners' \in [Pids -> Seq(Token)]
        /\ HasListener' /\ AttachesToLive' /\ UNCHANGED todo
    BY <1>2, <1>3, <1>6, AttachedAt
  <2>2. TypeInv'
    BY <1>1, <1>3, <1>4, <1>6, <2>1 DEF TypeInv
  <2>3. StackDue' /\ TodoDue' /\ ListenersDue' /\ OneToken'
    BY <1>2, <1>3, <1>6, <2>1, AttachKeeps
  <2> QED
    BY <2>1, <2>2, <2>3 DEF IInv
<1>7. CASE SpawnThrows(l) /\ UNCHANGED heard
  <2>1. /\ todo' \in Seq(Entry)
        /\ StackDue' /\ TodoDue' /\ ListenersDue' /\ OneToken'
    BY <1>2, <1>3, <1>7, ThrowKeeps
  <2>2. UNCHANGED <<process, listeners>>
    BY <1>7 DEF SpawnThrows
  <2>3. TypeInv'
    BY <1>1, <1>3, <1>4, <1>7, <2>1, <2>2 DEF TypeInv, process
  <2>4. HasListener' /\ AttachesToLive'
    BY <1>3, <2>2 DEF HasListener, AttachesToLive, process
  <2> QED
    BY <2>1, <2>3, <2>4 DEF IInv
<1> QED
  BY <1>1, <1>5, <1>6, <1>7

LEMMA QuitIInv ==
  ASSUME IInv, QuitAndInstall, UNCHANGED reliable
  PROVE  IInv'
<1> DEFINE l    == Listener("--processStartAndWait", 0)
           args == <<"--processStartAndWait", NoURL>>
<1>1. /\ quitting' = TRUE /\ UNCHANGED <<updateAvailable, stack, heard>>
      /\ \/ UNCHANGED <<process, listeners, todo>>
         \/ Attach(args, l)
         \/ SpawnThrows(l)
  BY DEF QuitAndInstall
<1>2. l \in Token /\ l.check = 0 /\ Due(heard, l)
  BY DEF Listener, Token, Commands, Due
<1> HIDE DEF l, args
<1>3. /\ TypeInv /\ StackDue /\ TodoDue /\ ListenersDue /\ OneToken
      /\ HasListener /\ AttachesToLive
  BY DEF IInv
<1>4. Alone(l)
  BY <1>2 DEF Alone
<1>5. StackWithout(l)
  BY <1>1, <1>2, <1>3 DEF StackWithout, StackDue, TypeInv
<1>6. CASE UNCHANGED <<process, listeners, todo>>
  <2>1. TypeInv'
    BY <1>1, <1>3, <1>6 DEF TypeInv, process
  <2>2. StackDue' /\ TodoDue' /\ ListenersDue'
    BY <1>1, <1>3, <1>6 DEF StackDue, TodoDue, ListenersDue
  <2>3. OneToken'
    BY <1>1, <1>3, <1>6 DEF OneToken, OnStack, OnTodo, OnProcesses, StackOrTodo,
       StackOrProcess, TodoOrProcess
  <2>4. HasListener' /\ AttachesToLive'
    BY <1>3, <1>6 DEF HasListener, AttachesToLive, process
  <2> QED
    BY <2>1, <2>2, <2>3, <2>4 DEF IInv
<1>7. CASE Attach(args, l)
  <2>1. /\ spawnedProcess' \in Pids /\ alive' \subseteq Pids
        /\ listeners' = [listeners EXCEPT ![spawnedProcess'] = Append(@, l)]
        /\ listeners' \in [Pids -> Seq(Token)]
        /\ HasListener' /\ AttachesToLive' /\ UNCHANGED todo
    BY <1>2, <1>3, <1>7, AttachedAt
  <2>2. TypeInv'
    BY <1>1, <1>3, <2>1 DEF TypeInv
  <2>3. StackDue' /\ TodoDue' /\ ListenersDue' /\ OneToken'
    BY <1>1, <1>2, <1>3, <1>4, <1>5, <2>1, AttachKeeps
  <2> QED
    BY <2>1, <2>2, <2>3 DEF IInv
<1>8. CASE SpawnThrows(l)
  <2>1. /\ todo' \in Seq(Entry)
        /\ StackDue' /\ TodoDue' /\ ListenersDue' /\ OneToken'
    BY <1>1, <1>2, <1>3, <1>4, <1>5, <1>8, ThrowKeeps
  <2>2. UNCHANGED <<process, listeners>>
    BY <1>8 DEF SpawnThrows
  <2>3. TypeInv'
    BY <1>1, <1>3, <2>1, <2>2 DEF TypeInv, process
  <2>4. HasListener' /\ AttachesToLive'
    BY <1>3, <2>2 DEF HasListener, AttachesToLive, process
  <2> QED
    BY <2>1, <2>3, <2>4 DEF IInv
<1> QED
  BY <1>1, <1>6, <1>7, <1>8

\* The listeners of p become callbacks of the event in progress: the first
\* one's token is used up, and each of the others has moved.
LEMMA FirstOfProcess ==
  ASSUME IInv, NEW p \in Pids, listeners[p] # <<>>, todo = <<>>,
         NEW on \in {"tick", "error", "exit"},
         NEW r \in {"error", "nothing", "update", "done"},
         todo' = Queue(listeners[p], on, r),
         listeners' = [listeners EXCEPT ![p] = <<>>]
  PROVE  LET l == listeners[p][1] IN
         /\ l \in Token /\ Due(heard, l)
         /\ todo' \in Seq(Entry) /\ listeners' \in [Pids -> Seq(Token)]
         /\ OnTodo' /\ OnProcesses' /\ TodoOrProcess'
         /\ \A i \in DOMAIN todo' :
              /\ Due(heard, todo'[i].l)
              /\ todo'[i].l.check = l.check => l.check = 0
         /\ \A q \in Pids : \A i \in DOMAIN listeners'[q] :
              /\ Due(heard, listeners'[q][i])
              /\ listeners'[q][i].check = l.check => l.check = 0
<1> DEFINE ls == listeners[p]
<1>1. listeners \in [Pids -> Seq(Token)] /\ ls \in Seq(Token) /\ ls # <<>>
  BY DEF IInv, TypeInv
<1> HIDE DEF ls
<1>2. todo' = Queue(ls, on, r)
  BY DEF ls
<1>3. /\ todo' \in Seq(Entry) /\ 1 \in DOMAIN ls /\ ls[1] \in Token
      /\ \A i \in DOMAIN todo' :
           i + 1 \in DOMAIN ls /\ i + 1 # 1 /\ todo'[i].l = ls[i + 1]
  BY <1>1, <1>2, Queued
<1>4. DOMAIN todo' \subseteq Int
  BY <1>3
<1>5. /\ listeners' \in [Pids -> Seq(Token)]
      /\ \A q \in Pids : \A i \in DOMAIN listeners'[q] :
           q # p /\ i \in DOMAIN listeners[q] /\ listeners'[q][i] = listeners[q][i]
  <2>1. listeners'[p] = <<>> /\ \A q \in Pids \ {p} : listeners'[q] = listeners[q]
    BY <1>1
  <2>2. <<>> \in Seq(Token) /\ DOMAIN <<>> = {}
    OBVIOUS
  <2>3. \A q \in Pids : listeners'[q] \in Seq(Token)
    BY <1>1, <2>1, <2>2
  <2> QED
    BY <1>1, <2>1, <2>2, <2>3
<1>6. /\ \A i \in DOMAIN ls : Due(heard, ls[i])
      /\ \A i, j \in DOMAIN ls : ls[i].check = ls[j].check /\ ls[i].check # 0 => i = j
      /\ \A q \in Pids \ {p} : \A i \in DOMAIN ls, j \in DOMAIN listeners[q] :
           ls[i].check = listeners[q][j].check => ls[i].check = 0
  BY DEF IInv, ListenersDue, OneToken, OnProcesses, ls
<1>7. OnTodo'
  BY <1>3, <1>4, <1>6 DEF OnTodo
<1>8. OnProcesses'
  BY <1>5 DEF IInv, OneToken, OnProcesses
<1>9. TodoOrProcess'
  BY <1>3, <1>5, <1>6 DEF TodoOrProcess
<1>10. \A i \in DOMAIN todo' :
         /\ Due(heard, todo'[i].l)
         /\ todo'[i].l.check = ls[1].check => ls[1].check = 0
  BY <1>3, <1>6
<1>11. \A q \in Pids : \A i \in DOMAIN listeners'[q] :
         /\ Due(heard, listeners'[q][i])
         /\ listeners'[q][i].check = ls[1].check => ls[1].check = 0
  BY <1>3, <1>5, <1>6 DEF IInv, ListenersDue
<1> QED
  BY <1>3, <1>5, <1>6, <1>7, <1>8, <1>9, <1>10, <1>11 DEF ls

LEMMA ResultsSeen ==
  ASSUME NEW l \in Token, NEW result \in Results(l.cmd), NEW r \in Seen(l, result)
  PROVE  /\ result \in {"error", "nothing", "update", "done"}
         /\ r \in {"error", "nothing", "update", "done"}
<1>1. result \in {"error", "nothing", "update", "done"}
  BY Zenon DEF Results, Token, Commands
<1> QED
  BY <1>1 DEF Seen

LEMMA ExitsIInv ==
  ASSUME IInv, NEW p \in Pids, ProcessExits(p), UNCHANGED reliable
  PROVE  IInv'
<1>1. /\ stack = <<>> /\ todo = <<>>
      /\ p \in alive /\ alive' = alive \ {p} /\ spawnedProcess' = 0
      /\ listeners' = [listeners EXCEPT ![p] = <<>>]
      /\ UNCHANGED <<failed, quitting>>
  BY DEF ProcessExits, LoopIdle, Forget
<1>2. HasListener' /\ AttachesToLive'
  <2>1. \A q \in Pids \ {p} : listeners'[q] = listeners[q]
    BY <1>1 DEF IInv, TypeInv
  <2> QED
    BY <1>1, <2>1 DEF IInv, HasListener, AttachesToLive, TypeInv
<1>3. CASE listeners[p] = <<>>
  <2>1. listeners' = listeners
    BY <1>1, <1>3 DEF IInv, TypeInv
  <2>2. UNCHANGED <<updateAvailable, stack, heard, todo>>
    BY <1>3 DEF ProcessExits
  <2>3. TypeInv'
    BY <1>1, <2>1, <2>2 DEF IInv, TypeInv
  <2>4. StackDue' /\ TodoDue' /\ ListenersDue'
    BY <2>1, <2>2 DEF IInv, StackDue, TodoDue, ListenersDue
  <2>5. OneToken'
    BY <2>1, <2>2 DEF IInv, OneToken, OnStack, OnTodo, OnProcesses, StackOrTodo,
       StackOrProcess, TodoOrProcess
  <2> QED
    BY <1>2, <2>3, <2>4, <2>5 DEF IInv
<1>4. CASE listeners[p] # <<>>
  <2> DEFINE l == listeners[p][1]
  <2>1. PICK result \in Results(l.cmd) :
          /\ \E r \in Seen(l, result) : Callback(l, r)
          /\ todo' = Queue(listeners[p], "exit", result)
    BY <1>4 DEF ProcessExits
  <2>2. PICK r \in Seen(l, result) : Callback(l, r)
    BY <2>1
  <2>3. l \in Token
    BY <1>4 DEF IInv, TypeInv
  <2>4. result \in {"error", "nothing", "update", "done"}
    BY <2>2, <2>3, ResultsSeen
  <2>5. /\ l \in Token /\ Due(heard, l)
        /\ todo' \in Seq(Entry) /\ listeners' \in [Pids -> Seq(Token)]
        /\ OnTodo' /\ OnProcesses' /\ TodoOrProcess'
        /\ \A i \in DOMAIN todo' :
             /\ Due(heard, todo'[i].l)
             /\ todo'[i].l.check = l.check => l.check = 0
        /\ \A q \in Pids : \A i \in DOMAIN listeners'[q] :
             /\ Due(heard, listeners'[q][i])
             /\ listeners'[q][i].check = l.check => l.check = 0
    BY <1>1, <1>4, <2>1, <2>4, FirstOfProcess
  <2> HIDE DEF l
  <2>6. /\ heard' \in [Checks -> Events] /\ updateAvailable' \in BOOLEAN
        /\ stack' \in Seq(Token)
        /\ StackDue' /\ TodoDue' /\ ListenersDue' /\ OneToken'
    BY <1>1, <2>2, <2>5, Consumed DEF IInv
  <2>7. TypeInv'
    BY <1>1, <2>5, <2>6 DEF IInv, TypeInv
  <2> QED
    BY <1>2, <2>6, <2>7 DEF IInv
<1> QED
  BY <1>3, <1>4

LEMMA FailsIInv ==
  ASSUME IInv, NEW p \in Pids, ProcessFails(p), UNCHANGED reliable
  PROVE  IInv'
<1> DEFINE l == listeners[p][1]
<1>1. /\ ~reliable /\ stack = <<>> /\ todo = <<>>
      /\ p \in alive \ failed /\ alive' \subseteq alive /\ failed' = failed \cup {p}
      /\ Callback(l, "error") /\ todo' = Queue(listeners[p], "error", "error")
      /\ listeners' = [listeners EXCEPT ![p] = <<>>]
      /\ UNCHANGED <<spawnedProcess, quitting>>
  BY DEF ProcessFails, LoopIdle, Silenced
<1>2. listeners[p] # <<>>
  BY <1>1 DEF IInv, HasListener
<1>3. HasListener' /\ AttachesToLive'
  <2>1. \A q \in Pids \ {p} : listeners'[q] = listeners[q]
    BY <1>1 DEF IInv, TypeInv
  <2> QED
    BY <1>1, <2>1 DEF IInv, HasListener, AttachesToLive, TypeInv
<1>4. /\ l \in Token /\ Due(heard, l)
      /\ todo' \in Seq(Entry) /\ listeners' \in [Pids -> Seq(Token)]
      /\ OnTodo' /\ OnProcesses' /\ TodoOrProcess'
      /\ \A i \in DOMAIN todo' :
           /\ Due(heard, todo'[i].l)
           /\ todo'[i].l.check = l.check => l.check = 0
      /\ \A q \in Pids : \A i \in DOMAIN listeners'[q] :
           /\ Due(heard, listeners'[q][i])
           /\ listeners'[q][i].check = l.check => l.check = 0
  BY <1>1, <1>2, FirstOfProcess
<1> HIDE DEF l
<1>5. /\ heard' \in [Checks -> Events] /\ updateAvailable' \in BOOLEAN
      /\ stack' \in Seq(Token)
      /\ StackDue' /\ TodoDue' /\ ListenersDue' /\ OneToken'
  BY <1>1, <1>4, Consumed DEF IInv
<1>6. TypeInv'
  BY <1>1, <1>4, <1>5 DEF IInv, TypeInv
<1> QED
  BY <1>3, <1>5, <1>6 DEF IInv

\* The head of the queue is the only token of its check.
LEMMA HeadOfQueue ==
  ASSUME IInv, todo # <<>>, todo' = Tail(todo), UNCHANGED listeners,
         NEW l, l = Head(todo).l
  PROVE  /\ l \in Token /\ Due(heard, l)
         /\ todo' \in Seq(Entry)
         /\ OnTodo' /\ OnProcesses' /\ TodoOrProcess'
         /\ \A i \in DOMAIN todo' :
              /\ Due(heard, todo'[i].l)
              /\ todo'[i].l.check = l.check => l.check = 0
         /\ \A q \in Pids : \A i \in DOMAIN listeners'[q] :
              /\ Due(heard, listeners'[q][i])
              /\ listeners'[q][i].check = l.check => l.check = 0
<1>1. todo \in Seq(Entry)
  BY DEF IInv, TypeInv
<1>2. /\ todo' \in Seq(Entry) /\ 1 \in DOMAIN todo /\ todo[1] \in Entry /\ l = todo[1].l
      /\ \A i \in DOMAIN todo' :
           i + 1 \in DOMAIN todo /\ i + 1 # 1 /\ todo'[i] = todo[i + 1]
  BY <1>1, TailOf
<1>3. DOMAIN todo' \subseteq Int
  BY <1>2
<1>4. l \in Token
  BY <1>2 DEF Entry
<1>5. Due(heard, l) /\ \A i \in DOMAIN todo' : Due(heard, todo'[i].l)
  BY <1>2 DEF IInv, TodoDue
<1>6. OnTodo' /\ \A i \in DOMAIN todo' : todo'[i].l.check = l.check => l.check = 0
  BY <1>2, <1>3 DEF IInv, OneToken, OnTodo
<1>7. OnProcesses'
  BY DEF IInv, OneToken, OnProcesses
<1>8. /\ TodoOrProcess'
      /\ \A q \in Pids : \A i \in DOMAIN listeners'[q] :
           listeners'[q][i].check = l.check => l.check = 0
  BY <1>2 DEF IInv, OneToken, TodoOrProcess
<1>9. \A q \in Pids : \A i \in DOMAIN listeners'[q] : Due(heard, listeners'[q][i])
  BY DEF IInv, ListenersDue
<1> QED
  BY <1>2, <1>4, <1>5, <1>6, <1>7, <1>8, <1>9

LEMMA RunIInv ==
  ASSUME IInv, RunCallback, UNCHANGED reliable
  PROVE  IInv'
<1> DEFINE l == Head(todo).l
<1>1. /\ stack = <<>> /\ todo # <<>> /\ todo' = Tail(todo)
      /\ \E r : Callback(l, r)
      /\ spawnedProcess' \in {0, spawnedProcess}
      /\ UNCHANGED <<alive, failed, listeners, quitting>>
  <2>1. CASE Head(todo).on = "exit"
    BY <2>1 DEF RunCallback, Forget
  <2>2. CASE Head(todo).on # "exit"
    BY <2>2 DEF RunCallback, process
  <2> QED
    BY <2>1, <2>2
<1>2. PICK r : Callback(l, r)
  BY <1>1
<1>3. /\ l \in Token /\ Due(heard, l)
      /\ todo' \in Seq(Entry)
      /\ OnTodo' /\ OnProcesses' /\ TodoOrProcess'
      /\ \A i \in DOMAIN todo' :
           /\ Due(heard, todo'[i].l)
           /\ todo'[i].l.check = l.check => l.check = 0
      /\ \A q \in Pids : \A i \in DOMAIN listeners'[q] :
           /\ Due(heard, listeners'[q][i])
           /\ listeners'[q][i].check = l.check => l.check = 0
  BY <1>1, HeadOfQueue
<1> HIDE DEF l
<1>4. listeners' \in [Pids -> Seq(Token)]
  BY <1>1 DEF IInv, TypeInv
<1>5. /\ heard' \in [Checks -> Events] /\ updateAvailable' \in BOOLEAN
      /\ stack' \in Seq(Token)
      /\ StackDue' /\ TodoDue' /\ ListenersDue' /\ OneToken'
  BY <1>1, <1>2, <1>3, <1>4, Consumed DEF IInv
<1>6. TypeInv'
  BY <1>1, <1>3, <1>4, <1>5 DEF IInv, TypeInv
<1>7. HasListener' /\ AttachesToLive'
  BY <1>1 DEF IInv, HasListener, AttachesToLive
<1> QED
  BY <1>5, <1>6, <1>7 DEF IInv

LEMMA NextIInv == IInv /\ [Next]_vars => IInv'
<1> SUFFICES ASSUME IInv, [Next]_vars PROVE IInv'
  OBVIOUS
<1>1. ASSUME NEW url \in URLs, SetFeedURL(url), UNCHANGED reliable
      PROVE  IInv'
  BY <1>1, StutterIInv DEF SetFeedURL
<1>2. CASE UNCHANGED vars
  BY <1>2, StutterIInv DEF vars
<1> QED
  BY <1>1, <1>2, CheckIInv, QuitIInv, EmitReturnsIInv, RunIInv, ExitsIInv, FailsIInv DEF Next

-----------------------------------------------------------------------------
(***************************************************************************)
(* The implementation of UpdateProtocol.                                   *)
(***************************************************************************)
LEMMA InitProtocol == Init => Protocol!Init
BY DEF Init, Protocol!Init

\* A callback is a step of the protocol, or none.
LEMMA CallbackHears ==
  ASSUME TypeInv, ~quitting, UNCHANGED quitting,
         NEW l \in Token, Due(heard, l), NEW r, Callback(l, r)
  PROVE  [Protocol!Next]_Protocol!vars
<1>1. CASE l.check = 0 /\ UNCHANGED <<updateAvailable, stack, heard>>
  BY <1>1 DEF Protocol!vars
<1>2. ASSUME NEW e \in Events \ {"none"}, Reports(l, e)
      PROVE  Protocol!Next
  BY <1>2 DEF Reports, Protocol!Next, Protocol!Hear
<1> QED
  BY <1>1, <1>2, CallbackReports

LEMMA StepProtocol == IInv /\ [Next]_vars => [Protocol!Next]_Protocol!vars
<1> SUFFICES ASSUME IInv, [Next]_vars PROVE [Protocol!Next]_Protocol!vars
  OBVIOUS
<1> USE DEF Protocol!vars
<1>1. TypeInv
  BY DEF IInv
<1>2. ASSUME NEW url \in URLs, SetFeedURL(url)
      PROVE  UNCHANGED Protocol!vars
  BY <1>2 DEF SetFeedURL
<1>3. ASSUME NEW c \in Checks, CheckForUpdates(c)
      PROVE  Protocol!Hear(c)
  <2>1. /\ ~quitting /\ heard[c] = "none" /\ UNCHANGED <<updateAvailable, quitting>>
        /\ heard' = [heard EXCEPT ![c] = "checking-for-update"]
    BY <1>3 DEF CheckForUpdates, Emit
  <2>2. "checking-for-update" \in Protocol!After(heard[c])
    BY <2>1 DEF Protocol!After
  <2>3. updateAvailable' = (updateAvailable \/ "checking-for-update" = "update-available")
    BY <1>1, <2>1 DEF TypeInv
  <2> QED
    BY <2>1, <2>2, <2>3 DEF Protocol!Hear
<1>4. ASSUME QuitAndInstall
      PROVE  Protocol!Quit
  BY <1>4 DEF QuitAndInstall, Protocol!Quit
<1>5. ASSUME EmitReturns
      PROVE  [Protocol!Next]_Protocol!vars
  <2> DEFINE l == stack[Len(stack)]
  <2>1. /\ ~quitting /\ stack # <<>> /\ UNCHANGED <<updateAvailable, quitting>>
        /\ stack' = SubSeq(stack, 1, Len(stack) - 1)
        /\ heard' = [heard EXCEPT ![l.check] = "error"] \/ UNCHANGED heard
    BY <1>5 DEF EmitReturns, Emit
  <2>2. l \in Token /\ l.check \in Checks /\ l.check # 0 /\ Due(heard, l)
    BY <2>1, TopOfStack
  <2> HIDE DEF l
  <2>3. CASE UNCHANGED heard
    BY <2>1, <2>3
  <2>4. CASE heard' = [heard EXCEPT ![l.check] = "error"]
    <3>1. heard[l.check] \in {"checking-for-update", "update-available"}
      BY <2>2 DEF Due, Token, Commands
    <3>2. "error" \in Protocol!After(heard[l.check])
      BY <3>1 DEF Protocol!After
    <3>3. updateAvailable' = (updateAvailable \/ "error" = "update-available")
      BY <1>1, <2>1 DEF TypeInv
    <3>4. Protocol!Hear(l.check)
      BY <2>1, <2>4, <3>2, <3>3 DEF Protocol!Hear
    <3> QED
      BY <2>2, <3>4 DEF Protocol!Next
  <2> QED
    BY <2>1, <2>3, <2>4
<1>6. ASSUME RunCallback
      PROVE  [Protocol!Next]_Protocol!vars
  <2> DEFINE l == Head(todo).l
  <2>1. /\ ~quitting /\ UNCHANGED <<quitting, listeners>>
        /\ todo # <<>> /\ todo' = Tail(todo) /\ \E r : Callback(l, r)
    BY <1>6 DEF RunCallback
  <2>2. l \in Token /\ Due(heard, l)
    BY <2>1, HeadOfQueue
  <2> HIDE DEF l
  <2> QED
    BY <1>1, <2>1, <2>2, CallbackHears
<1>7. ASSUME NEW p \in Pids, listeners[p] # <<>>
      PROVE  listeners[p][1] \in Token /\ Due(heard, listeners[p][1])
  <2>1. listeners[p] \in Seq(Token)
    BY <1>1 DEF TypeInv
  <2>2. 1 \in DOMAIN listeners[p] /\ listeners[p][1] \in Token
    BY <1>7, <2>1
  <2> QED
    BY <2>2 DEF IInv, ListenersDue
<1>8. ASSUME NEW p \in Pids, ProcessExits(p)
      PROVE  [Protocol!Next]_Protocol!vars
  <2>1. ~quitting /\ UNCHANGED quitting
    BY <1>8 DEF ProcessExits, LoopIdle
  <2>2. CASE listeners[p] = <<>>
    BY <1>8, <2>1, <2>2 DEF ProcessExits
  <2>3. CASE listeners[p] # <<>>
    <3>1. \E r : Callback(listeners[p][1], r)
      BY <1>8, <2>3 DEF ProcessExits
    <3> QED
      BY <1>1, <1>7, <2>1, <2>3, <3>1, CallbackHears
  <2> QED
    BY <2>2, <2>3
<1>9. ASSUME NEW p \in Pids, ProcessFails(p)
      PROVE  [Protocol!Next]_Protocol!vars
  <2>1. /\ ~quitting /\ UNCHANGED quitting /\ p \in alive \ failed
        /\ Callback(listeners[p][1], "error")
    BY <1>9 DEF ProcessFails, LoopIdle
  <2>2. listeners[p] # <<>>
    BY <2>1 DEF IInv, HasListener
  <2> QED
    BY <1>1, <1>7, <2>1, <2>2, CallbackHears
<1>10. CASE UNCHANGED vars
  BY <1>10 DEF vars
<1> QED
  BY <1>2, <1>3, <1>4, <1>5, <1>6, <1>8, <1>9, <1>10 DEF Next, Protocol!Next

\* For any number of checks and feeds, whatever the processes and the handlers do,
\* the application hears the events of each check in the order of the protocol,
\* at most one final event, and is only made to quit for an update that was
\* announced: AutoUpdaterWin implements UpdateProtocol.
THEOREM ImplementsProtocol == Spec => FollowsProtocol
<1>1. Spec => []IInv
  BY InitIInv, NextIInv, PTL DEF Spec
<1> QED
  BY <1>1, InitProtocol, StepProtocol, PTL DEF Spec, FollowsProtocol, Protocol!Spec

-----------------------------------------------------------------------------
(***************************************************************************)
(* No check is forgotten.                                                  *)
(***************************************************************************)
\* A check that has still to hear something after a callback is owed it by the
\* code on the stack or is one the callback was not for.
LEMMA StillUnfinished ==
  ASSUME TypeInv, stack = <<>>, NEW l \in Token, Due(heard, l), NEW r, Callback(l, r),
         NEW c \in Checks, Unfinished(c)'
  PROVE  Owed(c)' \/ (Unfinished(c) /\ l.check # c)
<1>1. c # 0 /\ heard \in [Checks -> Events]
  BY DEF Checks, TypeInv
<1>2. CASE l.check = 0 /\ UNCHANGED <<updateAvailable, stack, heard>>
  BY <1>1, <1>2 DEF Unfinished
<1>3. ASSUME NEW e \in Events \ {"none"}, Reports(l, e)
      PROVE  Owed(c)' \/ (Unfinished(c) /\ l.check # c)
  <2>1. heard' = [heard EXCEPT ![l.check] = e] /\ l.check \in Checks /\ e # "checking-for-update"
    BY <1>3 DEF Reports
  <2>2. CASE l.check # c
    BY <1>1, <2>1, <2>2 DEF Unfinished
  <2>3. CASE l.check = c
    <3>1. e = "update-available"
      BY <1>1, <2>1, <2>3 DEF Unfinished
    <3>2. stack' = <<Listener("--update", c)>>
      BY <1>3, <2>3, <3>1 DEF Reports
    <3>3. 1 \in DOMAIN stack' /\ stack'[1].check = c
      BY <3>2 DEF Listener
    <3> QED
      BY <3>3 DEF Owed
  <2> QED
    BY <2>2, <2>3
<1> QED
  BY <1>2, <1>3, CallbackReports

LEMMA NextNoCheckForgotten ==
  IInv /\ NoCheckForgotten /\ [Next]_vars => NoCheckForgotten'
<1> SUFFICES ASSUME IInv, NoCheckForgotten, [Next]_vars, reliable,
                    NEW c \in Checks, Unfinished(c)'
             PROVE  Owed(c)'
  BY DEF NoCheckForgotten, Next, vars
<1>1. TypeInv /\ UNCHANGED reliable
  BY DEF IInv, Next, vars
<1>2. Unfinished(c) => Owed(c)
  BY DEF NoCheckForgotten
<1>3. ASSUME UNCHANGED <<heard, stack, todo, alive, listeners>>
      PROVE  Owed(c)'
  BY <1>2, <1>3 DEF Unfinished, Owed
<1>4. ASSUME NEW url \in URLs, SetFeedURL(url)
      PROVE  Owed(c)'
  BY <1>3, <1>4 DEF SetFeedURL, process
<1>5. ASSUME NEW d \in Checks, CheckForUpdates(d)
      PROVE  Owed(c)'
  <2> DEFINE l == Listener("--download", d)
  <2>1. /\ heard' = [heard EXCEPT ![d] = "checking-for-update"]
        /\ stack' = Append(stack, l) /\ UNCHANGED <<todo, alive, listeners>>
    BY <1>5 DEF CheckForUpdates, Emit, process
  <2>2. l \in Token /\ l.check = d
    BY DEF Listener, Token, Commands
  <2> HIDE DEF l
  <2>3. /\ DOMAIN stack' = DOMAIN stack \cup {Len(stack) + 1}
        /\ \A i \in DOMAIN stack : stack'[i] = stack[i]
        /\ stack'[Len(stack) + 1] = l
    BY <1>1, <2>1, <2>2, Appended DEF TypeInv
  <2>4. CASE c = d
    BY <2>2, <2>3, <2>4 DEF Owed
  <2>5. CASE c # d
    <3>1. Unfinished(c)
      BY <1>1, <2>1, <2>5 DEF Unfinished, TypeInv
    <3> QED
      BY <1>2, <2>1, <2>3, <3>1 DEF Owed
  <2> QED
    BY <2>4, <2>5
<1>6. ASSUME NEW args, NEW l \in Token, Attach(args, l)
      PROVE  /\ UNCHANGED todo
             /\ \E p \in alive' : \E i \in DOMAIN listeners'[p] : listeners'[p][i] = l
             /\ \A p \in alive : p \in alive' /\ \A i \in DOMAIN listeners[p] :
                  i \in DOMAIN listeners'[p] /\ listeners'[p][i] = listeners[p][i]
  <2> DEFINE q == spawnedProcess'
  <2>1. /\ q \in alive' /\ q \in Pids /\ alive \subseteq alive' /\ alive \subseteq Pids
        /\ listeners' = [listeners EXCEPT ![q] = Append(@, l)]
        /\ listeners'[q] = Append(listeners[q], l) /\ UNCHANGED todo
    BY <1>1, <1>6, AttachedAt DEF IInv, TypeInv
  <2> HIDE DEF q
  <2>2. \A p \in Pids \ {q} : listeners'[p] = listeners[p]
    BY <1>1, <2>1 DEF TypeInv
  <2>3. /\ \A i \in DOMAIN listeners[q] :
             i \in DOMAIN listeners'[q] /\ listeners'[q][i] = listeners[q][i]
        /\ \E i \in DOMAIN listeners'[q] : listeners'[q][i] = l
    BY <1>1, <2>1, Appended DEF TypeInv
  <2> QED
    BY <2>1, <2>2, <2>3
<1>7. ASSUME QuitAndInstall
      PROVE  Owed(c)'
  <2> DEFINE l    == Listener("--processStartAndWait", 0)
             args == <<"--processStartAndWait", NoURL>>
  <2>1. /\ UNCHANGED <<stack, heard>>
        /\ UNCHANGED <<process, listeners, todo>> \/ Attach(args, l)
    BY <1>7 DEF QuitAndInstall, SpawnThrows
  <2>2. l \in Token
    BY DEF Listener, Token, Commands
  <2> HIDE DEF l, args
  <2>3. CASE UNCHANGED <<process, listeners, todo>>
    BY <1>3, <2>1, <2>3 DEF process
  <2>4. CASE Attach(args, l)
    <3>1. /\ UNCHANGED todo
          /\ \A p \in alive : p \in alive' /\ \A i \in DOMAIN listeners[p] :
               i \in DOMAIN listeners'[p] /\ listeners'[p][i] = listeners[p][i]
      BY <1>6, <2>2, <2>4
    <3> QED
      BY <1>2, <2>1, <3>1 DEF Unfinished, Owed
  <2> QED
    BY <2>1, <2>3, <2>4
<1>8. ASSUME EmitReturns
      PROVE  Owed(c)'
  <2> DEFINE l    == stack[Len(stack)]
             args == <<l.cmd, updateURL>>
  <2>1. /\ stack # <<>> /\ stack' = SubSeq(stack, 1, Len(stack) - 1)
        /\ \/ /\ heard' = [heard EXCEPT ![l.check] = "error"]
              /\ UNCHANGED <<alive, listeners, todo>>
           \/ Attach(args, l) /\ UNCHANGED heard
    BY <1>8 DEF EmitReturns, Emit, SpawnThrows, process
  <2>2. l \in Token /\ l.check \in Checks
    BY <2>1, TopOfStack
  <2>3. \A i \in DOMAIN stack :
          stack[i] = l \/ (i \in DOMAIN stack' /\ stack'[i] = stack[i])
    BY <1>1, <2>1, FrontOf DEF TypeInv
  <2> HIDE DEF l, args
  <2>4. CASE /\ heard' = [heard EXCEPT ![l.check] = "error"]
             /\ UNCHANGED <<alive, listeners, todo>>
    <3>1. l.check # c /\ Unfinished(c)
      BY <1>1, <2>2, <2>4 DEF Unfinished, TypeInv
    <3> QED
      BY <1>2, <2>3, <2>4, <3>1 DEF Owed
  <2>5. CASE Attach(args, l) /\ UNCHANGED heard
    <3>1. /\ UNCHANGED todo
          /\ \E p \in alive' : \E i \in DOMAIN listeners'[p] : listeners'[p][i] = l
          /\ \A p \in alive : p \in alive' /\ \A i \in DOMAIN listeners[p] :
               i \in DOMAIN listeners'[p] /\ listeners'[p][i] = listeners[p][i]
      BY <1>6, <2>2, <2>5
    <3>2. Owed(c)
      BY <1>2, <2>5 DEF Unfinished
    <3>3. CASE l.check = c
      BY <3>1, <3>3 DEF Owed
    <3>4. CASE l.check # c
      BY <2>3, <3>1, <3>2, <3>4 DEF Owed
    <3> QED
      BY <3>3, <3>4
  <2> QED
    BY <2>1, <2>4, <2>5
<1>9. ASSUME RunCallback
      PROVE  Owed(c)'
  <2> DEFINE l == Head(todo).l
  <2>1. /\ stack = <<>> /\ todo # <<>> /\ todo' = Tail(todo)
        /\ UNCHANGED <<alive, listeners>> /\ \E r : Callback(l, r)
    BY <1>9 DEF RunCallback, process
  <2>2. l \in Token /\ Due(heard, l)
    BY <2>1, HeadOfQueue
  <2>3. \A i \in DOMAIN todo :
          \/ i = 1 /\ todo[i].l = l
          \/ i - 1 \in DOMAIN todo' /\ todo'[i - 1] = todo[i]
    BY <1>1, <2>1 DEF TypeInv
  <2> HIDE DEF l
  <2>4. Owed(c)' \/ (Unfinished(c) /\ l.check # c)
    BY <1>1, <2>1, <2>2, StillUnfinished
  <2>5. ASSUME Unfinished(c), l.check # c
        PROVE  Owed(c)'
    BY <1>2, <2>1, <2>3, <2>5 DEF Owed
  <2> QED
    BY <2>4, <2>5
<1>10. ASSUME NEW p \in Pids, ProcessExits(p)
       PROVE  Owed(c)'
  <2> DEFINE l == listeners[p][1]
  <2>1. /\ stack = <<>> /\ todo = <<>> /\ alive' = alive \ {p}
        /\ listeners' = [listeners EXCEPT ![p] = <<>>]
    BY <1>10 DEF ProcessExits, LoopIdle
  <2>2. \A q \in alive \ {p} : listeners'[q] = listeners[q]
    BY <1>1, <2>1 DEF TypeInv
  <2>3. CASE listeners[p] = <<>>
    <3>1. UNCHANGED heard
      BY <1>10, <2>3 DEF ProcessExits
    <3>2. PICK q \in alive : \E i \in DOMAIN listeners[q] : listeners[q][i].check = c
      BY <1>2, <2>1, <3>1 DEF Unfinished, Owed
    <3>3. q # p
      BY <2>3, <3>2
    <3> QED
      BY <2>1, <2>2, <3>2, <3>3 DEF Owed
  <2>4. CASE listeners[p] # <<>>
    <3>1. listeners[p] \in Seq(Token) /\ l \in Token
      BY <1>1, <2>4 DEF TypeInv
    <3>2. PICK result \in Results(l.cmd) :
            /\ \E r \in Seen(l, result) : Callback(l, r)
            /\ todo' = Queue(listeners[p], "exit", result)
      BY <1>10, <2>4 DEF ProcessExits
    <3>3. Due(heard, l)
      BY <2>4, <3>1 DEF IInv, ListenersDue
    <3>4. \A i \in DOMAIN listeners[p] :
            i = 1 \/ (i - 1 \in DOMAIN todo' /\ todo'[i - 1].l = listeners[p][i])
      BY <3>1, <3>2 DEF Queue
    <3>5. Owed(c)' \/ (Unfinished(c) /\ l.check # c)
      BY <1>1, <2>1, <3>1, <3>2, <3>3, StillUnfinished
    <3>6. ASSUME Unfinished(c), l.check # c
          PROVE  Owed(c)'
      <4>1. PICK q \in alive : \E i \in DOMAIN listeners[q] : listeners[q][i].check = c
        BY <1>2, <2>1, <3>6 DEF Owed
      <4>2. CASE q # p
        BY <2>1, <2>2, <4>1, <4>2 DEF Owed
      <4>3. CASE q = p
        <5>1. PICK i \in DOMAIN listeners[p] : listeners[p][i].check = c
          BY <4>1, <4>3
        <5>2. i - 1 \in DOMAIN todo' /\ todo'[i - 1].l.check = c
          BY <3>4, <3>6, <5>1
        <5> QED
          BY <5>2 DEF Owed
      <4> QED
        BY <4>2, <4>3
    <3> QED
      BY <3>5, <3>6
  <2> QED
    BY <2>3, <2>4
<1>11. ASSUME NEW p \in Pids
       PROVE  ~ProcessFails(p)
  BY DEF ProcessFails
<1>12. CASE UNCHANGED vars
  BY <1>3, <1>12 DEF vars, process
<1> QED
  BY <1>4, <1>5, <1>7, <1>8, <1>9, <1>10, <1>11, <1>12 DEF Next

\* For any number of checks and feeds, while the system runs the processes, an
\* unfinished check has code on the stack, a callback of the event in progress or
\* a listener of a live process that still owes it an event, although an exit
\* listener clears spawnedProcess whatever process it stands for.
THEOREM NothingForgotten == Spec => []NoCheckForgotten
<1>1. Init => NoCheckForgotten
  BY DEF Init, NoCheckForgotten, Unfinished
<1> QED
  BY <1>1, InitIInv, NextIInv, NextNoCheckForgotten, PTL DEF Spec
=============================================================================
