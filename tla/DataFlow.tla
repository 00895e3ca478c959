------------------------------- MODULE DataFlow -------------------------------
(***************************************************************************)
(* Dataflow variables and streams: DataFlow.DataFlowVariable and           *)
(* DataFlowStream.                                                         *)
(*                                                                         *)
(* A variable is an atomic reference, a queue of blocked readers and an    *)
(* actor, In, which alone binds it.  A thread that finds it unbound makes  *)
(* an actor of its own, Out, puts it into the queue and asks it for the    *)
(* value; Out answers from the reference, or later, when In tells it.      *)
(* Nothing is locked: the queue is filled while In goes through it.        *)
(*                                                                         *)
(* An operator whose comment begins with `Mutant' is not part of the       *)
(* model: it is a mistake that the properties are shown to detect.         *)
(***************************************************************************)
EXTENDS Naturals, Sequences

CONSTANTS
  Thread,   \* threads, each of which makes one call
  Var,      \* dataflow variables
  Value,
  KindOf,   \* KindOf[t]: the call, one of Kind
  VarOf,    \* VarOf[t]: the variable it is made on, or None for a "take"
  FromOf,   \* FromOf[t]: the variable that a "copy" reads
  ValueOf,  \* ValueOf[t]: the value that a "bind" or "add" binds
  None

\* v << value; v << w; v(); v.shutdown; stream <<< v; stream <<< value; stream()
\* An "add" binds a variable and puts it into the stream: a new one in the code, or
\* one of its own in a thread that makes the two calls.
Kind == {"bind", "copy", "read", "shutdown", "offer", "add", "take"}

ASSUME CallsAssumption ==
  /\ KindOf \in [Thread -> Kind]
  /\ VarOf \in [Thread -> Var \cup {None}]
  /\ FromOf \in [Thread -> Var \cup {None}]
  /\ ValueOf \in [Thread -> Value \cup {None}]
  /\ \A t \in Thread :
       /\ KindOf[t] # "take" => VarOf[t] \in Var
       /\ KindOf[t] = "copy" => FromOf[t] \in Var
       /\ KindOf[t] \in {"bind", "add"} => ValueOf[t] \in Value
ASSUME NoneAssumption == None \notin Value \cup Var \cup Thread

VARIABLES
  value,     \* value[v]: DataFlowVariable.value
  blocked,   \* blocked[v]: blockedReaders, by the threads the Outs belong to
  inbox,     \* inbox[v]: the mailbox of In: Set and Exit
  phase,     \* phase[v]: what In is doing
  next,      \* next[v]: the place in blocked[v] that the iterator of In is at
  stage,     \* stage[t]: how far the call of t is
  at,        \* at[t]: the variable that t reads, or None
  got,       \* got[t]: what t read, or None
  mailbox,   \* mailbox[t]: the mailbox of the Out of t: Get, Set and Exit
  reader,    \* the threads whose Out remembers who asked
  answer,    \* answer[t]: the result of the future of t, or None
  gone,      \* the threads whose Out has handled 'exit
  queue      \* the stream

threadVars == <<stage, at, got>>
inVars     == <<value, phase, next>>
outVars    == <<reader, answer, gone>>
vars == <<inVars, blocked, inbox, threadVars, mailbox, outVars, queue>>

Set(x) == [type |-> "set", value |-> x]
Get    == [type |-> "get"]
Exit   == [type |-> "exit"]

\* Where a call begins.
First(t) == CASE KindOf[t] \in {"read", "copy"}            -> "read"
              [] KindOf[t] \in {"bind", "add", "shutdown"} -> "send"
              [] KindOf[t] = "offer"                       -> "offer"
              [] KindOf[t] = "take"                        -> "take"

Init ==
  /\ value = [v \in Var |-> None]
  /\ blocked = [v \in Var |-> <<>>]
  /\ inbox = [v \in Var |-> <<>>]
  /\ phase = [v \in Var |-> "ready"]
  /\ next = [v \in Var |-> 1]
  /\ stage = [t \in Thread |-> First(t)]
  /\ at = [t \in Thread |-> CASE KindOf[t] = "read" -> VarOf[t]
                              [] KindOf[t] = "copy" -> FromOf[t]
                              [] OTHER              -> None]
  /\ got = [t \in Thread |-> None]
  /\ mailbox = [t \in Thread |-> <<>>]
  /\ reader = {}
  /\ answer = [t \in Thread |-> None]
  /\ gone = {}
  /\ queue = <<>>

------------------------------------------------------------------------------
(* The calling thread *)

\* queue.take of the stream: what is taken is read.
Take(t) ==
  /\ stage[t] = "take"
  /\ queue # <<>>
  /\ at' = [at EXCEPT ![t] = Head(queue)]
  /\ queue' = Tail(queue)
  /\ stage' = [stage EXCEPT ![t] = "read"]
  /\ UNCHANGED <<inVars, blocked, inbox, got, mailbox, outVars>>

\* Mutant of Send: `v << w' tells the In of w.
SendBack(t) ==
  LET copies == KindOf[t] = "copy"
      x      == IF copies THEN got[t] ELSE ValueOf[t]
  IN  /\ stage[t] = "send"
      /\ inbox' = [inbox EXCEPT ![IF copies THEN FromOf[t] ELSE VarOf[t]] =
                     Append(@, IF KindOf[t] = "shutdown" THEN Exit ELSE Set(x))]
      /\ stage' = [stage EXCEPT ![t] =
                     IF KindOf[t] = "add" THEN "offer" ELSE "done"]
      /\ UNCHANGED <<inVars, blocked, at, got, mailbox, outVars, queue>>

\* in ! Set(value), or in ! 'exit.
Send(t) ==
  LET x == IF KindOf[t] = "copy" THEN got[t] ELSE ValueOf[t]
  IN  /\ stage[t] = "send"
      /\ inbox' = [inbox EXCEPT ![VarOf[t]] =
                     Append(@, IF KindOf[t] = "shutdown" THEN Exit ELSE Set(x))]
      /\ stage' = [stage EXCEPT ![t] =
                     IF KindOf[t] = "add" THEN "offer" ELSE "done"]
      /\ UNCHANGED <<inVars, blocked, at, got, mailbox, outVars, queue>>

\* queue.offer of the stream: the variable need not be bound.
OfferToStream(t) ==
  /\ stage[t] = "offer"
  /\ queue' = Append(queue, VarOf[t])
  /\ stage' = [stage EXCEPT ![t] = "done"]
  /\ UNCHANGED <<inVars, blocked, inbox, at, got, mailbox, outVars>>

\* The read is over: `v << w' goes on with what it got.
GotIt(t, x) ==
  /\ got' = [got EXCEPT ![t] = x]
  /\ stage' = [stage EXCEPT ![t] = IF KindOf[t] = "copy" THEN "send" ELSE "done"]

\* The first look at the reference.
Look(t) ==
  /\ stage[t] = "read"
  /\ \/ /\ value[at[t]] # None
        /\ GotIt(t, value[at[t]])
     \/ /\ value[at[t]] = None
        /\ stage' = [stage EXCEPT ![t] = "block"]
        /\ UNCHANGED got
  /\ UNCHANGED <<inVars, blocked, inbox, at, mailbox, outVars, queue>>

\* blockedReaders.offer(out)
Block(t) ==
  /\ stage[t] = "block"
  /\ blocked' = [blocked EXCEPT ![at[t]] = Append(@, t)]
  /\ stage' = [stage EXCEPT ![t] = "ask"]
  /\ UNCHANGED <<inVars, inbox, at, got, mailbox, outVars, queue>>

\* out !! Get
Ask(t) ==
  /\ stage[t] = "ask"
  /\ mailbox' = [mailbox EXCEPT ![t] = Append(@, Get)]
  /\ stage' = [stage EXCEPT ![t] = "waiting"]
  /\ UNCHANGED <<inVars, blocked, inbox, at, got, outVars, queue>>

\* The future has its result, and Out is told to exit.
Resume(t) ==
  /\ stage[t] = "waiting"
  /\ answer[t] # None
  /\ GotIt(t, answer[t])
  /\ mailbox' = [mailbox EXCEPT ![t] = Append(@, Exit)]
  /\ UNCHANGED <<inVars, blocked, inbox, at, outVars, queue>>

------------------------------------------------------------------------------
(* In *)

\* Mutant of Bind: the reference is set, and not compared first.
BindAgain(v) ==
  /\ phase[v] = "ready"
  /\ inbox[v] # <<>>
  /\ Head(inbox[v]).type = "set"
  /\ inbox' = [inbox EXCEPT ![v] = Tail(@)]
  /\ value' = [value EXCEPT ![v] = Head(inbox[v]).value]
  /\ phase' = [phase EXCEPT ![v] = "bound"]
  /\ UNCHANGED <<next, blocked, threadVars, mailbox, outVars, queue>>

\* Set(v): compareAndSet; when the variable is bound already the exception ends
\* the actor, as 'exit does.
Bind(v) ==
  /\ phase[v] = "ready"
  /\ inbox[v] # <<>>
  /\ inbox' = [inbox EXCEPT ![v] = Tail(@)]
  /\ IF Head(inbox[v]).type = "set" /\ value[v] = None
     THEN /\ value' = [value EXCEPT ![v] = Head(inbox[v]).value]
          /\ phase' = [phase EXCEPT ![v] = "bound"]
     ELSE /\ phase' = [phase EXCEPT ![v] = "dead"]
          /\ UNCHANGED value
  /\ UNCHANGED <<next, blocked, threadVars, mailbox, outVars, queue>>

\* The place of the iterator after place i: the iterator looks one element ahead,
\* and never again once there was none.
After(v, i) == IF i <= Len(blocked[v]) THEN i ELSE 0

\* Mutant of Iterate: the queue is cleared when the iterator has been made.
IterateAndClear(v) ==
  /\ phase[v] = "bound"
  /\ phase' = [phase EXCEPT ![v] = "telling"]
  /\ next' = [next EXCEPT ![v] = After(v, 1)]
  /\ blocked' = [blocked EXCEPT ![v] = <<>>]
  /\ UNCHANGED <<value, inbox, threadVars, mailbox, outVars, queue>>

\* blockedReaders.iterator
Iterate(v) ==
  /\ phase[v] = "bound"
  /\ phase' = [phase EXCEPT ![v] = "telling"]
  /\ next' = [next EXCEPT ![v] = After(v, 1)]
  /\ UNCHANGED <<value, blocked, inbox, threadVars, mailbox, outVars, queue>>

\* Mutant of Tell: only the first reader is told.
TellFirst(v) ==
  /\ phase[v] = "telling"
  /\ next[v] # 0
  /\ next' = [next EXCEPT ![v] = 0]
  /\ mailbox' = [mailbox EXCEPT ![blocked[v][next[v]]] =
                   Append(@, Set(value[v]))]
  /\ UNCHANGED <<value, phase, blocked, inbox, threadVars, outVars, queue>>

\* iterator.next ! Set(v)
Tell(v) ==
  /\ phase[v] = "telling"
  /\ next[v] # 0
  /\ next' = [next EXCEPT ![v] = After(v, @ + 1)]
  /\ mailbox' = [mailbox EXCEPT ![blocked[v][next[v]]] =
                   Append(@, Set(value[v]))]
  /\ UNCHANGED <<value, phase, blocked, inbox, threadVars, outVars, queue>>

\* blockedReaders.clear: nothing reads the queue any more.
Clear(v) ==
  /\ phase[v] = "telling"
  /\ next[v] = 0
  /\ blocked' = [blocked EXCEPT ![v] = <<>>]
  /\ phase' = [phase EXCEPT ![v] = "ready"]
  /\ UNCHANGED <<value, next, inbox, threadVars, mailbox, outVars, queue>>

------------------------------------------------------------------------------
(* Out, the actor of a thread that reads *)

\* The Out of t takes message m from its mailbox.
Takes(t, m) ==
  /\ t \notin gone
  /\ mailbox[t] # <<>>
  /\ m = Head(mailbox[t])
  /\ mailbox' = [mailbox EXCEPT ![t] = Tail(@)]
  /\ UNCHANGED <<inVars, blocked, inbox, threadVars, queue>>

\* Mutant of OutGet: Out does not look, it waits to be told.
OutWaits(t) ==
  /\ Takes(t, Get)
  /\ reader' = reader \cup {t}
  /\ UNCHANGED <<answer, gone>>

OutGet(t) ==
  /\ Takes(t, Get)
  /\ \/ /\ value[at[t]] # None
        /\ answer' = [answer EXCEPT ![t] = value[at[t]]]
        /\ UNCHANGED reader
     \/ /\ value[at[t]] = None
        /\ reader' = reader \cup {t}
        /\ UNCHANGED answer
  /\ UNCHANGED gone

\* Before Get nobody waits for the answer, and the message is lost.
OutSet(t) ==
  /\ \E x \in Value :
       /\ Takes(t, Set(x))
       /\ answer' = IF t \in reader THEN [answer EXCEPT ![t] = x] ELSE answer
  /\ UNCHANGED <<reader, gone>>

OutExit(t) ==
  /\ Takes(t, Exit)
  /\ gone' = gone \cup {t}
  /\ UNCHANGED <<reader, answer>>

------------------------------------------------------------------------------
ThreadStep(t) ==
  \/ Take(t) \/ Send(t) \/ OfferToStream(t)
  \/ Look(t) \/ Block(t) \/ Ask(t) \/ Resume(t)
InStep(v)  == Bind(v) \/ Iterate(v) \/ Tell(v) \/ Clear(v)
OutStep(t) == OutGet(t) \/ OutSet(t) \/ OutExit(t)

Next ==
  \/ \E t \in Thread : ThreadStep(t) \/ OutStep(t)
  \/ \E v \in Var : InStep(v)

\* A thread goes on with a call that it began, and the scheduler of the actors
\* runs one that has a message.  Nothing makes a call begin.
Fairness ==
  /\ \A t \in Thread : /\ WF_vars(stage[t] # First(t) /\ ThreadStep(t))
                     /\ WF_vars(OutStep(t))
  /\ \A v \in Var : WF_vars(InStep(v))

Spec == Init /\ [][Next]_vars /\ Fairness

------------------------------------------------------------------------------
(* Properties *)

\* Types; the iterator of In stays within the queue, which only In empties
\* (DataFlowVariable.scala:63-65).
TypeOK ==
  /\ value \in [Var -> Value \cup {None}]
  /\ blocked \in [Var -> Seq(Thread)]
  /\ inbox \in [Var -> Seq([type : {"set"}, value : Value] \cup {Exit})]
  /\ phase \in [Var -> {"ready", "bound", "telling", "dead"}]
  /\ next \in [Var -> Nat]
  /\ \A v \in Var : phase[v] = "telling" => next[v] \in 0 .. Len(blocked[v])
  /\ stage \in [Thread -> {"take", "read", "block", "ask", "waiting",
                           "send", "offer", "done"}]
  /\ at \in [Thread -> Var \cup {None}]
  /\ got \in [Thread -> Value \cup {None}]
  /\ mailbox \in
       [Thread -> Seq([type : {"set"}, value : Value] \cup {Get, Exit})]
  /\ reader \subseteq Thread
  /\ answer \in [Thread -> Value \cup {None}]
  /\ gone \subseteq Thread
  /\ queue \in Seq(Var)

\* A variable is bound once, and all who read it get that value, whether they
\* found it in the reference or were told (DataFlowVariable.scala:62 and 74-78).
Promise == INSTANCE SingleAssignment
  WITH got <- [t \in Thread |->
                 IF got[t] = None THEN None ELSE <<at[t], got[t]>>]
KeepsPromise == Promise!Spec

\* In finds in the queue, or has told, everyone whose Out has seen the variable
\* unbound: nobody falls between the look at the reference and the pass through
\* the queue (DataFlowVariable.scala:63 and 95).
NoneLeftBehind ==
  \A t \in reader :
    LET v == at[t]
        ToBeTold(i) ==
          /\ blocked[v][i] = t
          /\ \/ value[v] = None
             \/ phase[v] = "bound"
             \/ phase[v] = "telling" /\ next[v] \in 1 .. i
    IN  \/ answer[t] # None
        \/ \E i \in DOMAIN mailbox[t] : mailbox[t][i] = Set(value[v])
        \/ \E i \in DOMAIN blocked[v] : ToBeTold(i)

\* Whoever reads a variable that is bound, or gets bound, returns
\* (DataFlowVariable.scala:90).
ReadersReturn ==
  \A t \in Thread :
    (stage[t] # First(t) /\ at[t] # None /\ value[at[t]] # None)
      ~> (got[t] # None)

\* `<<' binds its variable, with this value or another, unless somebody shuts
\* the variable down (DataFlowVariable.scala:84-88).
ShutDown(v) == \E s \in Thread : /\ KindOf[s] = "shutdown" /\ VarOf[s] = v
                                 /\ stage[s] = "done"

Binds ==
  \A t \in Thread :
    KindOf[t] \in {"bind", "add", "copy"} =>
      (stage[t] # First(t) /\ stage[t] \in {"send", "offer", "done"})
        ~> (value[VarOf[t]] # None \/ ShutDown(VarOf[t]))
===============================================================================
