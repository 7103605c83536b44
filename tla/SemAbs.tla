-------------------------------- MODULE SemAbs --------------------------------
(***************************************************************************)
(* What one counting semaphore of k_sem.c promises, without the kernel     *)
(* around it: a token that is given goes to a waiting task if there is one *)
(* and is counted otherwise; a take that has been granted a token returns  *)
(* with it, whatever timeouts, priorities and other tasks do.              *)
(***************************************************************************)
EXTENDS Integers, FiniteSets

CONSTANTS Users,          \* tasks that take
          CountMax,       \* (sem_count_t)-1
          InitCount

ASSUME SemAbsConstants ==
  /\ IsFiniteSet(Users)
  /\ CountMax \in Nat \ {0} /\ InitCount \in 0 .. CountMax

VARIABLES count,
          waiting,        \* tasks blocked in a take
          granted,        \* tasks whose blocked take has got a token
          balance         \* tokens given and not yet returned by a take

absvars == <<count, waiting, granted, balance>>

InitAbs == count = InitCount /\ balance = InitCount /\ waiting = {} /\ granted = {}

\* A take that finds a token.
Take ==
  /\ count > 0
  /\ count' = count - 1 /\ balance' = balance - 1
  /\ UNCHANGED <<waiting, granted>>

Block_Always(t) ==
  /\ t \notin waiting \cup granted
  /\ waiting' = waiting \cup {t}
  /\ UNCHANGED <<count, granted, balance>>

\* A take that has to wait.
Block(t) ==
  /\ count = 0 /\ t \notin waiting \cup granted
  /\ waiting' = waiting \cup {t}
  /\ UNCHANGED <<count, granted, balance>>

GiveCount ==
  /\ waiting = {} /\ count < CountMax
  /\ count' = count + 1 /\ balance' = balance + 1
  /\ UNCHANGED <<waiting, granted>>

GiveTo_OneToken(S) ==
  /\ S # {} /\ S \subseteq waiting
  /\ waiting' = waiting \ S /\ granted' = granted \cup S
  /\ balance' = balance + 1
  /\ UNCHANGED count

\* A give to the tasks S: to one, or to all that wait.
GiveTo(S) ==
  /\ S # {} /\ S \subseteq waiting /\ (S = waiting \/ Cardinality(S) = 1)
  /\ waiting' = waiting \ S /\ granted' = granted \cup S
  /\ balance' = balance + Cardinality(S)
  /\ UNCHANGED count

\* Timeouts of the tasks S.
GiveUp(S) ==
  /\ S # {} /\ S \subseteq waiting
  /\ waiting' = waiting \ S
  /\ UNCHANGED <<count, granted, balance>>

\* A granted take returns RHINO_SUCCESS.
Return(t) ==
  /\ t \in granted
  /\ granted' = granted \ {t} /\ balance' = balance - 1
  /\ UNCHANGED <<count, waiting>>

CountSet(n) ==
  /\ waiting = {}
  /\ count' = n /\ balance' = balance + (n - count)
  /\ UNCHANGED <<waiting, granted>>

NextAbs ==
  \/ Take \/ GiveCount
  \/ \E t \in Users : Block(t) \/ Return(t)
  \/ \E S \in SUBSET Users : GiveTo(S) \/ GiveUp(S)
  \/ \E n \in 0 .. CountMax : CountSet(n)

SpecAbs == InitAbs /\ [][NextAbs]_absvars

-----------------------------------------------------------------------------
TypeOKAbs ==
  /\ count \in 0 .. CountMax /\ balance \in Int
  /\ waiting \subseteq Users /\ granted \subseteq Users

\* No task waits at a semaphore that has a token.
NoWaitWithTokens == count > 0 => waiting = {}

\* Tokens are neither lost nor made: those given and not yet returned are in
\* the count or with a task whose take is about to return.
TokensConserved == balance = count + Cardinality(granted)

\* No wake-up is lost and no token: what sem_give and sem_take promise together.
TokensSound == NoWaitWithTokens /\ TokensConserved

\* The inductive invariant: moreover a take that has got a token waits no more.
IInv ==
  /\ TypeOKAbs /\ TokensSound
  /\ waiting \cap granted = {}
=============================================================================
