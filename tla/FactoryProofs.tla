--------------------------- MODULE FactoryProofs ---------------------------
(***************************************************************************)
(* The entry whose functor make() runs stays in the registry, for every    *)
(* number of threads, paths, functions and modules, and however deep       *)
(* functions call back into the factory; and where none does, no mutex is  *)
(* left behind and nobody waits for ever.                                  *)
(*                                                                         *)
(* EntryInUse looks at one frame; what makes it inductive is that such a   *)
(* frame holds the mutex, and that there is one at most: a function that   *)
(* calls make() again waits for ever, and never gets a second frame.       *)
(*                                                                         *)
(* For DeadlockNeedsReentry, LocksInv says which call each mutex belongs   *)
(* to: the mutex to a make() that runs its function, the monitor of the    *)
(* execution engine to a jit_factory() that registers.  What such a call   *)
(* waits for is the mutex, whose holder, unless a function calls back,     *)
(* waits for nothing: there is no circle.                                  *)
(***************************************************************************)
EXTENDS Library, SequenceTheorems, TLAPS

Frames == [op : {"make", "register", "jit"}, path : Paths,
           what : ArgLists \cup Functions, at : {"lock", "run", "ran"},
           serial : Nat]

Running(c) == c.op = "make" /\ c.at # "lock"

FactoryTypeOK ==
    /\ registry \in [Paths -> [fcn : SUBSET (ArgLists \cup Functions), serial : Nat]]
    /\ mutex \in Threads \cup {None}
    /\ stack \in [Threads -> Seq(Frames)]
    /\ serial \in Nat

\* a frame that runs holds the mutex, and runs the entry in the registry
RunningHolds ==
    \A t \in Threads : \A k \in 1 .. Len(stack[t]) :
        Running(stack[t][k]) =>
            /\ mutex = t
            /\ registry[stack[t][k].path].serial = stack[t][k].serial

OneRuns ==
    \A t \in Threads : \A j, k \in 1 .. Len(stack[t]) :
        Running(stack[t][j]) /\ Running(stack[t][k]) => j = k

FactoryInv == FactoryTypeOK /\ RunningHolds /\ OneRuns

---------------------------------------------------------------------------
(* What popping a frame, pushing one, and changing the last one leave.     *)
LEMMA PopFrame ==
    ASSUME NEW s \in Seq(Frames), s # <<>>, NEW r, r = SubSeq(s, 1, Len(s) - 1)
    PROVE  /\ r \in Seq(Frames) /\ Len(r) = Len(s) - 1
           /\ \A k \in 1 .. Len(r) : k \in 1 .. Len(s) /\ r[k] = s[k]
<1>1. Len(s) \in Nat \ {0} /\ \A k \in 1 .. Len(s) : s[k] \in Frames
  BY EmptySeq, LenProperties
<1>2. Len(s) - 1 \in Int /\ 1 \in Int /\ \A k \in 1 .. Len(s) - 1 : s[k] \in Frames
  BY <1>1
<1>3. /\ r \in Seq(Frames)
      /\ Len(r) = IF 1 <= Len(s) - 1 THEN Len(s) - 1 - 1 + 1 ELSE 0
      /\ \A k \in 1 .. Len(s) - 1 - 1 + 1 : r[k] = s[1 + k - 1]
  BY <1>2, SubSeqProperties
<1>4. PICK n \in Nat \ {0} : n = Len(s)
  BY <1>1
<1>5. \A k \in 1 .. n - 1 : k \in 1 .. n /\ k \in 1 .. n - 1 - 1 + 1 /\ 1 + k - 1 = k
  OBVIOUS
<1>6. Len(r) = n - 1
  BY <1>3, <1>4
<1>7. \A k \in 1 .. Len(r) : k \in 1 .. Len(s) /\ r[k] = s[k]
  BY <1>3, <1>4, <1>5, <1>6
<1>8. QED
  BY <1>3, <1>4, <1>6, <1>7

LEMMA PushFrame ==
    ASSUME NEW s \in Seq(Frames), NEW c \in Frames, NEW r, r = Append(s, c)
    PROVE  /\ r \in Seq(Frames) /\ Len(r) = Len(s) + 1 /\ Len(s) \in Nat
           /\ \A k \in 1 .. Len(s) : r[k] = s[k]
           /\ r[Len(s) + 1] = c
  BY AppendProperties, LenProperties

LEMMA SetFrame ==
    ASSUME NEW s \in Seq(Frames), s # <<>>, NEW c \in Frames,
           NEW r, r = [s EXCEPT ![Len(s)] = c]
    PROVE  /\ r \in Seq(Frames) /\ Len(r) = Len(s) /\ Len(s) \in Nat \ {0}
           /\ \A k \in 1 .. Len(s) : k # Len(s) => r[k] = s[k]
           /\ r[Len(s)] = c
<1>1. Len(s) \in Nat \ {0}
  BY EmptySeq, LenProperties
<1>2. QED
  BY <1>1, ExceptSeq

---------------------------------------------------------------------------
(* An idle mutex means that no make() runs.                                *)
LEMMA NobodyRuns ==
    ASSUME FactoryInv, mutex = None
    PROVE  \A t \in Threads : \A k \in 1 .. Len(stack[t]) : ~Running(stack[t][k])
  BY UsersAssumption DEF FactoryInv, RunningHolds

---------------------------------------------------------------------------
\* the frames of r that run are frames of s that run
RunsAs(r, s) ==
    \A k \in 1 .. Len(r) : Running(r[k]) =>
        k \in 1 .. Len(s) /\ Running(s[k]) /\ r[k].path = s[k].path /\ r[k].serial = s[k].serial

(* A step that changes the calls of one thread, and neither the lock nor   *)
(* the registry, keeps the invariant when it lets nothing new run.         *)
LEMMA StackStep ==
    ASSUME FactoryInv, NEW t \in Threads, NEW r \in Seq(Frames),
           stack' = [stack EXCEPT ![t] = r], RunsAs(r, stack[t]),
           UNCHANGED <<registry, mutex, serial>>
    PROVE  FactoryInv'
<1>1. /\ stack' \in [Threads -> Seq(Frames)] /\ stack'[t] = r
      /\ \A u \in Threads : u # t => stack'[u] = stack[u]
  BY DEF FactoryInv, FactoryTypeOK
<1>2. FactoryTypeOK'
  BY <1>1 DEF FactoryInv, FactoryTypeOK
<1>3. RunningHolds'
  <2>1. SUFFICES ASSUME NEW u \in Threads, NEW k \in 1 .. Len(stack'[u]), Running(stack'[u][k])
                 PROVE  mutex = u /\ registry[stack'[u][k].path].serial = stack'[u][k].serial
    BY DEF RunningHolds, Running
  <2>2. CASE u = t
    BY <1>1, <2>1, <2>2 DEF RunsAs, FactoryInv, RunningHolds
  <2>3. CASE u # t
    BY <1>1, <2>1, <2>3 DEF FactoryInv, RunningHolds
  <2>4. QED
    BY <2>2, <2>3
<1>4. OneRuns'
  <2>1. SUFFICES ASSUME NEW u \in Threads, NEW j \in 1 .. Len(stack'[u]), NEW k \in 1 .. Len(stack'[u]),
                        Running(stack'[u][j]), Running(stack'[u][k])
                 PROVE  j = k
    BY DEF OneRuns, Running
  <2>2. CASE u = t
    BY <1>1, <2>1, <2>2 DEF RunsAs, FactoryInv, OneRuns
  <2>3. CASE u # t
    BY <1>1, <2>1, <2>3 DEF FactoryInv, OneRuns
  <2>4. QED
    BY <2>2, <2>3
<1>5. QED
  BY <1>2, <1>3, <1>4 DEF FactoryInv

(* When nothing runs but in thread t, the lock and the registry may change *)
(* with the calls of t, as long as nothing runs in t afterwards.           *)
LEMMA QuietStep ==
    ASSUME FactoryInv, FactoryTypeOK', NEW t \in Threads, NEW r \in Seq(Frames),
           stack' = [stack EXCEPT ![t] = r],
           \A k \in 1 .. Len(r) : ~Running(r[k]),
           \A u \in Threads \ {t} : \A k \in 1 .. Len(stack[u]) : ~Running(stack[u][k])
    PROVE  FactoryInv'
<1>1. \A u \in Threads : stack'[u] = IF u = t THEN r ELSE stack[u]
  BY DEF FactoryInv, FactoryTypeOK
<1>2. \A u \in Threads : \A k \in 1 .. Len(stack'[u]) : ~Running(stack'[u][k])
  BY <1>1
<1>3. RunningHolds' /\ OneRuns'
  BY <1>2 DEF RunningHolds, OneRuns, Running
<1>4. QED
  BY <1>3 DEF FactoryInv

---------------------------------------------------------------------------
(* The last frame of a thread, and what At makes of it.                    *)
LEMMA LastFrame ==
    ASSUME FactoryInv, NEW t \in Threads, stack[t] # <<>>
    PROVE  /\ stack[t] \in Seq(Frames) /\ Len(stack[t]) \in Nat \ {0}
           /\ Len(stack[t]) \in 1 .. Len(stack[t]) /\ Top(t) \in Frames
<1>1. stack[t] \in Seq(Frames)
  BY DEF FactoryInv, FactoryTypeOK
<1>2. Len(stack[t]) \in Nat \ {0} /\ stack[t] \in [1 .. Len(stack[t]) -> Frames]
  BY <1>1, EmptySeq, LenProperties
<1>3. Len(stack[t]) \in 1 .. Len(stack[t])
  BY <1>2
<1>4. QED
  BY <1>1, <1>2, <1>3 DEF Top

LEMMA AtLast ==
    ASSUME FactoryInv, NEW t \in Threads, stack[t] # <<>>, NEW at \in {"lock", "run", "ran"}
    PROVE  \E r \in Seq(Frames) :
               /\ At(t, at) = [stack EXCEPT ![t] = r]
               /\ Len(r) = Len(stack[t]) /\ r[Len(r)] = [Top(t) EXCEPT !.at = at]
               /\ \A k \in 1 .. Len(r) : k # Len(r) => r[k] = stack[t][k]
<1> DEFINE c == [Top(t) EXCEPT !.at = at]
           r == [stack[t] EXCEPT ![Len(stack[t])] = c]
<1>1. c \in Frames
  BY LastFrame DEF Frames
<1>2. At(t, at) = [stack EXCEPT ![t] = r]
  BY DEF At, Top
<1> HIDE DEF c
<1>3. /\ r \in Seq(Frames) /\ Len(r) = Len(stack[t]) /\ r[Len(stack[t])] = c
      /\ \A k \in 1 .. Len(stack[t]) : k # Len(stack[t]) => r[k] = stack[t][k]
  BY <1>1, LastFrame, SetFrame
<1>4. \A k \in 1 .. Len(r) : k # Len(r) => r[k] = stack[t][k]
  BY <1>3
<1>5. Len(r) = Len(stack[t]) /\ r[Len(r)] = [Top(t) EXCEPT !.at = at]
  BY <1>3 DEF c
<1> HIDE DEF r
<1>6. QED
  BY <1>2, <1>3, <1>4, <1>5

---------------------------------------------------------------------------
(* The steps of the factory keep the invariant.                            *)
LEMMA UnwoundKeeps ==
    ASSUME FactoryInv, NEW t \in Threads, Unwound(t), UNCHANGED <<registry, serial>>
    PROVE  FactoryInv'
<1>1. PICK r : r = <<>>
  OBVIOUS
<1>2. r \in Seq(Frames) /\ Len(r) = 0
  BY <1>1, EmptySeq
<1>3. stack' = [stack EXCEPT ![t] = r] /\ mutex' = (IF mutex = t THEN None ELSE mutex)
  BY <1>1 DEF Unwound, ReleasesLocks
<1>4. FactoryTypeOK'
  BY <1>2, <1>3 DEF FactoryInv, FactoryTypeOK
<1>5. CASE mutex = t
  <2>1. \A u \in Threads \ {t} : \A k \in 1 .. Len(stack[u]) : ~Running(stack[u][k])
    BY <1>5 DEF FactoryInv, RunningHolds
  <2>2. \A k \in 1 .. Len(r) : ~Running(r[k])
    BY <1>2
  <2>3. QED
    BY <1>2, <1>3, <1>4, <2>1, <2>2, QuietStep
<1>6. CASE mutex # t
  <2>1. UNCHANGED <<registry, mutex, serial>>
    BY <1>3, <1>6
  <2>2. RunsAs(r, stack[t])
    BY <1>2 DEF RunsAs
  <2>3. QED
    BY <1>2, <1>3, <2>1, <2>2, StackStep
<1>7. QED
  BY <1>5, <1>6

LEMMA RegisterKeeps ==
    ASSUME FactoryInv, NEW t \in Threads, RegisterFactory(t)
    PROVE  FactoryInv'
<1>1. /\ stack[t] # <<>> /\ mutex = None /\ mutex' = mutex /\ serial' = serial + 1
      /\ registry' = [registry EXCEPT ![Top(t).path] = Entry(Top(t).what, serial + 1)]
      /\ stack' = [stack EXCEPT ![t] = SubSeq(@, 1, Len(@) - 1)]
  BY DEF RegisterFactory, In, Pop
<1>2. PICK r : r = SubSeq(stack[t], 1, Len(stack[t]) - 1)
  OBVIOUS
<1>3. /\ r \in Seq(Frames) /\ Len(r) = Len(stack[t]) - 1
      /\ \A k \in 1 .. Len(r) : k \in 1 .. Len(stack[t]) /\ r[k] = stack[t][k]
  BY <1>1, <1>2, LastFrame, PopFrame
<1>4. stack' = [stack EXCEPT ![t] = r]
  BY <1>1, <1>2
<1>5. PICK e : e = Entry(Top(t).what, serial + 1)
  OBVIOUS
<1>6. e \in [fcn : SUBSET (ArgLists \cup Functions), serial : Nat]
  <2>1. Top(t) \in Frames
    BY <1>1, LastFrame
  <2>2. Top(t).what \in ArgLists \cup Functions
    BY <2>1 DEF Frames
  <2>3. serial + 1 \in Nat
    BY DEF FactoryInv, FactoryTypeOK
  <2>4. QED
    BY <1>5, <2>2, <2>3 DEF Entry
<1>7. FactoryTypeOK'
  <2>1. registry' \in [Paths -> [fcn : SUBSET (ArgLists \cup Functions), serial : Nat]]
    BY <1>1, <1>5, <1>6 DEF FactoryInv, FactoryTypeOK
  <2>2. serial' \in Nat /\ stack' \in [Threads -> Seq(Frames)] /\ mutex' \in Threads \cup {None}
    BY <1>1, <1>3, <1>4 DEF FactoryInv, FactoryTypeOK
  <2>3. QED
    BY <2>1, <2>2 DEF FactoryTypeOK
<1>8. /\ \A k \in 1 .. Len(r) : ~Running(r[k])
      /\ \A u \in Threads \ {t} : \A k \in 1 .. Len(stack[u]) : ~Running(stack[u][k])
  BY <1>1, <1>3, NobodyRuns
<1>9. QED
  BY <1>3, <1>4, <1>7, <1>8, QuietStep

LEMMA MakeReturnsKeeps ==
    ASSUME FactoryInv, NEW t \in Threads, MakeReturns(t)
    PROVE  FactoryInv'
<1>1. /\ stack[t] # <<>> /\ Running(Top(t)) /\ mutex' = None
      /\ stack' = [stack EXCEPT ![t] = SubSeq(@, 1, Len(@) - 1)]
      /\ UNCHANGED <<registry, serial>>
  BY DEF MakeReturns, In, Pop, Running
<1>2. PICK r : r = SubSeq(stack[t], 1, Len(stack[t]) - 1)
  OBVIOUS
<1>3. /\ r \in Seq(Frames) /\ Len(r) = Len(stack[t]) - 1
      /\ \A k \in 1 .. Len(r) : k \in 1 .. Len(stack[t]) /\ r[k] = stack[t][k]
  BY <1>1, <1>2, LastFrame, PopFrame
<1>4. stack' = [stack EXCEPT ![t] = r]
  BY <1>1, <1>2
<1>5. FactoryTypeOK'
  BY <1>1, <1>3, <1>4 DEF FactoryInv, FactoryTypeOK
<1>6. /\ Len(stack[t]) \in 1 .. Len(stack[t]) /\ Len(stack[t]) \in Nat
      /\ Running(stack[t][Len(stack[t])])
  BY <1>1, LastFrame DEF Top
<1>7. \A k \in 1 .. Len(r) : k # Len(stack[t])
  BY <1>3, <1>6
<1>8. \A k \in 1 .. Len(r) : ~Running(r[k])
  BY <1>3, <1>6, <1>7 DEF FactoryInv, OneRuns
<1>9. \A u \in Threads \ {t} : \A k \in 1 .. Len(stack[u]) : ~Running(stack[u][k])
  BY <1>6 DEF FactoryInv, RunningHolds
<1>10. QED
  BY <1>3, <1>4, <1>5, <1>8, <1>9, QuietStep

LEMMA MakeRunsKeeps ==
    ASSUME FactoryInv, NEW t \in Threads, MakeRuns(t)
    PROVE  FactoryInv'
<1> DEFINE entry == registry[Top(t).path]
           c == [Top(t) EXCEPT !.at = "run", !.serial = entry.serial]
<1>1. /\ stack[t] # <<>> /\ mutex = None /\ mutex' = t
      /\ stack' = [stack EXCEPT ![t] = [stack[t] EXCEPT ![Len(stack[t])] = c]]
      /\ UNCHANGED <<registry, serial>>
  BY DEF MakeRuns, In, LocksMake, Top
<1>2. Top(t) \in Frames /\ Len(stack[t]) \in 1 .. Len(stack[t]) /\ stack[t] \in Seq(Frames)
  BY <1>1, LastFrame
<1>3. Top(t).path \in Paths
  BY <1>2 DEF Frames
<1>4. entry.serial \in Nat
  BY <1>3 DEF FactoryInv, FactoryTypeOK
<1> HIDE DEF entry
<1>5. c \in Frames /\ c.path = Top(t).path /\ c.serial = entry.serial
  BY <1>2, <1>4 DEF Frames
<1> HIDE DEF c
<1>6. PICK r : r = [stack[t] EXCEPT ![Len(stack[t])] = c]
  OBVIOUS
<1>7. /\ r \in Seq(Frames) /\ Len(r) = Len(stack[t]) /\ r[Len(stack[t])] = c
      /\ \A k \in 1 .. Len(stack[t]) : k # Len(stack[t]) => r[k] = stack[t][k]
  BY <1>1, <1>2, <1>5, <1>6, SetFrame
<1>8. \A u \in Threads : stack'[u] = IF u = t THEN r ELSE stack[u]
  BY <1>1, <1>6 DEF FactoryInv, FactoryTypeOK
<1>9. FactoryTypeOK'
  BY <1>1, <1>6, <1>7 DEF FactoryInv, FactoryTypeOK
<1>10. \A u \in Threads : \A k \in 1 .. Len(stack'[u]) :
           Running(stack'[u][k]) => u = t /\ k = Len(stack[t]) /\ stack'[u][k] = c
  BY <1>1, <1>7, <1>8, NobodyRuns
<1>11. RunningHolds'
  <2>1. registry'[c.path].serial = c.serial
    BY <1>1, <1>5 DEF entry
  <2>2. QED
    BY <1>1, <1>10, <2>1 DEF RunningHolds, Running
<1>12. OneRuns'
  BY <1>10 DEF OneRuns, Running
<1>13. QED
  BY <1>9, <1>11, <1>12 DEF FactoryInv

(* A new call, in a thread whose last frame may have moved on.             *)
LEMMA PushKeeps ==
    ASSUME FactoryInv, NEW t \in Threads, NEW s \in Seq(Frames), NEW c \in Frames,
           ~Running(c), RunsAs(s, stack[t]), stack' = [stack EXCEPT ![t] = Append(s, c)],
           UNCHANGED <<registry, mutex, serial>>
    PROVE  FactoryInv'
<1>1. PICK r : r = Append(s, c)
  OBVIOUS
<1>2. /\ r \in Seq(Frames) /\ Len(r) = Len(s) + 1 /\ Len(s) \in Nat
      /\ \A k \in 1 .. Len(s) : r[k] = s[k]
      /\ r[Len(s) + 1] = c
  BY <1>1, PushFrame
<1>3. \A k \in 1 .. Len(r) : Running(r[k]) => k \in 1 .. Len(s) /\ r[k] = s[k]
  BY <1>2
<1>4. RunsAs(r, stack[t])
  BY <1>3 DEF RunsAs
<1>5. QED
  BY <1>1, <1>2, <1>4, StackStep

LEMMA CallsAreFrames ==
    ASSUME NEW c \in UserCalls
    PROVE  c \in Frames /\ ~Running(c)
BY DEF UserCalls, Call, Frames, Running

LEMMA AtRunsAs ==
    ASSUME FactoryInv, NEW t \in Threads, stack[t] # <<>>, NEW at \in {"run", "ran"},
           Running(Top(t)) \/ Top(t).op # "make",
           NEW r \in Seq(Frames), Len(r) = Len(stack[t]),
           r[Len(r)] = [Top(t) EXCEPT !.at = at],
           \A k \in 1 .. Len(r) : k # Len(r) => r[k] = stack[t][k]
    PROVE  RunsAs(r, stack[t])
<1>1. Top(t) \in Frames /\ Len(stack[t]) \in 1 .. Len(stack[t]) /\ Top(t) = stack[t][Len(stack[t])]
  BY LastFrame DEF Top
<1>2. PICK c : c = [Top(t) EXCEPT !.at = at]
  OBVIOUS
<1>3. c.op = Top(t).op /\ c.path = Top(t).path /\ c.serial = Top(t).serial
  BY <1>1, <1>2 DEF Frames
<1>4. \A k \in 1 .. Len(r) : r[k] = IF k = Len(stack[t]) THEN c ELSE stack[t][k]
  BY <1>2
<1>5. Running(c) => Running(Top(t))
  BY <1>3 DEF Running
<1>6. QED
  BY <1>1, <1>3, <1>4, <1>5 DEF RunsAs

LEMMA CallKeeps ==
    ASSUME FactoryInv, NEW t \in Threads, stack[t] # <<>>,
           Running(Top(t)) \/ Top(t).op # "make",
           NEW c \in Frames, ~Running(c),
           stack' = [At(t, "ran") EXCEPT ![t] = Append(@, c)],
           UNCHANGED <<registry, mutex, serial>>
    PROVE  FactoryInv'
<1>1. PICK r \in Seq(Frames) :
          /\ At(t, "ran") = [stack EXCEPT ![t] = r]
          /\ Len(r) = Len(stack[t]) /\ r[Len(r)] = [Top(t) EXCEPT !.at = "ran"]
          /\ \A k \in 1 .. Len(r) : k # Len(r) => r[k] = stack[t][k]
  BY AtLast
<1>2. RunsAs(r, stack[t])
  BY <1>1, AtRunsAs
<1>3. stack' = [stack EXCEPT ![t] = Append(r, c)]
  BY <1>1 DEF FactoryInv, FactoryTypeOK
<1>4. QED
  BY <1>2, <1>3, PushKeeps

LEMMA FactoryStepKeeps ==
    ASSUME FactoryInv, NEW t \in Threads, FactoryStep(t)
    PROVE  FactoryInv'
<1>1. CASE RegisterFactory(t)
  BY <1>1, RegisterKeeps
<1>2. CASE MakeRefused(t)
  BY <1>2, UnwoundKeeps DEF MakeRefused
<1>3. CASE MakeRuns(t)
  BY <1>3, MakeRunsKeeps
<1>4. ASSUME NEW c \in UserCalls, FunctionCalls(t, c) PROVE FactoryInv'
  <2>1. stack[t] # <<>> /\ Running(Top(t)) /\ UNCHANGED <<registry, mutex, serial>>
    BY <1>4 DEF FunctionCalls, In, Running
  <2>2. stack' = [At(t, "ran") EXCEPT ![t] = Append(@, c)]
    BY <1>4 DEF FunctionCalls
  <2>3. QED
    BY <2>1, <2>2, CallsAreFrames, CallKeeps
<1>5. CASE FunctionRuns(t)
  <2>1. /\ stack[t] # <<>> /\ Running(Top(t)) /\ UNCHANGED <<registry, mutex, serial>>
        /\ stack' = At(t, "ran")
    BY <1>5 DEF FunctionRuns, In, Running
  <2>2. PICK r \in Seq(Frames) :
            /\ At(t, "ran") = [stack EXCEPT ![t] = r]
            /\ Len(r) = Len(stack[t]) /\ r[Len(r)] = [Top(t) EXCEPT !.at = "ran"]
            /\ \A k \in 1 .. Len(r) : k # Len(r) => r[k] = stack[t][k]
    BY <2>1, AtLast
  <2>3. RunsAs(r, stack[t])
    BY <2>1, <2>2, AtRunsAs
  <2>4. QED
    BY <2>1, <2>2, <2>3, StackStep
<1>6. CASE FunctionThrows(t)
  BY <1>6, UnwoundKeeps DEF FunctionThrows
<1>7. CASE MakeReturns(t)
  BY <1>7, MakeReturnsKeeps
<1>8. CASE JitFails(t)
  BY <1>8, UnwoundKeeps DEF JitFails
<1>9. CASE JitRegisters(t)
  <2> DEFINE c == Call("register", Top(t).path, Top(t).what)
  <2>1. stack[t] # <<>> /\ Top(t).op = "jit" /\ UNCHANGED <<registry, mutex, serial>>
    BY <1>9 DEF JitRegisters, In
  <2>2. stack' = [At(t, "ran") EXCEPT ![t] = Append(@, c)]
    BY <1>9 DEF JitRegisters
  <2>3. Top(t) \in Frames
    BY <2>1, LastFrame
  <2>4. c \in Frames /\ ~Running(c)
    BY <2>3 DEF Frames, Call, Running
  <2> HIDE DEF c
  <2>5. QED
    BY <2>1, <2>2, <2>4, CallKeeps
<1>10. CASE JitReturns(t)
  <2>1. /\ stack[t] # <<>> /\ UNCHANGED <<registry, mutex, serial>>
        /\ stack' = [stack EXCEPT ![t] = SubSeq(@, 1, Len(@) - 1)]
    BY <1>10 DEF JitReturns, In, Pop
  <2>2. PICK r : r = SubSeq(stack[t], 1, Len(stack[t]) - 1)
    OBVIOUS
  <2>3. /\ r \in Seq(Frames)
        /\ \A k \in 1 .. Len(r) : k \in 1 .. Len(stack[t]) /\ r[k] = stack[t][k]
    BY <2>1, <2>2, LastFrame, PopFrame
  <2>4. RunsAs(r, stack[t]) /\ stack' = [stack EXCEPT ![t] = r]
    BY <2>1, <2>2, <2>3 DEF RunsAs
  <2>5. QED
    BY <2>1, <2>3, <2>4, StackStep
<1>11. QED
  BY <1>1, <1>2, <1>3, <1>4, <1>5, <1>6, <1>7, <1>8, <1>9, <1>10 DEF FactoryStep

LEMMA EntersKeeps ==
    ASSUME FactoryInv, NEW t \in Threads, NEW c \in UserCalls, Enters(t, c)
    PROVE  FactoryInv'
<1>1. /\ stack' = [stack EXCEPT ![t] = Append(stack[t], c)]
      /\ UNCHANGED <<registry, mutex, serial>>
  BY DEF Enters, Push
<1>2. stack[t] \in Seq(Frames) /\ RunsAs(stack[t], stack[t])
  BY DEF FactoryInv, FactoryTypeOK, RunsAs
<1>3. QED
  BY <1>1, <1>2, CallsAreFrames, PushKeeps

---------------------------------------------------------------------------
LEMMA FactoryInitHolds == FactoryInit => FactoryInv
<1> SUFFICES ASSUME FactoryInit PROVE FactoryInv
  OBVIOUS
<1>1. /\ registry \in [Paths -> {Absent} \cup {Entry(f, 1) : f \in Functions}]
      /\ mutex = None /\ stack = [t \in Threads |-> <<>>] /\ serial = 1
  BY DEF FactoryInit
<1>2. <<>> \in Seq(Frames) /\ Len(<<>>) = 0
  BY EmptySeq
<1>3. {Absent} \cup {Entry(f, 1) : f \in Functions}
          \subseteq [fcn : SUBSET (ArgLists \cup Functions), serial : Nat]
  BY DEF Absent, Entry
<1>4. FactoryTypeOK
  BY <1>1, <1>2, <1>3 DEF FactoryTypeOK
<1>5. RunningHolds /\ OneRuns
  BY <1>1, <1>2 DEF RunningHolds, OneRuns
<1>6. QED
  BY <1>4, <1>5 DEF FactoryInv

LEMMA FactoryNextKeeps == FactoryInv /\ [FactoryNext]_factory => FactoryInv'
<1> SUFFICES ASSUME FactoryInv, [FactoryNext]_factory PROVE FactoryInv'
  OBVIOUS
<1>1. CASE FactoryNext
  BY <1>1, FactoryStepKeeps, EntersKeeps DEF FactoryNext
<1>2. CASE UNCHANGED factory
  BY <1>2 DEF factory, FactoryInv, FactoryTypeOK, RunningHolds, OneRuns
<1>3. QED
  BY <1>1, <1>2

LEMMA InvGivesEntry == FactoryInv => EntryInUse
<1> SUFFICES ASSUME FactoryInv, NEW t \in Threads, NEW k \in DOMAIN stack[t],
                    stack[t][k].op = "make", stack[t][k].at # "lock"
             PROVE  registry[stack[t][k].path].serial = stack[t][k].serial
  BY DEF EntryInUse
<1>1. stack[t] \in Seq(Frames)
  BY DEF FactoryInv, FactoryTypeOK
<1>2. k \in 1 .. Len(stack[t])
  BY <1>1, LenProperties
<1>3. QED
  BY <1>2 DEF FactoryInv, RunningHolds, Running

(* The functor that make() runs is that of the entry in the registry       *)
(* (factory.cpp: the scoped lock of _handle_make spans the call).          *)
THEOREM EntryStays == FactorySpec => []EntryInUse
<1>1. FactoryInit => FactoryInv
  BY FactoryInitHolds
<1>2. FactoryInv /\ [FactoryNext]_factory => FactoryInv'
  BY FactoryNextKeeps
<1>3. FactoryInv => EntryInUse
  BY InvGivesEntry
<1>4. QED
  BY <1>1, <1>2, <1>3, PTL DEF FactorySpec

(* Whatever the rest of the library does around it, the factory is used as *)
(* its specification allows: elements that functions create, and the calls *)
(* to their methods, take no part in its locks.                            *)
THEOREM LibraryUsesFactory == LibrarySpec => FactorySpec
<1>1. LibraryInit => FactoryInit
  BY DEF LibraryInit
<1>2. [LibraryNext]_library => [FactoryNext]_factory
  <2> SUFFICES ASSUME [LibraryNext]_library PROVE [FactoryNext]_factory
    OBVIOUS
  <2>1. CASE UNCHANGED library
    BY <2>1 DEF library
  <2>2. ASSUME NEW t \in Threads, MakesElement(t) PROVE FactoryNext
    BY <2>2 DEF MakesElement, FactoryNext, FactoryStep
  <2>3. ASSUME NEW t \in Threads, FactorySteps(t) PROVE FactoryNext
    BY <2>3 DEF FactorySteps, FactoryNext, FactoryStep
  <2>4. ASSUME NEW t \in Threads, UsesFactory(t) PROVE FactoryNext
    BY <2>4 DEF UsesFactory, FactoryNext
  <2>5. CASE LibraryNext
    BY <2>2, <2>3, <2>4, <2>5 DEF LibraryNext
  <2>6. QED
    BY <2>1, <2>5
<1>3. QED
  BY <1>1, <1>2, PTL DEF LibrarySpec, FactorySpec

(* The same of the whole library.                                          *)
THEOREM LibraryEntryStays == LibrarySpec => []EntryInUse
BY EntryStays, LibraryUsesFactory, PTL

---------------------------------------------------------------------------
(* The locks themselves: a lock is held by a thread that is in a call under *)
(* it.                                                                     *)

\* a call of jit_factory() that runs the static blocks
Registering(c) == c.op = "jit" /\ c.at # "lock"

\* nothing is called from register_factory(), and it only from jit_factory()
\* and user code
Nested(s) == \A k \in 1 .. Len(s) :
    /\ s[k].op = "register" => s[k].at = "lock" /\ k = Len(s)
    /\ s[k].op = "jit" /\ k < Len(s) => s[k + 1].op = "register"

LocksInv ==
    /\ \A t \in Threads : Nested(stack[t])
    /\ eemon \in Threads \cup {None}
    /\ \A t \in Threads : eemon = t <=>
           \E k \in 1 .. Len(stack[t]) : Registering(stack[t][k])
    /\ \A t \in Threads : mutex = t =>
           \E k \in 1 .. Len(stack[t]) : Running(stack[t][k])

\* what a step of t makes of the locks, when r are its calls afterwards
LocksStep(t, r) ==
    /\ stack' = [stack EXCEPT ![t] = r]
    /\ Nested(r)
    /\ eemon' \in Threads \cup {None}
    /\ eemon' = t <=> \E k \in 1 .. Len(r) : Registering(r[k])
    /\ mutex' = t => \E k \in 1 .. Len(r) : Running(r[k])
    /\ \A u \in Threads : u # t => (eemon' = u <=> eemon = u) /\ (mutex' = u => mutex = u)

LEMMA LocksStepKeeps ==
    ASSUME FactoryInv, LocksInv, NEW t \in Threads, NEW r, LocksStep(t, r)
    PROVE  LocksInv'
<1>1. \A u \in Threads : stack'[u] = IF u = t THEN r ELSE stack[u]
  BY DEF LocksStep, FactoryInv, FactoryTypeOK
<1>2. \A u \in Threads : Nested(stack'[u])
  BY <1>1 DEF LocksStep, LocksInv
<1>3. ASSUME NEW u \in Threads
      PROVE  /\ eemon' = u <=> \E k \in 1 .. Len(stack'[u]) : Registering(stack'[u][k])
             /\ mutex' = u => \E k \in 1 .. Len(stack'[u]) : Running(stack'[u][k])
  <2>1. CASE u = t
    BY <1>1, <2>1 DEF LocksStep
  <2>2. CASE u # t
    BY <1>1, <2>2 DEF LocksStep, LocksInv
  <2>3. QED
    BY <2>1, <2>2
<1>4. (\A u \in Threads : Nested(stack[u]))'
  BY <1>2 DEF Nested
<1>5. (\A u \in Threads : eemon = u <=>
           \E k \in 1 .. Len(stack[u]) : Registering(stack[u][k]))'
  BY <1>3 DEF Registering
<1>6. (\A u \in Threads : mutex = u =>
           \E k \in 1 .. Len(stack[u]) : Running(stack[u][k]))'
  BY <1>3 DEF Running
<1>7. QED
  BY <1>4, <1>5, <1>6 DEF LocksInv, LocksStep

\* An exception gives back both locks with the calls.
LEMMA UnwoundLocks ==
    ASSUME FactoryInv, LocksInv, NEW t \in Threads, Unwound(t)
    PROVE  LocksStep(t, <<>>)
<1>1. Len(<<>>) = 0
  OBVIOUS
<1>2. eemon' \in Threads \cup {None} /\ eemon' # t /\ mutex' # t
  BY UsersAssumption DEF Unwound, ReleasesLocks, LocksInv
<1>3. \A u \in Threads : u # t => (eemon' = u <=> eemon = u) /\ (mutex' = u => mutex = u)
  BY UsersAssumption DEF Unwound, ReleasesLocks
<1>4. stack' = [stack EXCEPT ![t] = <<>>]
  BY DEF Unwound
<1>5. Nested(<<>>)
  BY <1>1 DEF Nested
<1>6. QED
  BY <1>1, <1>2, <1>3, <1>4, <1>5 DEF LocksStep

\* the calls below the last one
LEMMA PoppedLocks ==
    ASSUME FactoryInv, LocksInv, NEW t \in Threads, stack[t] # <<>>
    PROVE  \E r \in Seq(Frames) :
               /\ Pop(t) = [stack EXCEPT ![t] = r] /\ Nested(r)
               /\ Len(r) = Len(stack[t]) - 1
               /\ \A k \in 1 .. Len(r) : k \in 1 .. Len(stack[t]) /\ r[k] = stack[t][k]
<1>1. PICK r : r = SubSeq(stack[t], 1, Len(stack[t]) - 1)
  OBVIOUS
<1>2. /\ r \in Seq(Frames) /\ Len(r) = Len(stack[t]) - 1
      /\ \A k \in 1 .. Len(r) : k \in 1 .. Len(stack[t]) /\ r[k] = stack[t][k]
  BY <1>1, LastFrame, PopFrame
<1>3. Pop(t) = [stack EXCEPT ![t] = r]
  BY <1>1 DEF Pop
<1>4. Nested(r)
  <2>1. Len(stack[t]) \in Nat /\ Nested(stack[t])
    BY LastFrame DEF LocksInv
  <2>2. ASSUME NEW k \in 1 .. Len(r)
        PROVE  /\ k \in 1 .. Len(stack[t]) /\ r[k] = stack[t][k] /\ k < Len(stack[t])
               /\ k < Len(r) => k + 1 \in 1 .. Len(r) /\ r[k + 1] = stack[t][k + 1]
    BY <1>2, <2>1
  <2>3. \A k \in 1 .. Len(r) : r[k].op # "register"
    BY <2>1, <2>2 DEF Nested
  <2>4. QED
    BY <2>1, <2>2, <2>3 DEF Nested
<1>5. QED
  BY <1>2, <1>3, <1>4

\* the other threads keep what they hold
OthersLocks(t) ==
    /\ eemon' \in Threads \cup {None}
    /\ \A u \in Threads : u # t => (eemon' = u <=> eemon = u) /\ (mutex' = u => mutex = u)

\* A call that returns gives back the lock it ran under.
LEMMA PopLocks ==
    ASSUME FactoryInv, LocksInv, NEW t \in Threads, stack[t] # <<>>, stack' = Pop(t),
           eemon' = IF Registering(Top(t)) THEN None ELSE eemon,
           mutex' = IF Running(Top(t)) THEN None ELSE mutex
    PROVE  \E r : LocksStep(t, r)
<1>1. PICK r \in Seq(Frames) :
          /\ Pop(t) = [stack EXCEPT ![t] = r] /\ Nested(r)
          /\ Len(r) = Len(stack[t]) - 1
          /\ \A k \in 1 .. Len(r) : k \in 1 .. Len(stack[t]) /\ r[k] = stack[t][k]
  BY PoppedLocks
<1>2. PICK n \in Nat \ {0} : n = Len(stack[t])
  BY LastFrame
<1>3. Len(r) = n - 1 /\ Top(t) = stack[t][n] /\ n \in 1 .. n
  BY <1>1, <1>2 DEF Top
<1>4. \A k \in 1 .. n : k \in 1 .. n - 1 \/ k = n
  OBVIOUS
<1>5. Nested(stack[t]) /\ (eemon = t <=> \E k \in 1 .. n : Registering(stack[t][k]))
  BY <1>2 DEF LocksInv
<1>6. mutex = t => \E k \in 1 .. n : Running(stack[t][k])
  BY <1>2 DEF LocksInv
<1>7. t # None /\ \A u \in Threads : u # None
  BY UsersAssumption
<1>8. eemon' = t <=> \E k \in 1 .. Len(r) : Registering(r[k])
  <2>1. CASE Registering(Top(t))
    <3>1. ASSUME NEW k \in 1 .. n - 1, Registering(stack[t][k]) PROVE FALSE
      <4>1. k \in 1 .. n /\ k < n /\ k + 1 \in 1 .. n
        OBVIOUS
      <4>2. stack[t][k + 1].op = "register"
        BY <1>2, <1>5, <3>1, <4>1 DEF Nested, Registering
      <4>3. k + 1 = n
        BY <1>2, <1>5, <4>1, <4>2 DEF Nested
      <4>4. QED
        BY <1>3, <2>1, <4>2, <4>3 DEF Registering
    <3>2. QED
      BY <1>1, <1>3, <1>7, <2>1, <3>1
  <2>2. CASE ~Registering(Top(t))
    BY <1>1, <1>2, <1>3, <1>4, <1>5, <2>2
  <2>3. QED
    BY <2>1, <2>2
<1>9. mutex' = t => \E k \in 1 .. Len(r) : Running(r[k])
  BY <1>1, <1>2, <1>3, <1>4, <1>6, <1>7
<1>10. eemon' \in Threads \cup {None}
  BY DEF LocksInv
<1>11. ASSUME NEW u \in Threads, u # t
       PROVE  (eemon' = u <=> eemon = u) /\ (mutex' = u => mutex = u)
  BY <1>3, <1>5, <1>7, <1>11
<1>12. LocksStep(t, r)
  BY <1>1, <1>8, <1>9, <1>10, <1>11 DEF LocksStep
<1>13. QED
  BY <1>12

\* A make() that goes on leaves the frames and the locks of its thread.
LEMMA MadeOn ==
    ASSUME FactoryInv, LocksInv, NEW t \in Threads, stack[t] # <<>>,
           Top(t).op = "make", NEW r \in Seq(Frames), Len(r) = Len(stack[t]),
           Running(r[Len(r)]), \A k \in 1 .. Len(r) : k # Len(r) => r[k] = stack[t][k]
    PROVE  /\ Nested(r)
           /\ eemon = t <=> \E k \in 1 .. Len(r) : Registering(r[k])
           /\ \E k \in 1 .. Len(r) : Running(r[k])
<1>1. PICK n \in Nat \ {0} : n = Len(stack[t])
  BY LastFrame
<1>2. Len(r) = n /\ Top(t) = stack[t][n] /\ n \in 1 .. n
  BY <1>1 DEF Top
<1>3. Nested(stack[t]) /\ (eemon = t <=> \E k \in 1 .. n : Registering(stack[t][k]))
  BY <1>1 DEF LocksInv
<1>4. Nested(r)
  BY <1>1, <1>2, <1>3 DEF Nested, Running
<1>5. eemon = t <=> \E k \in 1 .. Len(r) : Registering(r[k])
  BY <1>2, <1>3, <1>1 DEF Registering, Running
<1>6. QED
  BY <1>2, <1>4, <1>5

\* The last call, a make(), goes on.
LEMMA SetLocks ==
    ASSUME FactoryInv, LocksInv, NEW t \in Threads, stack[t] # <<>>,
           Top(t).op = "make", NEW r \in Seq(Frames), Len(r) = Len(stack[t]),
           Running(r[Len(r)]), \A k \in 1 .. Len(r) : k # Len(r) => r[k] = stack[t][k],
           stack' = [stack EXCEPT ![t] = r], eemon' = eemon, mutex' \in {mutex, t}
    PROVE  LocksStep(t, r)
<1>1. /\ Nested(r)
      /\ eemon = t <=> \E k \in 1 .. Len(r) : Registering(r[k])
      /\ \E k \in 1 .. Len(r) : Running(r[k])
  BY MadeOn
<1>2. QED
  BY <1>1 DEF LocksStep, LocksInv

\* A new call takes no lock.
LEMMA PushLocks ==
    ASSUME NEW t \in Threads, NEW s \in Seq(Frames), NEW c \in Frames, c.at = "lock",
           Nested(s), OthersLocks(t),
           s = <<>> \/ s[Len(s)].op = "make" \/ (s[Len(s)].op = "jit" /\ c.op = "register"),
           eemon' = t <=> \E k \in 1 .. Len(s) : Registering(s[k]),
           mutex' = t => \E k \in 1 .. Len(s) : Running(s[k]),
           stack' = [stack EXCEPT ![t] = Append(s, c)]
    PROVE  \E r : LocksStep(t, r)
<1>1. PICK r : r = Append(s, c)
  OBVIOUS
<1>2. /\ Len(r) = Len(s) + 1 /\ Len(s) \in Nat
      /\ \A k \in 1 .. Len(s) : r[k] = s[k]
      /\ r[Len(s) + 1] = c
  BY <1>1, PushFrame
<1>3. PICK n \in Nat : n = Len(s)
  BY <1>2
<1>4. Len(r) = n + 1 /\ r[n + 1] = c /\ \A k \in 1 .. n : r[k] = s[k]
  BY <1>2, <1>3
<1>5. n # 0 => n \in 1 .. n /\ (s[n].op = "make" \/ (s[n].op = "jit" /\ c.op = "register"))
  BY <1>3, EmptySeq
<1>6. Nested(r)
  <2>1. ASSUME NEW k \in 1 .. n, s[k].op = "register" PROVE FALSE
    BY <1>3, <1>5, <2>1 DEF Nested
  <2>2. ASSUME NEW k \in 1 .. n + 1
        PROVE  /\ r[k].op = "register" => r[k].at = "lock" /\ k = n + 1
               /\ r[k].op = "jit" /\ k < n + 1 => r[k + 1].op = "register"
    <3>1. CASE k = n + 1
      BY <1>4, <3>1
    <3>2. CASE k = n
      BY <1>4, <1>5, <2>1, <3>2
    <3>3. CASE k < n
      <4>1. k \in 1 .. n /\ k + 1 \in 1 .. n
        BY <3>3
      <4>2. QED
        BY <1>3, <1>4, <2>1, <3>3, <4>1 DEF Nested
    <3>4. QED
      BY <3>1, <3>2, <3>3
  <2>3. QED
    BY <1>4, <2>2 DEF Nested
<1>7. ~Registering(c) /\ ~Running(c)
  BY DEF Registering, Running
<1>8. \A k \in 1 .. n + 1 : k \in 1 .. n \/ k = n + 1
  OBVIOUS
<1>9. \A k \in 1 .. n : k \in 1 .. n + 1
  OBVIOUS
<1>10. eemon' = t <=> \E k \in 1 .. Len(r) : Registering(r[k])
  BY <1>3, <1>4, <1>7, <1>8, <1>9
<1>11. mutex' = t => \E k \in 1 .. Len(r) : Running(r[k])
  BY <1>3, <1>4, <1>9
<1>12. LocksStep(t, r)
  BY <1>1, <1>6, <1>10, <1>11 DEF LocksStep, OthersLocks
<1>13. QED
  BY <1>12

(* Every step of a thread keeps the locks in order.                        *)
LEMMA StepLocks ==
    ASSUME FactoryInv, LocksInv, NEW t \in Threads, FactoryStep(t)
    PROVE  \E r : LocksStep(t, r)
<1>1. CASE RegisterFactory(t)
  <2>1. /\ stack[t] # <<>> /\ Top(t).op = "register" /\ stack' = Pop(t)
        /\ eemon' = eemon /\ mutex' = mutex
    BY <1>1 DEF RegisterFactory, In
  <2>2. ~Registering(Top(t)) /\ ~Running(Top(t))
    BY <2>1 DEF Registering, Running
  <2>3. QED
    BY <2>1, <2>2, PopLocks
<1>2. CASE Unwound(t)
  BY <1>2, UnwoundLocks
<1>3. CASE MakeRuns(t)
  <2> DEFINE c == [Top(t) EXCEPT !.at = "run", !.serial = registry[Top(t).path].serial]
  <2>1. /\ stack[t] # <<>> /\ Top(t).op = "make" /\ mutex' = t /\ eemon' = eemon
        /\ stack' = [stack EXCEPT ![t] = [stack[t] EXCEPT ![Len(stack[t])] = c]]
    BY <1>3 DEF MakeRuns, In, LocksMake, Top
  <2>2. Top(t) \in Frames /\ stack[t] \in Seq(Frames)
    BY <2>1, LastFrame
  <2>3. registry[Top(t).path].serial \in Nat
    BY <2>2 DEF FactoryInv, FactoryTypeOK, Frames
  <2>4. c \in Frames /\ Running(c)
    BY <2>1, <2>2, <2>3 DEF Frames, Running
  <2> HIDE DEF c
  <2>5. PICK r : r = [stack[t] EXCEPT ![Len(stack[t])] = c]
    OBVIOUS
  <2>6. /\ r \in Seq(Frames) /\ Len(r) = Len(stack[t]) /\ r[Len(stack[t])] = c
        /\ \A k \in 1 .. Len(stack[t]) : k # Len(stack[t]) => r[k] = stack[t][k]
    BY <2>1, <2>2, <2>4, <2>5, SetFrame
  <2>7. QED
    BY <2>1, <2>4, <2>5, <2>6, SetLocks
<1>4. ASSUME NEW c \in UserCalls, FunctionCalls(t, c) PROVE \E r : LocksStep(t, r)
  <2>1. /\ stack[t] # <<>> /\ Top(t).op = "make" /\ Running(Top(t))
        /\ eemon' = eemon /\ mutex' = mutex
        /\ stack' = [At(t, "ran") EXCEPT ![t] = Append(@, c)]
    BY <1>4 DEF FunctionCalls, In, Running
  <2>2. PICK s \in Seq(Frames) :
            /\ At(t, "ran") = [stack EXCEPT ![t] = s]
            /\ Len(s) = Len(stack[t]) /\ s[Len(s)] = [Top(t) EXCEPT !.at = "ran"]
            /\ \A k \in 1 .. Len(s) : k # Len(s) => s[k] = stack[t][k]
    BY <2>1, AtLast
  <2>3. Top(t) \in Frames
    BY <2>1, LastFrame
  <2>4. Running(s[Len(s)]) /\ s[Len(s)].op = "make"
    BY <2>1, <2>2, <2>3 DEF Frames, Running
  <2>5. c \in Frames /\ c.at = "lock"
    BY CallsAreFrames DEF UserCalls, Call
  <2>6. stack' = [stack EXCEPT ![t] = Append(s, c)]
    BY <2>1, <2>2 DEF FactoryInv, FactoryTypeOK
  <2>7. Nested(s) /\ (eemon' = t <=> \E k \in 1 .. Len(s) : Registering(s[k]))
        /\ (mutex' = t => \E k \in 1 .. Len(s) : Running(s[k]))
    BY <2>1, <2>2, <2>4, MadeOn
  <2>8. OthersLocks(t)
    BY <2>1 DEF OthersLocks, LocksInv
  <2>9. QED
    BY <2>4, <2>5, <2>6, <2>7, <2>8, PushLocks
<1>5. CASE FunctionRuns(t)
  <2>1. /\ stack[t] # <<>> /\ Top(t).op = "make" /\ Running(Top(t))
        /\ eemon' = eemon /\ mutex' = mutex /\ stack' = At(t, "ran")
    BY <1>5 DEF FunctionRuns, In, Running
  <2>2. PICK s \in Seq(Frames) :
            /\ At(t, "ran") = [stack EXCEPT ![t] = s]
            /\ Len(s) = Len(stack[t]) /\ s[Len(s)] = [Top(t) EXCEPT !.at = "ran"]
            /\ \A k \in 1 .. Len(s) : k # Len(s) => s[k] = stack[t][k]
    BY <2>1, AtLast
  <2>3. Top(t) \in Frames
    BY <2>1, LastFrame
  <2>4. Running(s[Len(s)])
    BY <2>1, <2>2, <2>3 DEF Frames, Running
  <2>5. QED
    BY <2>1, <2>2, <2>4, SetLocks
<1>6. CASE MakeReturns(t)
  <2>1. /\ stack[t] # <<>> /\ Running(Top(t)) /\ Top(t).op = "make" /\ stack' = Pop(t)
        /\ eemon' = eemon /\ mutex' = None
    BY <1>6 DEF MakeReturns, In, Running
  <2>2. ~Registering(Top(t))
    BY <2>1 DEF Registering
  <2>3. QED
    BY <2>1, <2>2, PopLocks
<1>7. CASE JitRegisters(t)
  <2> DEFINE c == Call("register", Top(t).path, Top(t).what)
  <2>1. /\ stack[t] # <<>> /\ Top(t).op = "jit" /\ eemon = None /\ eemon' = t /\ mutex' = mutex
        /\ stack' = [At(t, "ran") EXCEPT ![t] = Append(@, c)]
    BY <1>7 DEF JitRegisters, In
  <2>2. PICK s \in Seq(Frames) :
            /\ At(t, "ran") = [stack EXCEPT ![t] = s]
            /\ Len(s) = Len(stack[t]) /\ s[Len(s)] = [Top(t) EXCEPT !.at = "ran"]
            /\ \A k \in 1 .. Len(s) : k # Len(s) => s[k] = stack[t][k]
    BY <2>1, AtLast
  <2>3. Top(t) \in Frames
    BY <2>1, LastFrame
  <2>4. Registering(s[Len(s)]) /\ s[Len(s)].op = "jit"
    BY <2>1, <2>2, <2>3 DEF Frames, Registering
  <2>5. c \in Frames /\ c.at = "lock" /\ c.op = "register"
    BY <2>3 DEF Frames, Call
  <2> HIDE DEF c
  <2>6. stack' = [stack EXCEPT ![t] = Append(s, c)]
    BY <2>1, <2>2 DEF FactoryInv, FactoryTypeOK
  <2>7. Len(s) \in 1 .. Len(s)
    BY <2>1, <2>2, LastFrame
  <2>8. Nested(s)
    <3>1. PICK n \in Nat \ {0} : n = Len(stack[t])
      BY <2>1, LastFrame
    <3>2. Nested(stack[t]) /\ stack[t][n].op = "jit" /\ Len(s) = n /\ s[n].op = "jit"
      BY <2>1, <2>2, <2>4, <3>1 DEF LocksInv, Top
    <3>3. \A k \in 1 .. n : s[k].op = stack[t][k].op /\ (k # n => s[k] = stack[t][k])
      BY <2>2, <3>1, <3>2
    <3>4. \A k \in 1 .. n : k < n => k + 1 \in 1 .. n
      OBVIOUS
    <3>5. QED
      BY <3>1, <3>2, <3>3, <3>4 DEF Nested
  <2>9. mutex' = t => \E k \in 1 .. Len(s) : Running(s[k])
    <3>1. ASSUME NEW k \in 1 .. Len(s), Running(stack[t][k]) PROVE Running(s[k])
      BY <2>1, <2>2, <3>1 DEF Top, Running
    <3>2. QED
      BY <2>1, <2>2, <3>1 DEF LocksInv
  <2>10. OthersLocks(t)
    BY <2>1, UsersAssumption DEF OthersLocks
  <2>11. eemon' = t <=> \E k \in 1 .. Len(s) : Registering(s[k])
    BY <2>1, <2>4, <2>7
  <2>12. QED
    BY <2>4, <2>5, <2>6, <2>8, <2>9, <2>10, <2>11, PushLocks
<1>8. CASE JitReturns(t)
  <2>1. /\ stack[t] # <<>> /\ Registering(Top(t)) /\ Top(t).op = "jit" /\ stack' = Pop(t)
        /\ eemon' = None /\ mutex' = mutex
    BY <1>8 DEF JitReturns, In, Registering
  <2>2. ~Running(Top(t))
    BY <2>1 DEF Running
  <2>3. QED
    BY <2>1, <2>2, PopLocks
<1>9. MakeRefused(t) \/ FunctionThrows(t) \/ JitFails(t) => Unwound(t)
  BY DEF MakeRefused, FunctionThrows, JitFails
<1>10. QED
  BY <1>1, <1>2, <1>3, <1>4, <1>5, <1>6, <1>7, <1>8, <1>9 DEF FactoryStep

(* A call into the factory takes no lock yet.                              *)
LEMMA EntersLocks ==
    ASSUME FactoryInv, LocksInv, NEW t \in Threads, NEW c \in UserCalls, Enters(t, c)
    PROVE  \E r : LocksStep(t, r)
<1>1. /\ stack[t] = <<>> /\ eemon' = eemon /\ mutex' = mutex
      /\ stack' = [stack EXCEPT ![t] = Append(stack[t], c)]
  BY DEF Enters, Push
<1>2. c \in Frames /\ c.at = "lock"
  BY CallsAreFrames DEF UserCalls, Call
<1>3. stack[t] \in Seq(Frames) /\ Nested(stack[t]) /\ OthersLocks(t)
  BY <1>1 DEF FactoryInv, FactoryTypeOK, LocksInv, OthersLocks
<1>4. /\ eemon' = t <=> \E k \in 1 .. Len(stack[t]) : Registering(stack[t][k])
      /\ mutex' = t => \E k \in 1 .. Len(stack[t]) : Running(stack[t][k])
  BY <1>1 DEF LocksInv
<1>5. QED
  BY <1>1, <1>2, <1>3, <1>4, PushLocks

---------------------------------------------------------------------------
LEMMA LocksInit == FactoryInit => LocksInv
<1> SUFFICES ASSUME FactoryInit PROVE LocksInv
  OBVIOUS
<1>1. mutex = None /\ eemon = None /\ \A t \in Threads : stack[t] = <<>>
  BY DEF FactoryInit
<1>2. Len(<<>>) = 0
  OBVIOUS
<1>3. \A t \in Threads : Len(stack[t]) = 0 /\ t # None
  BY <1>1, <1>2, UsersAssumption
<1>4. QED
  BY <1>1, <1>3 DEF LocksInv, Nested

LEMMA LocksNext == FactoryInv /\ LocksInv /\ [FactoryNext]_factory => LocksInv'
<1> SUFFICES ASSUME FactoryInv, LocksInv, [FactoryNext]_factory PROVE LocksInv'
  OBVIOUS
<1>1. CASE FactoryNext
  BY <1>1, StepLocks, EntersLocks, LocksStepKeeps DEF FactoryNext
<1>2. CASE UNCHANGED factory
  BY <1>2 DEF factory, LocksInv, Nested, Registering, Running
<1>3. QED
  BY <1>1, <1>2

\* the frames that run are those the property speaks of
LEMMA HeldFrames ==
    ASSUME FactoryInv, NEW t \in Threads
    PROVE  /\ (\E k \in 1 .. Len(stack[t]) : Running(stack[t][k])) => Holds(t, "make")
           /\ (\E k \in 1 .. Len(stack[t]) : Registering(stack[t][k])) => Holds(t, "jit")
<1>1. stack[t] \in Seq(Frames)
  BY DEF FactoryInv, FactoryTypeOK
<1>2. DOMAIN stack[t] = 1 .. Len(stack[t])
  BY <1>1, LenProperties
<1>3. QED
  BY <1>2 DEF Holds, Running, Registering

\* While no function calls back, a call of make() is the last one.
LEMMA MutexHolderRuns ==
    ASSUME FactoryInv, LocksInv, ~Reentered, NEW t \in Threads, mutex = t
    PROVE  ~Waits(t)
<1>1. PICK k \in 1 .. Len(stack[t]) : Running(stack[t][k])
  BY DEF LocksInv
<1>2. stack[t] \in Seq(Frames)
  BY DEF FactoryInv, FactoryTypeOK
<1>3. DOMAIN stack[t] = 1 .. Len(stack[t]) /\ Len(stack[t]) \in Nat
  BY <1>2, LenProperties
<1>4. k = Len(stack[t])
  BY <1>1, <1>3 DEF Reentered, Running
<1>5. QED
  BY <1>1, <1>4 DEF Waits, Top, Running

\* A thread that compiles and waits, waits to register.
LEMMA EngineHolderRegisters ==
    ASSUME FactoryInv, LocksInv, NEW t \in Threads, eemon = t, Waits(t)
    PROVE  Lock(t) = mutex
<1>1. PICK k \in 1 .. Len(stack[t]) : Registering(stack[t][k])
  BY DEF LocksInv
<1>2. PICK n \in Nat : n = Len(stack[t])
  BY LastFrame DEF Waits
<1>3. k # n
  BY <1>1, <1>2 DEF Waits, Top, Registering
<1>4. k \in 1 .. n /\ k < n /\ k + 1 \in 1 .. n
  BY <1>1, <1>2, <1>3
<1>5. Nested(stack[t])
  BY DEF LocksInv
<1>6. stack[t][k + 1].op = "register"
  BY <1>1, <1>2, <1>4, <1>5 DEF Nested, Registering
<1>7. k + 1 = n
  BY <1>2, <1>4, <1>5, <1>6 DEF Nested
<1>8. QED
  BY <1>2, <1>6, <1>7 DEF Lock, Top

LEMMA LocksGiveNoDeadlock == FactoryInv /\ LocksInv => DeadlockNeedsReentry
<1> SUFFICES ASSUME FactoryInv, LocksInv, ~Reentered, NEW t \in Threads
             PROVE  /\ ~Deadlocked(t)
                    /\ mutex = t => Holds(t, "make")
                    /\ eemon = t => Holds(t, "jit")
  BY DEF DeadlockNeedsReentry
<1>1. ASSUME Deadlocked(t) PROVE FALSE
  <2>1. PICK S \in SUBSET Threads : t \in S /\ \A u \in S : Waits(u) /\ Lock(u) \in S
    BY <1>1 DEF Deadlocked
  <2>2. mutex \notin S
    BY <2>1, MutexHolderRuns
  <2>3. Lock(t) = eemon /\ eemon \in S
    BY <2>1, <2>2 DEF Lock
  <2>4. Lock(eemon) = mutex
    BY <2>1, <2>3, EngineHolderRegisters
  <2>5. QED
    BY <2>1, <2>2, <2>3, <2>4
<1>2. mutex = t => Holds(t, "make")
  BY HeldFrames DEF LocksInv
<1>3. eemon = t => Holds(t, "jit")
  BY HeldFrames DEF LocksInv
<1>4. QED
  BY <1>1, <1>2, <1>3

(* Threads wait for each other, or a lock stays behind without a call, only *)
(* when a registered function has called the factory again (factory.cpp,   *)
(* jit_factory.cpp: two mutexes that are not recursive, taken in one order *)
(* and given back by every return and every exception).                    *)
THEOREM NoDeadlockByItself == FactorySpec => []DeadlockNeedsReentry
<1>1. FactoryInit => FactoryInv /\ LocksInv
  BY FactoryInitHolds, LocksInit
<1>2. FactoryInv /\ LocksInv /\ [FactoryNext]_factory => (FactoryInv /\ LocksInv)'
  BY FactoryNextKeeps, LocksNext
<1>3. FactoryInv /\ LocksInv => DeadlockNeedsReentry
  BY LocksGiveNoDeadlock
<1>4. QED
  BY <1>1, <1>2, <1>3, PTL DEF FactorySpec

(* The same of the whole library.                                          *)
THEOREM LibraryNoDeadlockByItself == LibrarySpec => []DeadlockNeedsReentry
BY NoDeadlockByItself, LibraryUsesFactory, PTL
============================================================================
