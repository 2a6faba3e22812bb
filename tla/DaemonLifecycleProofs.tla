------------------------- MODULE DaemonLifecycleProofs -------------------------
(***************************************************************************)
(* Proofs about DaemonLifecycle, for any number of commands and daemons,   *)
(* faults and reused pids.                                                 *)
(*                                                                         *)
(* The argument.  A process in a critical section holds the lifecycle      *)
(* lock, so nobody else changes the lock and the state file.  What a       *)
(* process has concluded from the files it read at the beginning of its    *)
(* section is then still true when it acts on it: that no daemon is in its *)
(* loop (a daemon only enters the loop from a section of its own), or only *)
(* the one it is about to stop, or daemons that were misjudged.  The       *)
(* cleanup after a failed start is the exception: it concludes nothing     *)
(* from the files, it knows its own daemon to be dead, or misjudged, and   *)
(* removes what names that one.  What a careless command leaves behind or  *)
(* overlooks is carried along: a starting lock with a state file beside    *)
(* it, or one that a stop passed by, has a careless command behind it.     *)
(***************************************************************************)
EXTENDS DaemonLifecycle, TLAPS

Starting(s) == [token |-> s, mode |-> "starting"]
InService(s) == [token |-> s, mode |-> "running"]

Cleaning == {"cleanLock", "cleanState", "cleanStop"}
Stopping == {"request", "await", "reread", "verify", "kill", "awaitKilled"}
Starts == {"create", "fill", "spawn"}
Enters == {"writeLock", "writeState"}

\* The steps that hold the lifecycle lock, and those that neither hold it nor
\* are in the daemon's loop.
Critical == {"inspect", "validate", "cleanInvalid"} \cup Cleaning \cup Stopping
              \cup Starts \cup Enters
Waiting == {"acquire", "reacquire", "ready", "readyState", "attend", "failStop", "failKill"}
Outside == Waiting \cup Gone
Steps == Critical \cup Outside \cup {"none", "loop"}
Replies ==
  {"failed", "left", "refused", "already", "started", "stopped", "notRunning"}

TypeInv ==
  /\ lockFile \in Record \cup {None, Invalid}
  /\ stateFile \in {InService(s) : s \in Starter} \cup {None, Invalid}
  /\ stopFile \in Starter \cup {None}
  /\ holder \in Process \cup {None}
  /\ pc \in [Process -> Steps]
  /\ \A p \in Process \ Starter : pc[p] # "reacquire"
  /\ status \in [Stopper -> {"running", "unverified", "stale", None}]
  /\ found \in [Command -> Record \cup Starter \cup {None}]
  /\ \A s \in Starter : found[s] \in Record \cup {None, s}
  /\ \A t \in Stopper : found[t] \in Record \cup {None}
  /\ told \in [Command -> Replies \cup {None}]
  /\ expired \in BOOLEAN
  /\ foreign \in BOOLEAN
  /\ reused \subseteq Process
  /\ barred \subseteq Starter
  /\ unchecked \subseteq Process
  /\ careless \subseteq Command

NamesToken(f, s) == f \in Record /\ f.token = s
Quiet == \A s \in Starter : InLoop(s) => Misjudged(s)

\* A lock that is being started has no state file beside it, unless its start
\* failed to read or remove one.
StartHasNoState ==
  \A s \in Starter : lockFile = Starting(s) /\ stateFile \in Record => s \in careless

\* The same of a stop that passes by a lock that is being started.
PassesNoStart(t) ==
  \A s \in Starter : lockFile = Starting(s) => s \in careless \/ t \in careless

\* What process p may rely on in its critical section.
SectionInv(p) ==
  /\ pc[p] \in Critical => holder = p
  /\ pc[p] \in {"fill", "spawn"} \cup Enters => Quiet
  /\ pc[p] = "cleanInvalid" => Quiet \/ p \in careless
  /\ pc[p] \in Starts => stateFile \notin Record \/ p \in careless
  /\ \A s \in Starter :
       /\ p = Daemon(s) /\ pc[p] = "writeLock" => lockFile = Starting(s)
       /\ p = Daemon(s) /\ pc[p] = "writeState" => lockFile = InService(s)
  /\ p \in Command /\ pc[p] \in Cleaning /\ found[p] # p =>
       Quiet /\ found[p] \in Record
  /\ p \in Starter /\ pc[p] \in Cleaning \cup {"cleanInvalid"} /\ found[p] # p =>
       \/ stateFile \notin Record \/ p \in careless
       \/ pc[p] \in {"cleanLock", "cleanState"} /\ stateFile = found[p]
  /\ p \in Stopper =>
       /\ pc[p] \in Stopping =>
            /\ found[p] \in Record /\ found[p].mode = "running"
            /\ \A s \in Starter : InLoop(s) => s = found[p].token \/ Misjudged(s)
            /\ status[p] = "running" => stateFile \in {found[p], Invalid}
       /\ pc[p] = "reread" => status[p] = "running"
       /\ pc[p] \in Stopping \cup {"cleanState", "cleanStop", "cleanInvalid"} =>
            PassesNoStart(p)
       /\ pc[p] = "cleanLock" => lockFile = found[p] \/ PassesNoStart(p)

FilesInv ==
  /\ RunningDaemonIsFindable
  /\ StartHasNoState
  /\ \A p \in Process : SectionInv(p)

\* Where a start command is, its daemon and its files.
StartInv(s) ==
  LET d == pc[Daemon(s)]
  IN /\ pc[s] \in {"acquire", "inspect", "cleanInvalid"} \cup Starts => d = "none"
     /\ pc[s] \in {"acquire", "inspect", "cleanInvalid", "create", "fill"} => found[s] # s
     /\ pc[s] \in {"spawn"} \cup (Waiting \ {"acquire"}) => found[s] = s
     /\ pc[s] \in Cleaning /\ found[s] # s => d = "none"
     /\ pc[s] \in {"reacquire"} \cup Cleaning /\ found[s] = s =>
          ~Live(Daemon(s)) \/ Misjudged(s)
     /\ pc[s] \in {"cleanState", "cleanStop"} /\ found[s] = s =>
          ~NamesToken(lockFile, s) \/ s \in careless
     /\ pc[s] = "cleanStop" /\ found[s] = s =>
          ~NamesToken(stateFile, s) \/ s \in careless
     /\ told[s] # None => pc[s] = "ended"
     /\ told[s] \in {"failed", "left"} => ~Live(Daemon(s)) \/ Misjudged(s)
     /\ told[s] = "failed" /\ found[s] = s /\ s \notin careless =>
          ~NamesToken(lockFile, s) /\ ~NamesToken(stateFile, s)

\* The daemons spawned before a stop said that there is none.
BarredInv ==
  \A s \in barred :
    \/ s \in careless \/ Misjudged(s)
    \/ pc[Daemon(s)] \notin Enters \cup {"none", "loop"} /\ lockFile # Starting(s)

ReusedInv ==
  /\ \A p \in reused : pc[p] \in Gone
  /\ ~InstantReuse =>
       /\ ~foreign
       /\ \A t \in Stopper : pc[t] = "kill" => PidOf(found[t]) \notin reused

IInv ==
  /\ TypeInv
  /\ FilesInv
  /\ \A s \in Starter : StartInv(s)
  /\ BarredInv
  /\ ReusedInv

-----------------------------------------------------------------------------
(* Processes, tokens, records and the two special contents are different   *)
(* things; a record is one of two per token.                               *)
LEMMA Kinds ==
  /\ \A s \in Starter : Daemon(s) \in Process /\ Daemon(s) \notin Command
  /\ \A r, s \in Starter : Daemon(r) = Daemon(s) => r = s
  /\ Starter \subseteq Process /\ Stopper \subseteq Process /\ Command \subseteq Process
  /\ Starter \cap Stopper = {} /\ None \notin Process \cup {"failed", "left"}
  /\ Record \cap Command = {}
  /\ Starter \subseteq Command /\ Stopper \subseteq Command
  /\ None \notin Record /\ Invalid \notin Record /\ None # Invalid
  /\ \A p \in Process : p \in Command \/ \E s \in Starter : p = Daemon(s)
  /\ \A r \in Record : PidOf(r) \in Process
BY LifecycleAssumption, KindsAssumption
  DEF Daemon, Daemons, Process, Command, PidOf, Record

LEMMA Records ==
  /\ \A s \in Starter :
       /\ Starting(s) \in Record /\ InService(s) \in Record
       /\ Starting(s).token = s /\ Starting(s).mode = "starting"
       /\ InService(s).token = s /\ InService(s).mode = "running"
  /\ \A r \in Record : /\ r.token \in Starter
                       /\ \/ r.mode = "starting" /\ r = Starting(r.token)
                          \/ r.mode = "running" /\ r = InService(r.token)
  /\ \A r, s \in Starter : /\ Starting(r) # InService(s)
                           /\ Starting(r) = Starting(s) => r = s
                           /\ InService(r) = InService(s) => r = s
BY DEF Record, Starting, InService

(* What the answers of the operating system say about a process.           *)
LEMMA Answers ==
  ASSUME NEW p
  PROVE  /\ Running(p, FALSE) => ~Live(p) /\ p \notin reused
         /\ Running(p, TRUE) => Live(p) \/ p \in reused \/ pc[p] \in Gone
         /\ Identity(p, "verified") => Live(p)
<1>1. Identity(p, "verified") => Live(p)
  BY DEF Identity, CommandLine
<1>2. Running(p, FALSE) => ~Live(p) /\ p \notin reused
  BY DEF Running
<1>3. Running(p, TRUE) => Live(p) \/ p \in reused \/ pc[p] \in Gone
  BY DEF Running, Zombie
<1> QED
  BY <1>1, <1>2, <1>3

(* The history of what failed only grows.                                  *)
Grow ==
  /\ unchecked \subseteq unchecked' /\ unchecked' \subseteq Process
  /\ careless \subseteq careless' /\ careless' \subseteq Command

LEMMA Failing ==
  ASSUME TypeInv, NEW ps, NEW cs, ps \subseteq Process, cs \subseteq Command,
         FailsFor(ps, cs) \/ UNCHANGED failures
  PROVE  Grow /\ (FailsFor(ps, cs) => ps \subseteq unchecked' /\ cs \subseteq careless')
BY DEF FailsFor, failures, TypeInv, Grow

LEMMA Checked ==
  ASSUME TypeInv, NEW p \in Process, NEW b, IsRunning(p, b)
  PROVE  /\ Grow
         /\ ~b => ~Live(p) \/ p \in unchecked'
         /\ b => Running(p, TRUE)
<1>1. CASE Running(p, b) /\ UNCHANGED failures
  BY <1>1, Failing DEF Running
<1>2. CASE ~b /\ FailsFor({p}, {})
  BY <1>2 DEF FailsFor, TypeInv, Grow
<1> QED
  BY <1>1, <1>2 DEF IsRunning

(* No daemon is in its loop, but for those misjudged until after this step. *)
NoneOverlooked == \A s \in Starter : InLoop(s) => Misjudged(s)'

\* What a stop does not speak for.
Excused(s) == s \in careless \/ Misjudged(s)

LEMMA StepNames ==
  /\ \A x \in Outside : x \notin Critical /\ x \notin {"loop", "none"}
  /\ "loop" \notin Critical /\ "none" \notin Critical
  /\ \A x \in Critical : x \notin Gone
  /\ Critical \subseteq Steps /\ Outside \subseteq Steps
BY DEF Outside, Waiting, Gone, Critical, Cleaning, Stopping, Starts, Enters, Steps

USE DEF Starts, Enters, Cleaning, Stopping

-----------------------------------------------------------------------------
(* A process in a critical section is alone there.                         *)
LEMMA Alone ==
  ASSUME FilesInv, NEW p \in Process, pc[p] \in Critical
  PROVE  \A q \in Process \ {p} : pc[q] \notin Critical
BY DEF FilesInv, SectionInv

(* A step outside of the critical sections: files stay or are corrupted,   *)
(* processes stay where they are or wait or end.                           *)
LEMMA FilesOutside ==
  ASSUME TypeInv, FilesInv,
         lockFile' = lockFile, stateFile' \in {stateFile, Invalid},
         UNCHANGED memory,
         \A p \in Process : pc'[p] = pc[p] \/ pc'[p] \in Outside,
         \A p \in Process : pc'[p] \in Critical => holder' = holder,
         Grow
  PROVE  FilesInv'
<1>1. \A s \in Starter : (InLoop(s)' => InLoop(s)) /\ (Misjudged(s) => Misjudged(s)')
  BY Kinds, StepNames DEF InLoop, At, Misjudged, Grow
<1>2. (stateFile' \in Record => stateFile' = stateFile) /\ careless \subseteq careless'
  BY Kinds DEF Grow
<1>3. RunningDaemonIsFindable'
  BY <1>1, <1>2 DEF FilesInv, RunningDaemonIsFindable, InService
<1>4. StartHasNoState'
  BY <1>2 DEF FilesInv, StartHasNoState
<1>5. ASSUME NEW p \in Process PROVE SectionInv(p)'
  <2>1. CASE pc'[p] \in Outside
    BY <2>1 DEF SectionInv, Outside, Waiting, Gone, Critical
  <2>2. CASE pc'[p] = pc[p]
    <3>1. SectionInv(p) /\ (Quiet => Quiet')
      BY <1>1 DEF FilesInv, Quiet
    <3>2. PassesNoStart(p) => PassesNoStart(p)'
      BY <1>2 DEF PassesNoStart
    <3> QED
      BY <1>1, <1>2, <2>2, <3>1, <3>2 DEF SectionInv, memory
  <2> QED
    BY <2>1, <2>2
<1> QED
  BY <1>3, <1>4, <1>5 DEF FilesInv

(* A step of a process that is alone in a critical section, or enters one: *)
(* the rest owe nothing to the files.                                      *)
LEMMA FilesInside ==
  ASSUME TypeInv, FilesInv, NEW p \in Process,
         \A q \in Process \ {p} : pc[q] \notin Critical,
         \A q \in Process \ {p} : pc'[q] = pc[q] \/ pc'[q] \in Outside,
         RunningDaemonIsFindable', StartHasNoState', SectionInv(p)'
  PROVE  FilesInv'
<1>1. ASSUME NEW q \in Process \ {p} PROVE SectionInv(q)'
  <2>1. pc'[q] \notin Critical
    BY StepNames
  <2> QED
    BY <2>1 DEF SectionInv, Critical
<1> QED
  BY <1>1 DEF FilesInv

-----------------------------------------------------------------------------
(* What moving on and ending do to the processes.                          *)
LEMMA GotoStep ==
  ASSUME TypeInv, NEW p \in Process, NEW x \in Steps, Goto(p, x)
  PROVE  /\ pc' \in [Process -> Steps] /\ pc'[p] = x
         /\ \A q \in Process \ {p} : pc'[q] = pc[q]
BY DEF TypeInv, Goto

LEMMA EndStep ==
  ASSUME TypeInv, NEW c \in Command, NEW answer \in Replies, End(c, answer)
  PROVE  /\ Goto(c, "ended")
         /\ told' \in [Command -> Replies \cup {None}] /\ told'[c] = answer
         /\ \A d \in Command \ {c} : told'[d] = told[d]
         /\ holder' \in {holder, None} /\ (holder # c => holder' = holder)
         /\ barred' \subseteq Starter
         /\ c \in Starter \cup careless' \/ answer \notin {"stopped", "notRunning"} =>
              barred' = barred
         /\ barred' \subseteq {s \in Starter : pc[Daemon(s)] # "none"} \cup barred
BY Kinds DEF TypeInv, End, Dropped

(* A step of p owes the rest: whose command did not move keeps its facts,  *)
(* unless a file newly names its token although neither did before.        *)
LEMMA Others ==
  ASSUME IInv, NEW p \in Process, Live(p), NEW x \in Steps \ {"none"}, Goto(p, x),
         x = "kill" => PidOf(found'[p]) \notin reused,
         \A d \in Command \ {p} : found'[d] = found[d] /\ told'[d] = told[d],
         \A s \in Starter \ {p} : NamesToken(lockFile', s) => NamesToken(lockFile, s),
         \A s \in Starter \ {p} : NamesToken(stateFile', s) =>
           NamesToken(stateFile, s) \/ NamesToken(lockFile, s),
         UNCHANGED <<reused, foreign>>, Grow
  PROVE  (\A s \in Starter \ {p} : StartInv(s)') /\ ReusedInv'
<1>1. pc'[p] = x /\ \A q \in Process \ {p} : pc'[q] = pc[q]
  BY GotoStep DEF IInv
<1>2. ASSUME NEW s \in Starter \ {p} PROVE StartInv(s)'
  <2>1. StartInv(s) /\ pc'[s] = pc[s] /\ found'[s] = found[s] /\ told'[s] = told[s]
    BY <1>1, Kinds DEF IInv
  <2>2. pc[Daemon(s)] = "none" => pc'[Daemon(s)] = "none"
    BY <1>1, Kinds DEF Live
  <2>3. ~Live(Daemon(s)) \/ Misjudged(s) => ~Live(Daemon(s))' \/ Misjudged(s)'
    BY <1>1, Kinds DEF Live, Misjudged, Grow
  <2>4. careless \subseteq careless'
    BY DEF Grow
  <2> QED
    BY <2>1, <2>2, <2>3, <2>4 DEF StartInv
<1>3. \A q \in reused : q \in Process /\ pc'[q] \in Gone
  BY <1>1 DEF IInv, TypeInv, ReusedInv, Live
<1>4. \A t \in Stopper : pc'[t] = "kill" =>
        IF t = p THEN PidOf(found'[t]) \notin reused
                 ELSE pc[t] = "kill" /\ found'[t] = found[t]
  BY <1>1, Kinds
<1> QED
  BY <1>2, <1>3, <1>4 DEF IInv, ReusedInv

LEMMA StartKept ==
  ASSUME NEW s \in Starter, StartInv(s),
         pc'[s] = pc[s], found'[s] = found[s], told'[s] = told[s],
         UNCHANGED <<lockFile, stateFile>>,
         pc[Daemon(s)] = "none" => pc'[Daemon(s)] = "none",
         ~Live(Daemon(s)) => pc'[Daemon(s)] \in Gone \cup {"none"},
         Grow
  PROVE  StartInv(s)'
BY DEF StartInv, NamesToken, Live, Misjudged, Grow

LEMMA BarredKept ==
  ASSUME IInv, NEW p \in Process, NEW x \in Steps, Goto(p, x), barred' \subseteq barred,
         \A s \in barred : p = Daemon(s) => x \notin Enters \cup {"none", "loop"} \/ Excused(s),
         \A s \in barred : lockFile' = Starting(s) => lockFile = Starting(s) \/ Excused(s),
         Grow
  PROVE  BarredInv'
<1>1. pc'[p] = x /\ \A q \in Process \ {p} : pc'[q] = pc[q]
  BY GotoStep DEF IInv
<1>2. \A s \in Starter : Excused(s) => Excused(s)'
  BY DEF Excused, Misjudged, Grow
<1>3. \A s \in barred : s \in Starter /\ Daemon(s) \in Process
  BY Kinds DEF IInv, TypeInv
<1>4. ASSUME NEW s \in barred'
      PROVE  \/ Excused(s)'
             \/ pc'[Daemon(s)] \notin Enters \cup {"none", "loop"} /\ lockFile' # Starting(s)
  <2>1. s \in barred /\ BarredInv
    BY DEF IInv
  <2>2. \/ Excused(s)
        \/ pc[Daemon(s)] \notin Enters \cup {"none", "loop"} /\ lockFile # Starting(s)
    BY <2>1 DEF BarredInv, Excused
  <2> QED
    BY <1>1, <1>2, <1>3, <2>1, <2>2
<1> QED
  BY <1>4 DEF BarredInv, Excused

(* A stop that saw that there is nothing to stop, and is alone, is right.  *)
LEMMA BarredExtended ==
  ASSUME IInv, NEW t \in Stopper, pc[t] \in Critical, Goto(t, "ended"),
         NoneOverlooked, \A s \in Starter : lockFile = Starting(s) => s \in careless',
         lockFile' = lockFile, Grow,
         barred' \subseteq {s \in Starter : pc[Daemon(s)] # "none"} \cup barred
  PROVE  BarredInv'
<1>1. \A q \in Process \ {t} : pc'[q] = pc[q]
  BY GotoStep, Kinds, StepNames DEF IInv, Outside, Gone
<1>2. \A q \in Process \ {t} : pc[q] \notin Critical
  BY Alone, Kinds DEF IInv
<1>3. ASSUME NEW s \in barred', ~Excused(s)'
      PROVE  pc'[Daemon(s)] \notin Enters \cup {"none", "loop"} /\ lockFile' # Starting(s)
  <2>1. s \in Starter /\ ~Excused(s)
    BY <1>3 DEF IInv, TypeInv, Excused, Misjudged, Grow
  <2>2. pc'[Daemon(s)] = pc[Daemon(s)] /\ pc[Daemon(s)] \notin Critical
    BY <1>1, <1>2, <2>1, Kinds
  <2>3. pc[Daemon(s)] \notin {"loop", "none"}
    BY <1>3, <2>1 DEF NoneOverlooked, InLoop, At, IInv, BarredInv, Excused
  <2> QED
    BY <1>3, <2>1, <2>2, <2>3 DEF Critical, Excused
<1> QED
  BY <1>3 DEF BarredInv, Excused

(* A process that goes to a step outside and writes neither file.          *)
LEMMA GoesOutside ==
  ASSUME IInv, NEW p \in Process, Live(p), NEW x \in Outside, Goto(p, x),
         UNCHANGED <<lockFile, stateFile, memory, outside>>,
         stopFile' \in Starter \cup {None},
         holder' \in {holder, None}, holder # p => holder' = holder,
         told' \in [Command -> Replies \cup {None}],
         \A d \in Command \ {p} : told'[d] = told[d],
         p \in Starter \/ x # "reacquire",
         barred' \subseteq barred, Grow,
         p \in Starter => StartInv(p)'
  PROVE  IInv'
<1>1. /\ x \in Steps \ {"none", "kill"} /\ x \notin Critical \cup {"none", "loop"}
      /\ pc' \in [Process -> Steps] /\ pc'[p] = x
      /\ \A q \in Process \ {p} : pc'[q] = pc[q]
  BY GotoStep, StepNames DEF IInv, Critical
<1>2. TypeInv'
  BY <1>1, Kinds DEF IInv, TypeInv, memory, outside, Grow
<1>3. FilesInv'
  <2>1. \A q \in Process : pc'[q] \in Critical => holder' = holder
    BY <1>1 DEF IInv, FilesInv, SectionInv
  <2> QED
    BY <1>1, <2>1, FilesOutside DEF IInv
<1>4. (\A s \in Starter \ {p} : StartInv(s)') /\ ReusedInv'
  <2>1. UNCHANGED <<lockFile, stateFile, found, reused, foreign>>
    BY DEF memory, outside
  <2> QED
    BY <1>1, <2>1, Others DEF NamesToken
<1>5. BarredInv'
  BY <1>1, BarredKept DEF Critical
<1> QED
  BY <1>2, <1>3, <1>4, <1>5 DEF IInv

(* A command that ends, but for a stop that has something to say about all *)
(* daemons.                                                                *)
LEMMA EndsOutside ==
  ASSUME IInv, NEW c \in Command, Live(c), NEW answer \in Replies, End(c, answer),
         UNCHANGED <<lockFile, stateFile, memory, outside>>,
         stopFile' \in Starter \cup {None}, Grow,
         c \in Starter \cup careless' \/ answer \notin {"stopped", "notRunning"},
         c \in Starter /\ answer \in {"failed", "left"} => ~Live(Daemon(c)) \/ Misjudged(c)',
         c \in Starter /\ answer = "failed" /\ found[c] = c /\ c \notin careless' =>
           ~NamesToken(lockFile, c) /\ ~NamesToken(stateFile, c)
  PROVE  IInv'
<1>1. /\ Goto(c, "ended") /\ c \in Process /\ "ended" \in Outside /\ "ended" \in Steps
      /\ told' \in [Command -> Replies \cup {None}] /\ told'[c] = answer
      /\ \A d \in Command \ {c} : told'[d] = told[d]
      /\ holder' \in {holder, None} /\ (holder # c => holder' = holder)
      /\ barred' \subseteq barred
  BY EndStep, Kinds, StepNames DEF IInv, Outside, Gone
<1>2. ASSUME c \in Starter PROVE StartInv(c)'
  <2>1. /\ pc'[c] = "ended" /\ found'[c] = found[c]
        /\ pc'[Daemon(c)] = pc[Daemon(c)]
    BY <1>1, <1>2, GotoStep, Kinds DEF IInv, memory
  <2> QED
    BY <1>1, <1>2, <2>1 DEF StartInv, Live, NamesToken, Waiting, Misjudged, Grow
<1> QED
  BY <1>1, <1>2, GoesOutside

LEMMA AcquireGivesUpKeeps ==
  ASSUME IInv, NEW p \in Process, AcquireGivesUp(p), Grow PROVE IInv'
<1>1. UNCHANGED <<lockFile, stateFile, stopFile, memory, outside>> /\ stopFile \in Starter \cup {None}
  BY DEF AcquireGivesUp, files, IInv, TypeInv
<1>2. CASE p \in Command /\ At(p, "acquire") /\ End(p, "failed")
  BY <1>1, <1>2, EndsOutside DEF IInv, StartInv, Live, At, Gone, Replies
<1>3. CASE p \in Command /\ At(p, "reacquire") /\ End(p, "left")
  BY <1>1, <1>3, EndsOutside
    DEF IInv, StartInv, Live, At, Gone, Replies, Waiting, Misjudged, Grow
<1>4. CASE p \in Daemons /\ At(p, "acquire") /\ Goto(p, "broken") /\ GoOn
  <2>1. p \notin Starter /\ "broken" \in Outside /\ Live(p)
    BY <1>4, Kinds DEF Daemons, Outside, Gone, Live, At
  <2>2. /\ holder' = holder /\ barred' = barred /\ told' = told
        /\ told' \in [Command -> Replies \cup {None}]
    BY <1>4 DEF GoOn, IInv, TypeInv
  <2> QED
    BY <1>1, <1>4, <2>1, <2>2, GoesOutside
<1> QED
  BY <1>2, <1>3, <1>4 DEF AcquireGivesUp

LEMMA StopFindsNoDirectoryKeeps ==
  ASSUME IInv, NEW t \in Stopper, StopFindsNoDirectory(t), Grow PROVE IInv'
<1>1. /\ UNCHANGED <<lockFile, stateFile, stopFile, memory, outside>>
      /\ stopFile \in Starter \cup {None}
      /\ pc[t] = "acquire" /\ End(t, "notRunning") /\ FailsFor({}, {t})
      /\ t \in Command /\ t \notin Starter
  BY Kinds DEF StopFindsNoDirectory, files, At, IInv, TypeInv
<1>2. t \in careless' /\ Live(t)
  BY <1>1 DEF FailsFor, Live, Gone
<1> QED
  BY <1>1, <1>2, EndsOutside DEF Replies

LEMMA CreateFailsKeeps ==
  ASSUME IInv, NEW s \in Starter, CreateFails(s), Grow PROVE IInv'
<1>1. /\ UNCHANGED <<lockFile, stateFile, stopFile, memory, outside>>
      /\ stopFile \in Starter \cup {None}
      /\ pc[s] = "create" /\ End(s, "failed") /\ s \in Command /\ Live(s)
  BY Kinds DEF CreateFails, files, At, IInv, TypeInv, Live, Gone
<1>2. found[s] # s /\ ~Live(Daemon(s))
  BY <1>1 DEF IInv, StartInv, Live
<1> QED
  BY <1>1, <1>2, EndsOutside DEF Replies

LEMMA CrashKeeps ==
  ASSUME IInv, NEW p \in Process, Crash(p), Grow PROVE IInv'
<1>1. /\ Goto(p, "broken") /\ Live(p) /\ "broken" \in Outside /\ "broken" \in Steps
      /\ UNCHANGED <<lockFile, stateFile, stopFile, memory, outside>>
      /\ stopFile \in Starter \cup {None}
      /\ UNCHANGED <<holder, told, barred>>
      /\ told' \in [Command -> Replies \cup {None}]
  BY StepNames DEF Crash, files, IInv, TypeInv, Outside, Gone
<1>2. ASSUME p \in Starter PROVE StartInv(p)'
  <2>1. /\ pc'[p] = "broken" /\ pc'[Daemon(p)] = pc[Daemon(p)]
    BY <1>1, <1>2, GotoStep, Kinds DEF IInv
  <2>2. StartInv(p) /\ pc[p] # "ended"
    BY <1>1, <1>2 DEF IInv, Live, Gone
  <2> QED
    BY <1>1, <2>1, <2>2 DEF StartInv, Waiting, memory, NamesToken, Live, Misjudged, Grow
<1> QED
  BY <1>1, <1>2, GoesOutside

LEMMA WaitForRunningKeeps ==
  ASSUME IInv, NEW s \in Starter, WaitForRunning(s), Grow PROVE IInv'
<1>1. /\ UNCHANGED <<lockFile, stateFile, stopFile, memory, outside>>
      /\ stopFile \in Starter \cup {None} /\ s \in Process /\ s \in Command
      /\ Live(s) /\ pc[s] \in {"ready", "readyState"}
  BY Kinds DEF WaitForRunning, files, IInv, TypeInv, At, Live, Gone
<1>2. ASSUME NEW x \in {"ready", "readyState", "attend"}, Goto(s, x), GoOn PROVE IInv'
  <2>1. x \in Outside /\ x \in Steps
    BY StepNames DEF Outside, Waiting
  <2>2. /\ holder' = holder /\ barred' = barred /\ told' = told
        /\ told' \in [Command -> Replies \cup {None}]
    BY <1>2 DEF GoOn, IInv, TypeInv
  <2>3. pc'[s] = x /\ pc'[Daemon(s)] = pc[Daemon(s)]
    BY <1>1, <1>2, <2>1, GotoStep, Kinds DEF IInv
  <2>4. StartInv(s)'
    BY <1>1, <2>2, <2>3, <1>2 DEF IInv, StartInv, Waiting, memory, NamesToken, Live, Misjudged, Grow
  <2> QED
    BY <1>1, <1>2, <2>1, <2>2, <2>4, GoesOutside
<1>3. CASE End(s, "started")
  BY <1>1, <1>3, EndsOutside DEF Replies
<1> QED
  BY <1>2, <1>3 DEF WaitForRunning

LEMMA StartFailsKeeps ==
  ASSUME IInv, NEW s \in Starter, StartFails(s), Grow PROVE IInv'
<1>1. /\ UNCHANGED <<lockFile, stateFile, stopFile, memory, outside>>
      /\ stopFile \in Starter \cup {None} /\ s \in Process
      /\ Live(s) /\ pc[s] \in {"ready", "readyState"} /\ Goto(s, "failStop")
      /\ UNCHANGED <<holder, told, barred>> /\ told' \in [Command -> Replies \cup {None}]
  BY Kinds DEF StartFails, files, IInv, TypeInv, At, Live, Gone, GoOn
<1>2. "failStop" \in Outside /\ "failStop" \in Steps
  BY StepNames DEF Outside, Waiting
<1>3. pc'[s] = "failStop" /\ pc'[Daemon(s)] = pc[Daemon(s)]
  BY <1>1, <1>2, GotoStep, Kinds DEF IInv
<1>4. StartInv(s)'
  BY <1>1, <1>3 DEF IInv, StartInv, Waiting, memory, NamesToken, Live, Misjudged, Grow
<1> QED
  BY <1>1, <1>2, <1>4, GoesOutside

LEMMA FailedStartRequestsStopKeeps ==
  ASSUME IInv, NEW s \in Starter, FailedStartRequestsStop(s), Grow PROVE IInv'
<1>1. /\ UNCHANGED <<lockFile, stateFile, memory, outside>>
      /\ stopFile' \in Starter \cup {None} /\ s \in Process
      /\ Live(s) /\ pc[s] = "failStop" /\ Goto(s, "failKill")
      /\ UNCHANGED <<holder, told, barred>> /\ told' \in [Command -> Replies \cup {None}]
  BY Kinds DEF FailedStartRequestsStop, IInv, TypeInv, At, Live, Gone, GoOn
<1>2. "failKill" \in Outside /\ "failKill" \in Steps
  BY StepNames DEF Outside, Waiting
<1>3. pc'[s] = "failKill" /\ pc'[Daemon(s)] = pc[Daemon(s)]
  BY <1>1, <1>2, GotoStep, Kinds DEF IInv
<1>4. StartInv(s)'
  BY <1>1, <1>3 DEF IInv, StartInv, Waiting, memory, NamesToken, Live, Misjudged, Grow
<1> QED
  BY <1>1, <1>2, <1>4, GoesOutside

LEMMA ForegroundReturnsKeeps ==
  ASSUME IInv, NEW s \in Starter, ForegroundReturns(s), Grow PROVE IInv'
<1>1. /\ UNCHANGED <<lockFile, stateFile, stopFile, memory, outside>>
      /\ stopFile \in Starter \cup {None} /\ s \in Process /\ s \in Command
      /\ Live(s) /\ pc[s] = "attend"
  BY Kinds DEF ForegroundReturns, files, IInv, TypeInv, At, Live, Gone
<1>2. CASE End(s, "stopped")
  BY <1>1, <1>2, EndsOutside DEF Replies
<1>3. CASE At(Daemon(s), "broken") /\ Goto(s, "reacquire") /\ GoOn
  <2>1. "reacquire" \in Outside /\ "reacquire" \in Steps
    BY StepNames DEF Outside, Waiting
  <2>2. /\ holder' = holder /\ barred' = barred /\ told' = told
        /\ told' \in [Command -> Replies \cup {None}]
    BY <1>3 DEF GoOn, IInv, TypeInv
  <2>3. pc'[s] = "reacquire" /\ pc'[Daemon(s)] = pc[Daemon(s)]
    BY <1>1, <1>3, <2>1, GotoStep, Kinds DEF IInv
  <2>4. ~Live(Daemon(s))
    BY <1>3 DEF At, Live, Gone
  <2>5. StartInv(s)'
    BY <1>1, <2>2, <2>3, <2>4 DEF IInv, StartInv, Waiting, memory, NamesToken, Live, Misjudged, Grow
  <2> QED
    BY <1>1, <1>3, <2>1, <2>2, <2>5, GoesOutside
<1>4. CASE FailsFor({Daemon(s)}, {}) /\ End(s, "left")
  <2>1. Misjudged(s)'
    BY <1>4 DEF FailsFor, Misjudged
  <2> QED
    BY <1>1, <1>4, <2>1, EndsOutside DEF Replies
<1> QED
  BY <1>2, <1>3, <1>4 DEF ForegroundReturns

LEMMA StopRequestedKeeps ==
  ASSUME IInv, NEW s \in Starter, StopRequested(s), Grow PROVE IInv'
<1>1. /\ UNCHANGED <<lockFile, stateFile, stopFile, memory, outside, told, barred>>
      /\ stopFile \in Starter \cup {None} /\ Daemon(s) \in Process
      /\ Daemon(s) \notin Starter /\ Live(Daemon(s))
      /\ told \in [Command -> Replies \cup {None}]
  BY Kinds DEF StopRequested, files, IInv, TypeInv, At, Live, Gone
<1>2. PICK x \in Gone : Goto(Daemon(s), x) /\ Dropped(Daemon(s))
  BY DEF StopRequested, EndDaemon, Gone
<1>3. x \in Outside /\ x # "reacquire"
  BY DEF Outside, Gone
<1> QED
  BY <1>1, <1>2, <1>3, GoesOutside DEF Dropped

LEMMA SpawnSucceedsKeeps ==
  ASSUME IInv, NEW s \in Starter, At(s, "spawn"), Dropped(s),
         pc' = [pc EXCEPT ![s] = "ready", ![Daemon(s)] = "acquire"],
         UNCHANGED <<files, memory, told, barred, outside>>, Grow
  PROVE  IInv'
<1>1. /\ UNCHANGED <<lockFile, stateFile, stopFile, status, found, told, barred,
                     expired, foreign, reused>>
      /\ pc[s] = "spawn" /\ pc[Daemon(s)] = "none" /\ found[s] = s
      /\ StartInv(s) /\ "spawn" \in Critical /\ holder' \in {holder, None}
  BY DEF files, memory, outside, At, IInv, StartInv, Critical, Dropped
<1>2. /\ pc' \in [Process -> Steps] /\ pc'[s] = "ready" /\ pc'[Daemon(s)] = "acquire"
      /\ \A q \in Process \ {s, Daemon(s)} : pc'[q] = pc[q]
  <2>1. {"ready", "acquire"} \subseteq Steps
    BY DEF Steps, Outside, Waiting
  <2> QED
    BY <2>1, Kinds DEF IInv, TypeInv
<1>3. TypeInv'
  BY <1>1, <1>2 DEF IInv, TypeInv, Grow
<1>4. FilesInv'
  <2>1. \A q \in Process : pc'[q] \notin Critical
    BY <1>1, <1>2, Alone, Kinds DEF IInv, Critical
  <2>2. \A q \in Process : pc'[q] = pc[q] \/ pc'[q] \in Outside
    BY <1>2 DEF Outside, Waiting
  <2> QED
    BY <1>1, <2>1, <2>2, FilesOutside DEF IInv, memory
<1>5. ASSUME NEW r \in Starter PROVE StartInv(r)'
  <2>1. CASE r # s
    <3>1. pc'[r] = pc[r] /\ pc'[Daemon(r)] = pc[Daemon(r)] /\ StartInv(r)
      BY <1>2, <2>1, Kinds DEF IInv
    <3> QED
      BY <1>1, <3>1, StartKept DEF Live
  <2>2. CASE r = s
    BY <1>1, <1>2, <2>2, Kinds DEF StartInv, Waiting, Live
  <2> QED
    BY <2>1, <2>2
<1>6. BarredInv'
  BY <1>1, <1>2, Kinds DEF IInv, TypeInv, BarredInv, Misjudged, Grow
<1>7. ReusedInv'
  <2>1. \A q \in reused : pc'[q] = pc[q]
    BY <1>1, <1>2 DEF IInv, TypeInv, ReusedInv, Gone
  <2>2. \A t \in Stopper : pc'[t] = pc[t]
    BY <1>2, Kinds
  <2> QED
    BY <1>1, <2>1, <2>2 DEF IInv, ReusedInv
<1> QED
  BY <1>3, <1>4, <1>5, <1>6, <1>7 DEF IInv

LEMMA DaemonReapedKeeps ==
  ASSUME IInv, NEW s \in Starter, At(s, "failKill"), GoOn,
         pc' = [pc EXCEPT ![s] = "reacquire",
                          ![Daemon(s)] = IF @ \in Gone THEN @ ELSE "broken"],
         UNCHANGED <<files, memory, outside>>, Grow
  PROVE  IInv'
<1>1. /\ UNCHANGED <<lockFile, stateFile, stopFile, status, found, told, barred,
                     expired, foreign, reused, holder>>
      /\ pc[s] = "failKill" /\ StartInv(s)
      /\ pc' = [pc EXCEPT ![s] = "reacquire",
                          ![Daemon(s)] = IF @ \in Gone THEN @ ELSE "broken"]
  BY DEF files, memory, outside, At, IInv, GoOn
<1>2. /\ pc' \in [Process -> Steps] /\ pc'[s] = "reacquire" /\ pc'[Daemon(s)] \in Gone
      /\ pc[Daemon(s)] \in Gone => pc'[Daemon(s)] = pc[Daemon(s)]
      /\ \A q \in Process \ {s, Daemon(s)} : pc'[q] = pc[q]
  <2>1. {"reacquire", "broken"} \subseteq Steps
    BY DEF Steps, Outside, Waiting, Gone
  <2> QED
    BY <1>1, <2>1, Kinds DEF IInv, TypeInv, Gone
<1>3. TypeInv'
  BY <1>1, <1>2 DEF IInv, TypeInv, Grow
<1>4. FilesInv'
  <2>1. \A q \in Process : pc'[q] = pc[q] \/ pc'[q] \in Outside
    BY <1>2 DEF Outside, Waiting
  <2> QED
    BY <1>1, <2>1, FilesOutside DEF IInv, memory
<1>5. ASSUME NEW r \in Starter PROVE StartInv(r)'
  <2>1. CASE r # s
    <3>1. pc'[r] = pc[r] /\ pc'[Daemon(r)] = pc[Daemon(r)] /\ StartInv(r)
      BY <1>2, <2>1, Kinds DEF IInv
    <3> QED
      BY <1>1, <3>1, StartKept DEF Live
  <2>2. CASE r = s
    BY <1>1, <1>2, <2>2 DEF StartInv, Waiting, Live, NamesToken, Misjudged, Grow
  <2> QED
    BY <2>1, <2>2
<1>6. BarredInv'
  BY <1>1, <1>2, Kinds DEF IInv, TypeInv, BarredInv, Gone, Misjudged, Grow
<1>7. ReusedInv'
  <2>1. \A q \in reused : pc'[q] = pc[q]
    BY <1>1, <1>2 DEF IInv, TypeInv, ReusedInv, Gone
  <2>2. \A t \in Stopper : pc'[t] = pc[t]
    BY <1>2, Kinds
  <2> QED
    BY <1>1, <2>1, <2>2 DEF IInv, ReusedInv
<1> QED
  BY <1>3, <1>4, <1>5, <1>6, <1>7 DEF IInv

LEMMA FailedStartEndsDaemonKeeps ==
  ASSUME IInv, NEW s \in Starter, FailedStartEndsDaemon(s), Grow PROVE IInv'
<1>1. CASE pc' = [pc EXCEPT ![s] = "reacquire",
                            ![Daemon(s)] = IF @ \in Gone THEN @ ELSE "broken"]
  BY <1>1, DaemonReapedKeeps DEF FailedStartEndsDaemon
<1>2. CASE FailsFor({Daemon(s)}, {}) /\ Goto(s, "reacquire")
  <2>1. /\ UNCHANGED <<lockFile, stateFile, stopFile, memory, outside>>
        /\ stopFile \in Starter \cup {None} /\ s \in Process
        /\ Live(s) /\ pc[s] = "failKill"
        /\ UNCHANGED <<holder, told, barred>> /\ told' \in [Command -> Replies \cup {None}]
    BY Kinds DEF FailedStartEndsDaemon, files, IInv, TypeInv, At, Live, Gone, GoOn
  <2>2. "reacquire" \in Outside /\ "reacquire" \in Steps
    BY StepNames DEF Outside, Waiting
  <2>3. pc'[s] = "reacquire" /\ pc'[Daemon(s)] = pc[Daemon(s)]
    BY <1>2, <2>1, <2>2, GotoStep, Kinds DEF IInv
  <2>4. Misjudged(s)'
    BY <1>2 DEF FailsFor, Misjudged
  <2>5. StartInv(s)'
    BY <2>1, <2>3, <2>4 DEF IInv, StartInv, Waiting, memory, NamesToken, Live, Grow
  <2> QED
    BY <1>2, <2>1, <2>2, <2>5, GoesOutside
<1> QED
  BY <1>1, <1>2 DEF FailedStartEndsDaemon

-----------------------------------------------------------------------------
(* The environment.                                                        *)
LEMMA CorruptStateKeeps ==
  ASSUME IInv, CorruptState, Grow PROVE IInv'
<1>1. /\ stateFile' = Invalid
      /\ UNCHANGED <<lockFile, stopFile, holder, pc, status, found, told,
                     expired, foreign, reused, barred>>
  BY DEF CorruptState, memory, outside
<1>2. FilesInv'
  BY <1>1, FilesOutside DEF IInv, memory
<1>3. \A s \in Starter : StartInv(s)'
  BY <1>1, Kinds DEF IInv, StartInv, NamesToken, Live, Misjudged, Grow
<1> QED
  BY <1>1, <1>2, <1>3 DEF IInv, TypeInv, BarredInv, ReusedInv, Misjudged, Grow

LEMMA AgeKeeps ==
  ASSUME IInv, NEW s \in Starter, Age(s), Grow PROVE IInv'
<1>1. /\ expired' = TRUE
      /\ UNCHANGED <<lockFile, stateFile, stopFile, holder, pc, status, found, told,
                     foreign, reused, barred>>
  BY DEF Age, files, memory
<1>2. FilesInv'
  BY <1>1, FilesOutside DEF IInv, memory
<1>3. \A r \in Starter : StartInv(r)'
  BY <1>1 DEF IInv, StartInv, NamesToken, Live, Misjudged, Grow
<1> QED
  BY <1>1, <1>2, <1>3 DEF IInv, TypeInv, BarredInv, ReusedInv, Misjudged, Grow

LEMMA ReuseKeeps ==
  ASSUME IInv, NEW p \in Process, Reuse(p), Grow PROVE IInv'
<1>1. /\ reused' = reused \cup {p} /\ pc[p] \in Gone
      /\ InstantReuse \/ \A t \in Stopper : pc[t] # "kill"
      /\ UNCHANGED <<lockFile, stateFile, stopFile, holder, pc, status, found, told,
                     expired, foreign, barred>>
  BY DEF Reuse, files, memory, At
<1>2. FilesInv'
  BY <1>1, FilesOutside DEF IInv, memory
<1>3. \A s \in Starter : StartInv(s)'
  BY <1>1 DEF IInv, StartInv, NamesToken, Live, Misjudged, Grow
<1>4. ReusedInv'
  BY <1>1 DEF IInv, ReusedInv
<1> QED
  BY <1>1, <1>2, <1>3, <1>4 DEF IInv, TypeInv, BarredInv, Misjudged, Grow

-----------------------------------------------------------------------------
(* A step of a process in its critical section.                            *)
LEMMA MovesInside ==
  ASSUME IInv, NEW p \in Process, pc[p] \in Critical,
         NEW x \in Steps \ {"none"}, Goto(p, x),
         x = "kill" => PidOf(found'[p]) \notin reused,
         \A d \in Command \ {p} : found'[d] = found[d] /\ told'[d] = told[d],
         \A s \in Starter \ {p} : NamesToken(lockFile', s) => NamesToken(lockFile, s),
         \A s \in Starter \ {p} : NamesToken(stateFile', s) =>
           NamesToken(stateFile, s) \/ NamesToken(lockFile, s),
         UNCHANGED <<reused, foreign>>, Grow,
         TypeInv', RunningDaemonIsFindable', StartHasNoState', SectionInv(p)',
         p \in Starter => StartInv(p)',
         BarredInv'
  PROVE  IInv'
<1>1. Live(p) /\ \A q \in Process \ {p} : pc'[q] = pc[q]
  BY GotoStep, StepNames DEF IInv, Live
<1>2. FilesInv'
  BY <1>1, Alone, FilesInside DEF IInv
<1>3. (\A s \in Starter \ {p} : StartInv(s)') /\ ReusedInv'
  BY <1>1, Others
<1> QED
  BY <1>2, <1>3 DEF IInv

(* It stays in its critical section and leaves the lock and the state.     *)
LEMMA StaysInside ==
  ASSUME IInv, NEW p \in Process, pc[p] \in Critical,
         NEW x \in Critical, Goto(p, x), GoOn,
         x = "kill" => PidOf(found'[p]) \notin reused,
         UNCHANGED <<lockFile, stateFile, outside>>, stopFile' \in Starter \cup {None},
         status' \in [Stopper -> {"running", "unverified", "stale", None}],
         found' \in [Command -> Record \cup Starter \cup {None}],
         p \in Starter => found'[p] \in Record \cup {None, p},
         p \in Stopper => found'[p] \in Record \cup {None},
         \A d \in Command \ {p} : found'[d] = found[d],
         \A s \in barred : p = Daemon(s) => x \notin Enters \/ Excused(s),
         SectionInv(p)', p \in Starter => StartInv(p)', Grow
  PROVE  IInv'
<1>1. /\ x \in Steps \ {"none", "loop", "reacquire"}
      /\ pc' \in [Process -> Steps] /\ pc'[p] = x
      /\ \A q \in Process \ {p} : pc'[q] = pc[q]
      /\ UNCHANGED <<holder, told, barred, expired, reused, foreign>>
  <2>1. x \in Steps \ {"none", "loop", "reacquire"}
    BY StepNames DEF Critical
  <2> QED
    BY <2>1, GotoStep DEF IInv, GoOn, outside
<1>2. TypeInv'
  BY <1>1, Kinds DEF IInv, TypeInv, Grow
<1>3. RunningDaemonIsFindable'
  BY <1>1, Kinds
    DEF IInv, FilesInv, RunningDaemonIsFindable, InLoop, At, Misjudged, Grow
<1>4. StartHasNoState'
  BY DEF IInv, FilesInv, StartHasNoState, Grow
<1>5. BarredInv'
  BY <1>1, BarredKept
<1> QED
  BY <1>1, <1>2, <1>3, <1>4, <1>5, MovesInside DEF NamesToken

(* A stop that ends saying that there is no daemon, alone and rightly, or  *)
(* carelessly.                                                             *)
LEMMA EndsSaying ==
  ASSUME IInv, NEW t \in Stopper, pc[t] \in Critical, NEW answer \in Replies, End(t, answer),
         UNCHANGED <<lockFile, memory, outside>>, Grow,
         \/ t \in careless'
         \/ NoneOverlooked /\ \A s \in Starter : lockFile = Starting(s) => s \in careless',
         stateFile' \in {stateFile, None}, stopFile' \in Starter \cup {None}
  PROVE  IInv'
<1>1. /\ Goto(t, "ended") /\ t \in Process /\ t \in Command /\ t \notin Starter
      /\ "ended" \in Steps \ {"none", "kill", "loop"}
      /\ "ended" \notin Critical
      /\ told' \in [Command -> Replies \cup {None}]
      /\ \A d \in Command \ {t} : told'[d] = told[d]
      /\ holder' \in {holder, None} /\ barred' \subseteq Starter
      /\ barred' \subseteq {s \in Starter : pc[Daemon(s)] # "none"} \cup barred
      /\ t \in careless' => barred' = barred
      /\ UNCHANGED <<status, found, expired, reused, foreign>>
  BY EndStep, Kinds, StepNames DEF IInv, Outside, Gone, memory, outside
<1>2. /\ pc' \in [Process -> Steps] /\ pc'[t] = "ended"
      /\ \A q \in Process \ {t} : pc'[q] = pc[q]
  BY <1>1, GotoStep DEF IInv
<1>3. TypeInv'
  BY <1>1, <1>2, Kinds DEF IInv, TypeInv, Grow
<1>4. RunningDaemonIsFindable'
  <2>1. \A s \in Starter : InLoop(s)' => InLoop(s)
    BY <1>1, <1>2, Kinds DEF InLoop, At
  <2>2. CASE NoneOverlooked
    BY <2>1, <2>2 DEF NoneOverlooked, RunningDaemonIsFindable
  <2>3. CASE t \in careless'
    BY <2>1, <2>3 DEF IInv, FilesInv, RunningDaemonIsFindable, Misjudged, Grow
  <2> QED
    BY <2>2, <2>3
<1>5. StartHasNoState' /\ (stateFile' \in Record => stateFile' = stateFile)
  BY Kinds DEF IInv, FilesInv, StartHasNoState, Grow
<1>6. SectionInv(t)'
  BY <1>1, <1>2, Kinds DEF SectionInv, Critical
<1>7. BarredInv'
  <2>1. CASE t \in careless'
    BY <1>1, <2>1, BarredKept, Kinds
  <2>2. CASE NoneOverlooked /\ \A s \in Starter : lockFile = Starting(s) => s \in careless'
    BY <1>1, <2>2, BarredExtended
  <2> QED
    BY <2>1, <2>2
<1> QED
  BY <1>1, <1>3, <1>4, <1>5, <1>6, <1>7, MovesInside DEF NamesToken

(* What inspect_status says of the daemons, and what it found.             *)
LEMMA Inspected ==
  ASSUME IInv, NEW c \in Command, NEW st \in Statuses, NEW r \in Record \cup {None},
         Inspect(c, st, r), Grow
  PROVE  /\ st = "stale" =>
              /\ NoneOverlooked \/ (r = None /\ c \in careless')
              /\ stateFile \in Record => r = stateFile \/ c \in careless'
              /\ \A s \in Starter : lockFile = Starting(s) =>
                   r = lockFile \/ s \in careless' \/ c \in careless'
         /\ st = "stopped" => NoneOverlooked /\ lockFile = None /\ stateFile = None
         /\ st \in {"running", "unverified"} =>
              /\ r \in Record /\ r.mode = "running"
              /\ \A s \in Starter : lockFile = Starting(s) => s \in careless'
              /\ \A s \in Starter : InLoop(s) => s = r.token \/ Misjudged(s)'
              /\ st = "running" => stateFile = r
<1>1. PICK sf \in {stateFile, Invalid}, lf \in {lockFile, Invalid} :
        /\ sf \in Record \/ sf = stateFile \/ c \in careless'
        /\ sf \in Record \/ lf = lockFile \/ c \in careless'
        /\ \/ InspectStatus(sf, lf, st, r)
           \/ /\ st = "stale" /\ r \in Record /\ r = IF sf \in Record THEN sf ELSE lf
              /\ PidOf(r) \in unchecked'
  <2>1. CASE InspectStatus(stateFile, lockFile, st, r)
    BY <2>1
  <2>2. CASE \E sf \in {stateFile, Invalid} :
               \E lf \in {lockFile} \cup IF sf \in Record THEN {} ELSE {Invalid} :
                 LET unread == IF sf = stateFile /\ lf = lockFile THEN {} ELSE {c} IN
                 \/ unread # {} /\ InspectStatus(sf, lf, st, r) /\ FailsFor({}, unread)
                 \/ /\ st = "stale" /\ r \in Record /\ r = IF sf \in Record THEN sf ELSE lf
                    /\ ~Running(PidOf(r), FALSE) /\ FailsFor({PidOf(r)}, unread)
    BY <2>2 DEF FailsFor
  <2> QED
    BY <2>1, <2>2 DEF Inspect
<1>2. \A s \in Starter : InLoop(s) =>
        \/ Misjudged(s)'
        \/ lockFile = InService(s) /\ stateFile \in {lockFile, Invalid, None}
  BY DEF IInv, FilesInv, RunningDaemonIsFindable, InService, Misjudged, Grow
<1>3. CASE sf \in Record
  <2>1. r = sf /\ r = stateFile /\ r \in Record
    BY <1>1, <1>3, Kinds DEF InspectStatus
  <2>2. PICK u \in Starter : r = InService(u)
    BY <2>1, Kinds DEF IInv, TypeInv
  <2>3. r.mode = "running" /\ r.token = u /\ PidOf(r) = Daemon(u)
    BY <2>2, Records DEF PidOf
  <2>4. \A s \in Starter : lockFile = Starting(s) => s \in careless'
    BY <2>1 DEF IInv, FilesInv, StartHasNoState, Grow
  <2>5. \A s \in Starter : InLoop(s) => s = u \/ Misjudged(s)'
    BY <1>2, <2>1, <2>2, Records, Kinds
  <2>6. RecordStatus(r, st) \/ (st = "stale" /\ Misjudged(u)')
    BY <1>1, <1>3, <2>1, <2>3 DEF InspectStatus, Misjudged
  <2>7. st \in {"stale", "running", "unverified", "unowned"}
    BY <2>6 DEF RecordStatus
  <2>8. st = "stale" => ~InLoop(u) \/ Misjudged(u)'
    BY <2>3, <2>6, Answers DEF RecordStatus, InLoop, At, Live, Gone
  <2> QED
    BY <2>1, <2>3, <2>4, <2>5, <2>7, <2>8 DEF NoneOverlooked
<1>4. CASE sf \notin Record
  <2>1. stateFile \in Record => c \in careless'
    BY <1>1, <1>4
  <2>2. CASE lf \in {None, Invalid}
    <3>1. /\ r = None /\ st \in {"stopped", "stale"}
          /\ st = "stopped" => lf = None /\ sf = None
      <4>1. lf \notin Record
        BY <2>2, Kinds
      <4>2. LockStatus(sf, lf, st, r)
        BY <1>1, <1>4, <4>1 DEF InspectStatus
      <4> QED
        BY <4>1, <4>2, Kinds DEF LockStatus
    <3>2. lockFile \in {None, Invalid} \/ c \in careless'
      BY <1>1, <1>4, <2>2
    <3>3. lockFile \in {None, Invalid} =>
            NoneOverlooked /\ \A s \in Starter : lockFile # Starting(s)
      BY <1>2, Kinds, Records DEF NoneOverlooked
    <3>4. st = "stopped" => lockFile = None /\ stateFile = None
      BY <1>1, <3>1, Kinds
    <3> QED
      BY <2>1, <3>1, <3>2, <3>3, <3>4
  <2>3. CASE lf \in Record
    <3>1. lf = lockFile /\ r = lf /\ r \in Record
      BY <1>1, <1>4, <2>3, Kinds DEF InspectStatus, LockStatus
    <3>2. CASE lf.mode = "starting"
      <4>1. st \in {"starting", "stale"}
        BY <1>1, <1>4, <3>1, <3>2, Kinds DEF InspectStatus, LockStatus
      <4>2. NoneOverlooked
        BY <1>2, <3>1, <3>2, Records DEF NoneOverlooked
      <4> QED
        BY <2>1, <3>1, <4>1, <4>2
    <3>3. CASE lf.mode = "running"
      <4>1. /\ r = InService(r.token) /\ r.token \in Starter
            /\ \A s \in Starter : lockFile # Starting(s)
            /\ PidOf(r) = Daemon(r.token)
        BY <3>1, <3>3, Records DEF PidOf
      <4>2. \A s \in Starter : InLoop(s) => s = r.token \/ Misjudged(s)'
        BY <1>2, <3>1, <4>1, Records
      <4>3. /\ st \in {"stale", "unverified"}
            /\ st = "stale" => RecordStatus(r, st) \/ Misjudged(r.token)'
        BY <1>1, <1>4, <3>1, <3>3, <4>1, Kinds DEF InspectStatus, LockStatus, Misjudged
      <4>4. st = "stale" => ~InLoop(r.token) \/ Misjudged(r.token)'
        BY <4>1, <4>3, Answers DEF RecordStatus, InLoop, At, Live, Gone
      <4> QED
        BY <2>1, <3>1, <3>3, <4>1, <4>2, <4>3, <4>4 DEF NoneOverlooked
    <3> QED
      BY <2>3, <3>2, <3>3, Records
  <2> QED
    BY <1>1, <2>2, <2>3 DEF IInv, TypeInv
<1> QED
  BY <1>3, <1>4

LEMMA PrepareStartKeeps ==
  ASSUME IInv, NEW s \in Starter, PrepareStart(s), Grow PROVE IInv'
<1>1. PICK st \in Statuses, r \in Record \cup {None} :
        /\ Inspect(s, st, r)
        /\ \/ st \in {"starting", "unowned"} /\ End(s, "refused") /\ UNCHANGED found
           \/ st \in {"running", "unverified"} /\ End(s, "already") /\ UNCHANGED found
           \/ st = "stale" /\ r = None /\ Goto(s, "cleanInvalid") /\ GoOn
              /\ UNCHANGED found
           \/ st = "stale" /\ r # None /\ Goto(s, "cleanLock") /\ GoOn
              /\ found' = [found EXCEPT ![s] = r]
           \/ st = "stopped" /\ Goto(s, "create") /\ GoOn /\ UNCHANGED found
  BY DEF PrepareStart
<1>2. /\ UNCHANGED <<lockFile, stateFile, stopFile, status, outside>>
      /\ stopFile \in Starter \cup {None} /\ s \in Process /\ s \in Command
      /\ s \notin Stopper /\ Live(s) /\ pc[s] = "inspect" /\ pc[s] \in Critical
      /\ \A u \in Starter : s # Daemon(u)
  BY Kinds DEF PrepareStart, files, IInv, TypeInv, At, Live, Gone, Critical
<1>3. ASSUME NEW answer \in {"refused", "already"}, End(s, answer), UNCHANGED found
      PROVE  IInv'
  BY <1>2, <1>3, EndsOutside DEF Replies, memory
<1>4. ASSUME NEW x \in {"cleanInvalid", "cleanLock", "create"}, Goto(s, x), GoOn,
             NEW f \in Record \cup {None}, found' = [found EXCEPT ![s] = f] \/ found' = found,
             found'[s] # s,
             x = "cleanInvalid" => NoneOverlooked \/ s \in careless',
             x \in {"cleanInvalid", "create"} => stateFile \notin Record \/ s \in careless',
             x = "cleanLock" => NoneOverlooked /\ found'[s] \in Record,
             x = "cleanLock" /\ stateFile \in Record =>
               stateFile = found'[s] \/ s \in careless'
      PROVE  IInv'
  <2>1. /\ x \in Critical /\ x # "kill" /\ x \in Steps /\ x \notin Enters
        /\ x \notin {"cleanState", "cleanStop"} \cup Waiting
    BY StepNames DEF Critical, Waiting
  <2>2. /\ found' \in [Command -> Record \cup Starter \cup {None}]
        /\ found'[s] \in Record \cup {None, s}
        /\ \A d \in Command \ {s} : found'[d] = found[d]
    BY <1>2, <1>4 DEF IInv, TypeInv
  <2>3. status' \in [Stopper -> {"running", "unverified", "stale", None}]
    BY <1>2 DEF IInv, TypeInv
  <2>4. /\ pc'[s] = x /\ \A q \in Process \ {s} : pc'[q] = pc[q]
        /\ holder' = holder /\ told' = told
    BY <1>2, <1>4, <2>1, GotoStep DEF IInv, GoOn
  <2>5. (NoneOverlooked => Quiet') /\ holder = s
    BY <1>2, <1>4, <2>1, <2>4, Kinds
      DEF NoneOverlooked, Quiet, InLoop, At, IInv, FilesInv, SectionInv
  <2>6. SectionInv(s)'
    BY <1>2, <1>4, <2>1, <2>4, <2>5 DEF SectionInv
  <2>7. StartInv(s)'
    BY <1>2, <1>4, <2>1, <2>4, Kinds DEF IInv, StartInv, Waiting, Live
  <2> QED
    BY <1>2, <1>4, <2>1, <2>2, <2>3, <2>6, <2>7, StaysInside
<1>5. found[s] # s
  BY <1>2 DEF IInv, StartInv
<1>6. CASE st = "stale" /\ r = None /\ Goto(s, "cleanInvalid") /\ GoOn /\ UNCHANGED found
  <2>1. /\ NoneOverlooked \/ s \in careless'
        /\ stateFile \in Record => r = stateFile \/ s \in careless'
    BY <1>1, <1>2, <1>6, Inspected
  <2> QED
    BY <1>4, <1>5, <1>6, <2>1, Kinds
<1>7. CASE st = "stale" /\ r # None /\ Goto(s, "cleanLock") /\ GoOn
           /\ found' = [found EXCEPT ![s] = r]
  <2>1. found'[s] = r /\ r \in Record /\ r # s
    BY <1>1, <1>2, <1>7, Kinds DEF IInv, TypeInv
  <2>2. NoneOverlooked /\ (stateFile \in Record => r = stateFile \/ s \in careless')
    BY <1>1, <1>2, <1>7, Inspected
  <2> QED
    BY <1>4, <1>7, <2>1, <2>2
<1>8. CASE st = "stopped" /\ Goto(s, "create") /\ GoOn /\ UNCHANGED found
  <2>1. stateFile = None
    BY <1>1, <1>2, <1>8, Inspected
  <2> QED
    BY <1>4, <1>5, <1>8, <2>1, Kinds
<1> QED
  BY <1>1, <1>3, <1>6, <1>7, <1>8

LEMMA SpawnFailsKeeps ==
  ASSUME IInv, NEW s \in Starter, At(s, "spawn"), Goto(s, "cleanLock"), Grow,
         UNCHANGED <<holder, files, memory, told, barred, outside>>
  PROVE  IInv'
<1>1. /\ UNCHANGED <<lockFile, stateFile, stopFile, status, found, outside>> /\ GoOn
      /\ s \in Process /\ s \in Command /\ s \notin Stopper
      /\ pc[s] = "spawn" /\ pc[s] \in Critical
      /\ \A u \in Starter : s # Daemon(u)
      /\ found[s] = s /\ "cleanLock" \in Critical /\ "cleanLock" \in Steps
  BY Kinds, StepNames DEF files, memory, IInv, StartInv, At, Critical, GoOn
<1>2. /\ pc'[s] = "cleanLock" /\ \A q \in Process \ {s} : pc'[q] = pc[q]
  BY <1>1, GotoStep DEF IInv
<1>3. SectionInv(s)'
  BY <1>1, <1>2 DEF SectionInv, IInv, FilesInv
<1>4. StartInv(s)'
  BY <1>1, <1>2, Kinds DEF IInv, StartInv, Waiting, Live
<1>5. /\ stopFile' \in Starter \cup {None}
      /\ status' \in [Stopper -> {"running", "unverified", "stale", None}]
      /\ found' \in [Command -> Record \cup Starter \cup {None}]
  BY <1>1 DEF IInv, TypeInv
<1> QED
  BY <1>1, <1>3, <1>4, <1>5, StaysInside

LEMMA SpawnKeeps ==
  ASSUME IInv, NEW s \in Starter, Spawn(s), Grow PROVE IInv'
BY SpawnSucceedsKeeps, SpawnFailsKeeps DEF Spawn

LEMMA ValidateKeeps ==
  ASSUME IInv, NEW s \in Starter, Validate(s), Grow PROVE IInv'
<1>1. /\ UNCHANGED <<lockFile, stateFile, stopFile, memory, outside, status, found>>
      /\ told' = told /\ barred' = barred
      /\ stopFile' \in Starter \cup {None}
      /\ status' \in [Stopper -> {"running", "unverified", "stale", None}]
      /\ found' \in [Command -> Record \cup Starter \cup {None}]
      /\ told' \in [Command -> Replies \cup {None}]
      /\ Daemon(s) \in Process /\ Daemon(s) \notin Command
      /\ Daemon(s) \notin Starter /\ Daemon(s) \notin Stopper
      /\ pc[Daemon(s)] = "validate" /\ Live(Daemon(s)) /\ pc[Daemon(s)] \in Critical
  BY Kinds DEF Validate, files, memory, IInv, TypeInv, At, Critical, Live, Gone
<1>2. CASE /\ lockFile = Starting(s) /\ Goto(Daemon(s), "writeLock") /\ holder' = holder
  <2>1. "writeLock" \in Critical /\ "writeLock" \in Steps /\ GoOn
    BY <1>1, <1>2, StepNames DEF Critical, GoOn
  <2>2. /\ pc'[Daemon(s)] = "writeLock"
        /\ \A q \in Process \ {Daemon(s)} : pc'[q] = pc[q]
    BY <1>1, <1>2, <2>1, GotoStep DEF IInv
  <2>3. \A r \in Starter : InLoop(r) => lockFile = InService(r) \/ Misjudged(r)'
    BY DEF IInv, FilesInv, RunningDaemonIsFindable, InService, Misjudged, Grow
  <2>4. Quiet'
    BY <1>2, <2>2, <2>3, Records, Kinds DEF Quiet, InLoop, At
  <2>5. \A u \in Starter : Daemon(s) = Daemon(u) => u = s
    BY Kinds
  <2>6. SectionInv(Daemon(s))'
    BY <1>1, <1>2, <2>1, <2>2, <2>4, <2>5 DEF SectionInv, IInv, FilesInv
  <2>7. \A u \in barred : Daemon(s) = Daemon(u) => Excused(u)
    BY <1>2, <2>5 DEF IInv, TypeInv, BarredInv, Excused
  <2> QED
    BY <1>1, <1>2, <2>1, <2>6, <2>7, StaysInside
<1>3. CASE EndDaemon(s, "broken")
  BY <1>1, <1>3, GoesOutside DEF EndDaemon, Dropped, Outside, Gone
<1> QED
  BY <1>2, <1>3 DEF Validate, Starting

-----------------------------------------------------------------------------
(* A stop that goes on, without the files, with a daemon it has found.     *)
LEMMA StopperStays ==
  ASSUME IInv, NEW t \in Stopper, pc[t] \in Stopping,
         NEW x \in Stopping \cup {"cleanLock"}, Goto(t, x), GoOn,
         UNCHANGED <<lockFile, stateFile, memory, outside>>, stopFile' \in Starter \cup {None},
         x = "cleanLock" => NoneOverlooked,
         x = "reread" => status[t] = "running",
         x = "kill" => PidOf(found[t]) \notin reused, Grow
  PROVE  IInv'
<1>1. /\ t \in Process /\ t \in Command /\ t \notin Starter
      /\ \A u \in Starter : t # Daemon(u)
      /\ pc[t] \in Critical /\ x \in Critical /\ x \in Steps
  BY Kinds, StepNames DEF Critical
<1>2. UNCHANGED <<lockFile, stateFile, status, found, outside, holder>>
  BY DEF memory, GoOn
<1>3. /\ pc'[t] = x /\ \A q \in Process \ {t} : pc'[q] = pc[q]
  BY <1>1, GotoStep DEF IInv
<1>4. /\ \A s \in Starter : InLoop(s)' => InLoop(s)
      /\ NoneOverlooked => Quiet'
      /\ \A s \in Starter : Misjudged(s) => Misjudged(s)'
  BY <1>1, <1>3, Kinds DEF InLoop, At, Quiet, NoneOverlooked, Misjudged, Grow
<1>5. SectionInv(t) /\ holder = t
  BY <1>1 DEF IInv, FilesInv, SectionInv
<1>6. /\ found[t] \in Record /\ found[t].mode = "running"
      /\ \A s \in Starter : InLoop(s)' => s = found[t].token \/ Misjudged(s)'
      /\ status[t] = "running" => stateFile \in {found[t], Invalid}
      /\ PassesNoStart(t)'
  BY <1>2, <1>4, <1>5 DEF SectionInv, PassesNoStart, Grow
<1>7. SectionInv(t)'
  BY <1>1, <1>2, <1>3, <1>4, <1>5, <1>6 DEF SectionInv
<1>8. /\ status' \in [Stopper -> {"running", "unverified", "stale", None}]
      /\ found' \in [Command -> Record \cup Starter \cup {None}]
      /\ found'[t] \in Record \cup {None}
  BY <1>2 DEF IInv, TypeInv
<1> QED
  BY <1>1, <1>2, <1>7, <1>8, StaysInside

(* When the pid of the daemon it has found is free, or a check of it fails *)
(* and it is misjudged, no other daemon runs.                              *)
LEMMA FoundIsGone ==
  ASSUME IInv, NEW t \in Stopper, pc[t] \in Stopping, Grow,
         IsRunning(PidOf(found[t]), FALSE) \/ FailsFor({PidOf(found[t])}, {})
  PROVE  NoneOverlooked
<1>1. /\ found[t].mode = "running" /\ found[t] \in Record
      /\ \A s \in Starter : InLoop(s) => s = found[t].token \/ Misjudged(s)
  BY Kinds DEF IInv, FilesInv, SectionInv
<1>2. PidOf(found[t]) = Daemon(found[t].token) /\ PidOf(found[t]) \in Process
  BY <1>1, Kinds DEF PidOf
<1>3. ~Live(PidOf(found[t])) \/ PidOf(found[t]) \in unchecked'
  <2>1. CASE IsRunning(PidOf(found[t]), FALSE)
    BY <1>2, <2>1, Checked, Zenon DEF IInv
  <2>2. CASE FailsFor({PidOf(found[t])}, {})
    BY <2>2 DEF FailsFor
  <2> QED
    BY <2>1, <2>2
<1>4. \A s \in Starter : s = found[t].token => ~InLoop(s) \/ Misjudged(s)'
  BY <1>2, <1>3 DEF InLoop, At, Live, Gone, Misjudged
<1>5. \A s \in Starter : Misjudged(s) => Misjudged(s)'
  BY DEF Misjudged, Grow
<1> QED
  BY <1>1, <1>4, <1>5 DEF NoneOverlooked

LEMMA InspectToStopKeeps ==
  ASSUME IInv, NEW t \in Stopper, InspectToStop(t), Grow PROVE IInv'
<1>1. PICK st \in Statuses, r \in Record \cup {None} :
       /\ Inspect(t, st, r)
       /\ \/ st \in {"starting", "unowned"} /\ End(t, "refused") /\ UNCHANGED memory
          \/ st = "stopped" /\ End(t, "notRunning") /\ UNCHANGED memory
          \/ /\ st \in {"running", "unverified", "stale"}
             /\ status' = [status EXCEPT ![t] = st]
             /\ found' = [found EXCEPT ![t] = r]
             /\ Goto(t, IF st # "stale" THEN "request"
                        ELSE IF r = None THEN "cleanInvalid" ELSE "cleanLock")
             /\ GoOn
  BY DEF InspectToStop
<1>2. /\ UNCHANGED <<lockFile, stateFile, stopFile, outside>>
      /\ stopFile \in Starter \cup {None} /\ t \in Process /\ t \in Command
      /\ t \notin Starter /\ Live(t) /\ pc[t] = "inspect" /\ pc[t] \in Critical
      /\ \A u \in Starter : t # Daemon(u)
  BY Kinds DEF InspectToStop, files, IInv, TypeInv, At, Live, Gone, Critical
<1>3. CASE End(t, "refused") /\ UNCHANGED memory
  BY <1>2, <1>3, EndsOutside DEF Replies
<1>4. CASE st = "stopped" /\ End(t, "notRunning") /\ UNCHANGED memory
  <2>1. NoneOverlooked /\ \A s \in Starter : lockFile # Starting(s)
    BY <1>1, <1>2, <1>4, Inspected, Kinds, Records
  <2> QED
    BY <1>2, <1>4, <2>1, EndsSaying DEF Replies
<1>5. ASSUME NEW x \in {"request", "cleanInvalid", "cleanLock"}, Goto(t, x), GoOn,
             st \in {"running", "unverified", "stale"},
             status' = [status EXCEPT ![t] = st], found' = [found EXCEPT ![t] = r],
             x = "request" <=> st # "stale",
             x = "cleanInvalid" <=> st = "stale" /\ r = None
      PROVE  IInv'
  <2>1. /\ x \in Critical /\ x # "kill" /\ x \in Steps /\ x \notin Enters \cup Starts
        /\ x \notin {"cleanState", "cleanStop", "reread"}
    BY StepNames DEF Critical
  <2>2. /\ found' \in [Command -> Record \cup Starter \cup {None}] /\ found'[t] = r
        /\ \A d \in Command \ {t} : found'[d] = found[d]
        /\ status' \in [Stopper -> {"running", "unverified", "stale", None}]
        /\ status'[t] = st
    BY <1>2, <1>5 DEF IInv, TypeInv
  <2>3. /\ pc'[t] = x /\ \A q \in Process \ {t} : pc'[q] = pc[q]
        /\ holder' = holder
    BY <1>2, <1>5, <2>1, GotoStep DEF IInv, GoOn
  <2>4. \A s \in Starter : InLoop(s)' <=> InLoop(s)
    BY <1>2, <2>3, Kinds DEF InLoop, At
  <2>5. holder = t /\ (NoneOverlooked => Quiet')
    BY <1>2, <2>4 DEF NoneOverlooked, Quiet, IInv, FilesInv, SectionInv
  <2>6. CASE x = "request"
    <3>1. /\ r \in Record /\ r.mode = "running"
          /\ \A s \in Starter : lockFile = Starting(s) => s \in careless'
          /\ \A s \in Starter : InLoop(s) => s = r.token \/ Misjudged(s)'
          /\ st = "running" => stateFile = r
      BY <1>1, <1>2, <1>5, <2>6, Inspected
    <3>2. SectionInv(t)'
      BY <1>2, <2>2, <2>3, <2>4, <2>5, <2>6, <3>1 DEF SectionInv, PassesNoStart
    <3> QED
      BY <1>2, <1>5, <2>1, <2>2, <3>2, StaysInside
  <2>7. CASE x # "request"
    <3>1. /\ NoneOverlooked \/ (r = None /\ t \in careless')
          /\ \A s \in Starter : lockFile = Starting(s) =>
               r = lockFile \/ s \in careless' \/ t \in careless'
      BY <1>1, <1>2, <1>5, <2>7, Inspected
    <3>2. lockFile' = found'[t] \/ PassesNoStart(t)'
      BY <1>2, <2>2, <3>1 DEF PassesNoStart
    <3>3. r = None => PassesNoStart(t)'
      BY <1>2, <3>1, Kinds, Records DEF PassesNoStart
    <3>4. SectionInv(t)'
      BY <1>2, <1>5, <2>1, <2>2, <2>3, <2>5, <2>7, <3>1, <3>2, <3>3 DEF SectionInv
    <3> QED
      BY <1>2, <1>5, <2>1, <2>2, <3>4, StaysInside
  <2> QED
    BY <2>6, <2>7
<1> QED
  BY <1>1, <1>3, <1>4, <1>5

LEMMA RequestStopKeeps ==
  ASSUME IInv, NEW t \in Stopper, RequestStop(t), Grow PROVE IInv'
<1>1. /\ UNCHANGED <<lockFile, stateFile, memory, outside>> /\ pc[t] = "request"
      /\ t \in Command /\ t \notin Starter /\ Live(t) /\ stopFile \in Starter \cup {None}
  BY Kinds DEF RequestStop, At, Live, Gone, IInv, TypeInv
<1>2. CASE stopFile' = found[t].token /\ Goto(t, "await") /\ GoOn
  <2>1. found[t].token \in Starter
    BY <1>1, Records DEF IInv, FilesInv, SectionInv, Process, Command
  <2> QED
    BY <1>1, <1>2, <2>1, StopperStays
<1>3. CASE End(t, "failed") /\ stopFile' \in {stopFile, None, found[t].token}
  <2>1. found[t].token \in Starter
    BY <1>1, Records DEF IInv, FilesInv, SectionInv, Process, Command
  <2> QED
    BY <1>1, <1>3, <2>1, EndsOutside DEF Replies
<1> QED
  BY <1>2, <1>3 DEF RequestStop

LEMMA AwaitStopKeeps ==
  ASSUME IInv, NEW t \in Stopper, AwaitStop(t), Grow PROVE IInv'
<1>1. /\ UNCHANGED <<lockFile, stateFile, stopFile, memory, outside>> /\ pc[t] = "await"
      /\ t \in Process /\ t \in Command /\ t \notin Starter /\ Live(t)
      /\ stopFile' \in Starter \cup {None}
  BY Kinds DEF AwaitStop, files, At, Live, Gone, IInv, TypeInv
<1>2. CASE /\ IsRunning(PidOf(found[t]), FALSE) \/ FailsFor({PidOf(found[t])}, {})
           /\ Goto(t, "cleanLock") /\ GoOn
  BY <1>1, <1>2, FoundIsGone, StopperStays
<1>3. ~(status[t] = "running" /\ stateFile = None)
  BY <1>1, Kinds DEF IInv, FilesInv, SectionInv
<1>4. CASE status[t] = "running" /\ Goto(t, "reread") /\ GoOn
  BY <1>1, <1>4, StopperStays
<1>5. CASE End(t, "refused")
  BY <1>1, <1>5, EndsOutside DEF Replies
<1> QED
  BY <1>2, <1>3, <1>4, <1>5 DEF AwaitStop

LEMMA RereadStateKeeps ==
  ASSUME IInv, NEW t \in Stopper, RereadState(t), Grow PROVE IInv'
<1>1. /\ UNCHANGED <<lockFile, stateFile, stopFile, memory, outside>> /\ pc[t] = "reread"
      /\ t \in Process /\ t \in Command /\ t \notin Starter /\ Live(t)
      /\ stopFile' \in Starter \cup {None}
  BY Kinds DEF RereadState, files, At, Live, Gone, IInv, TypeInv
<1>2. CASE Goto(t, "verify") /\ GoOn
  BY <1>1, <1>2, StopperStays
<1>3. stateFile # None
  BY <1>1, Kinds DEF IInv, FilesInv, SectionInv
<1>4. CASE End(t, "refused")
  BY <1>1, <1>4, EndsOutside DEF Replies
<1> QED
  BY <1>2, <1>3, <1>4 DEF RereadState

LEMMA VerifyIdentityKeeps ==
  ASSUME IInv, NEW t \in Stopper, VerifyIdentity(t), Grow PROVE IInv'
<1>1. /\ UNCHANGED <<lockFile, stateFile, stopFile, memory, outside>> /\ pc[t] = "verify"
      /\ t \in Process /\ t \in Command /\ t \notin Starter /\ Live(t)
      /\ stopFile' \in Starter \cup {None}
  BY Kinds DEF VerifyIdentity, files, At, Live, Gone, IInv, TypeInv
<1>2. CASE IsRunning(PidOf(found[t]), FALSE) /\ Goto(t, "cleanLock") /\ GoOn
  BY <1>1, <1>2, FoundIsGone, StopperStays
<1>3. CASE Identity(PidOf(found[t]), "verified") /\ Goto(t, "kill") /\ GoOn
  <2>1. PidOf(found[t]) \notin reused
    BY <1>3, Answers DEF IInv, ReusedInv, Live
  <2> QED
    BY <1>1, <1>3, <2>1, StopperStays
<1>4. CASE End(t, "refused")
  BY <1>1, <1>4, EndsOutside DEF Replies
<1> QED
  BY <1>2, <1>3, <1>4 DEF VerifyIdentity

LEMMA AwaitKilledKeeps ==
  ASSUME IInv, NEW t \in Stopper, AwaitKilled(t), Grow PROVE IInv'
<1>1. /\ UNCHANGED <<lockFile, stateFile, stopFile, memory, outside>>
      /\ pc[t] = "awaitKilled"
      /\ t \in Process /\ t \in Command /\ t \notin Starter /\ Live(t)
      /\ stopFile' \in Starter \cup {None}
  BY Kinds DEF AwaitKilled, files, At, Live, Gone, IInv, TypeInv
<1>2. CASE IsRunning(PidOf(found[t]), FALSE) /\ Goto(t, "cleanLock") /\ GoOn
  BY <1>1, <1>2, FoundIsGone, StopperStays
<1>3. CASE End(t, "failed")
  BY <1>1, <1>3, EndsOutside DEF Replies
<1> QED
  BY <1>2, <1>3 DEF AwaitKilled

(* The signal ends the daemon found, if its process is still there; its    *)
(* pid names no other process, unless that may happen at once.             *)
LEMMA TerminateKeeps ==
  ASSUME IInv, NEW t \in Stopper, Terminate(t), Grow PROVE IInv'
<1>1. /\ UNCHANGED <<lockFile, stateFile, stopFile, memory, status, found, expired, reused>>
      /\ pc[t] = "kill" /\ t \in Process /\ t \in Command /\ t \notin Starter /\ Live(t)
      /\ pc[t] \in Critical /\ \A u \in Starter : t # Daemon(u)
      /\ stopFile' \in Starter \cup {None}
  BY Kinds DEF Terminate, files, memory, At, Live, Gone, IInv, TypeInv, Critical
<1>2. CASE End(t, "failed") /\ foreign' = foreign
  BY <1>1, <1>2, EndsOutside DEF Replies, outside
<1>3. ASSUME Running(PidOf(found[t]), TRUE), GoOn,
             pc' = [pc EXCEPT ![t] = "awaitKilled",
                              ![PidOf(found[t])] = IF @ \in Gone THEN @ ELSE "broken"],
             foreign' = (foreign \/ PidOf(found[t]) \in reused)
      PROVE  IInv'
  <2>1. /\ SectionInv(t) /\ found[t] \in Record /\ found[t].mode = "running"
        /\ \A s \in Starter : InLoop(s) => s = found[t].token \/ Misjudged(s)
        /\ status[t] = "running" => stateFile \in {found[t], Invalid}
        /\ PassesNoStart(t) /\ holder = t
    BY <1>1 DEF IInv, FilesInv, SectionInv
  <2>2. PICK d \in Starter : d = found[t].token /\ PidOf(found[t]) = Daemon(d)
    BY <2>1, Records DEF PidOf
  <2>3. /\ Daemon(d) \in Process /\ Daemon(d) # t /\ Daemon(d) \notin Command
        /\ pc[Daemon(d)] # "none"
    BY <1>1, <1>3, <2>2, Answers, Kinds DEF IInv, ReusedInv, Live, Gone
  <2>4. /\ pc' \in [Process -> Steps] /\ pc'[t] = "awaitKilled"
        /\ pc'[Daemon(d)] \in Gone
        /\ pc[Daemon(d)] \in Gone => pc'[Daemon(d)] = pc[Daemon(d)]
        /\ \A q \in Process \ {t, Daemon(d)} : pc'[q] = pc[q]
    <3>1. {"awaitKilled", "broken"} \subseteq Steps
      BY DEF Steps, Critical, Outside, Gone
    <3>2. pc' = [pc EXCEPT ![t] = "awaitKilled",
                           ![Daemon(d)] = IF @ \in Gone THEN @ ELSE "broken"]
      BY <1>3, <2>2
    <3> QED
      BY <1>1, <2>3, <3>1, <3>2 DEF IInv, TypeInv, Gone
  <2>5. UNCHANGED <<holder, told, barred>>
    BY <1>3 DEF GoOn
  <2>6. TypeInv'
    BY <1>1, <1>3, <2>4, <2>5, Kinds DEF IInv, TypeInv, Gone, Grow
  <2>7. \A s \in Starter : (InLoop(s)' => InLoop(s)) /\ (Misjudged(s) => Misjudged(s)')
    BY <1>1, <2>4, Kinds DEF InLoop, At, Gone, Misjudged, Grow
  <2>8. RunningDaemonIsFindable' /\ StartHasNoState'
    BY <1>1, <2>7 DEF IInv, FilesInv, RunningDaemonIsFindable, StartHasNoState, Grow
  <2>9. SectionInv(t)'
    <3>1. PassesNoStart(t)'
      BY <1>1, <2>1 DEF PassesNoStart, Grow
    <3> QED
      BY <1>1, <2>1, <2>4, <2>5, <2>7, <3>1 DEF SectionInv
  <2>10. FilesInv'
    <3>1. \A q \in Process \ {t} : pc[q] \notin Critical
      BY <1>1, Alone DEF IInv
    <3>2. \A q \in Process \ {t} : pc'[q] = pc[q] \/ pc'[q] \in Outside
      BY <2>4 DEF Outside
    <3> QED
      BY <1>1, <2>8, <2>9, <3>1, <3>2, FilesInside DEF IInv
  <2>11. ASSUME NEW s \in Starter PROVE StartInv(s)'
    <3>1. pc'[s] = pc[s] /\ StartInv(s) /\ found'[s] = found[s] /\ told'[s] = told[s]
      BY <1>1, <2>3, <2>4, <2>5, Kinds DEF IInv
    <3>2. pc[Daemon(s)] = "none" => pc'[Daemon(s)] = "none"
      BY <1>1, <2>3, <2>4, Kinds
    <3>3. ~Live(Daemon(s)) => pc'[Daemon(s)] \in Gone \cup {"none"}
      BY <1>1, <2>4, Kinds DEF Live
    <3> QED
      BY <1>1, <3>1, <3>2, <3>3, StartKept
  <2>12. BarredInv'
    BY <1>1, <2>4, <2>5, Kinds DEF IInv, TypeInv, BarredInv, Gone, Misjudged, Grow
  <2>13. ReusedInv'
    <3>1. \A q \in reused : pc'[q] = pc[q]
      BY <1>1, <2>4 DEF IInv, TypeInv, ReusedInv, Gone
    <3>2. \A u \in Stopper : pc'[u] = "kill" => pc[u] = "kill"
      BY <2>4, Kinds DEF Gone
    <3> QED
      BY <1>1, <1>3, <3>1, <3>2 DEF IInv, ReusedInv
  <2> QED
    BY <2>6, <2>10, <2>11, <2>12, <2>13 DEF IInv
<1> QED
  BY <1>2, <1>3 DEF Terminate

-----------------------------------------------------------------------------
(* Whoever gets the lifecycle lock finds nobody in a critical section.     *)
LEMMA AcquireKeeps ==
  ASSUME IInv, NEW p \in Process, Acquire(p), Grow PROVE IInv'
<1>1. PICK x \in {"inspect", "validate", "cleanLock"} :
        /\ Goto(p, x) /\ Live(p)
        /\ \/ pc[p] = "acquire" /\ x = "inspect" /\ p \in Command
           \/ pc[p] = "acquire" /\ x = "validate" /\ p \notin Command
           \/ pc[p] = "reacquire" /\ x = "cleanLock"
  <2>1. CASE At(p, "acquire") /\ Goto(p, IF p \in Command THEN "inspect" ELSE "validate")
    BY <2>1, Zenon DEF At, Live, Gone
  <2>2. CASE At(p, "reacquire") /\ Goto(p, "cleanLock")
    BY <2>2, Zenon DEF At, Live, Gone
  <2> QED
    BY <2>1, <2>2 DEF Acquire
<1>2. /\ holder' = p /\ ~(holder \in Process /\ Live(holder))
      /\ UNCHANGED <<lockFile, stateFile, stopFile, status, found, told, barred, expired,
                     foreign, reused>>
  BY DEF Acquire, files, memory, outside
<1>3. /\ x \in Critical /\ x \in Steps /\ x \notin {"none", "loop", "reacquire", "kill"}
      /\ x \notin Enters \cup Starts \cup {"cleanInvalid", "cleanState", "cleanStop", "reread"}
           \cup Stopping
  BY StepNames DEF Critical
<1>4. /\ pc' \in [Process -> Steps] /\ pc'[p] = x
      /\ \A q \in Process \ {p} : pc'[q] = pc[q]
  BY <1>1, <1>3, GotoStep DEF IInv
<1>5. \A q \in Process : pc[q] \notin Critical
  BY <1>2 DEF IInv, FilesInv, SectionInv, Live, Gone, Critical
<1>6. TypeInv'
  BY <1>2, <1>3, <1>4, Kinds DEF IInv, TypeInv, Grow
<1>7. RunningDaemonIsFindable' /\ StartHasNoState'
  BY <1>2, <1>3, <1>4, Kinds
    DEF IInv, FilesInv, RunningDaemonIsFindable, StartHasNoState, InLoop, At, Misjudged, Grow
<1>8. x = "cleanLock" => p \in Starter /\ found[p] = p
  BY <1>1 DEF IInv, TypeInv, StartInv, Waiting
<1>9. SectionInv(p)'
  BY <1>2, <1>3, <1>4, <1>8, Kinds DEF SectionInv
<1>10. FilesInv'
  BY <1>4, <1>5, <1>7, <1>9, FilesInside DEF IInv
<1>11. ASSUME p \in Starter PROVE StartInv(p)'
  <2>1. /\ pc'[Daemon(p)] = pc[Daemon(p)] /\ StartInv(p) /\ p \in Command
        /\ x \in {"inspect", "cleanLock"}
    BY <1>1, <1>4, <1>11, Kinds DEF IInv
  <2> QED
    BY <1>1, <1>2, <1>4, <2>1 DEF StartInv, Live, NamesToken, Waiting, Misjudged, Grow
<1>12. (\A s \in Starter \ {p} : StartInv(s)') /\ ReusedInv'
  BY <1>1, <1>2, <1>3, Others DEF NamesToken
<1>13. BarredInv'
  BY <1>1, <1>2, <1>3, BarredKept
<1> QED
  BY <1>6, <1>10, <1>11, <1>12, <1>13 DEF IInv

-----------------------------------------------------------------------------
(* The cleanup.                                                            *)
LEMMA CleanLockKeeps ==
  ASSUME IInv, NEW c \in Command, CleanLock(c), Grow PROVE IInv'
<1>1. /\ UNCHANGED <<stateFile, stopFile, status, found, told, barred, holder, reused, foreign>>
      /\ pc[c] = "cleanLock" /\ Goto(c, "cleanState") /\ expired' \in BOOLEAN
      /\ c \in Process /\ \A u \in Starter : c # Daemon(u)
      /\ "cleanState" \in Steps /\ "cleanState" \in Critical /\ pc[c] \in Critical
      /\ \/ Names(lockFile, found[c]) /\ lockFile' = None
         \/ lockFile' = lockFile /\ (Names(lockFile, found[c]) => c \in careless')
  BY Kinds, StepNames
    DEF CleanLock, At, memory, GoOn, IInv, TypeInv, Critical, FailsFor
<1>2. /\ pc' \in [Process -> Steps] /\ pc'[c] = "cleanState"
      /\ \A q \in Process \ {c} : pc'[q] = pc[q]
  BY <1>1, GotoStep DEF IInv
<1>3. lockFile' \in {lockFile, None}
  BY <1>1
<1>4. TypeInv'
  BY <1>1, <1>2, <1>3, Kinds DEF IInv, TypeInv, Grow
<1>5. /\ \A s \in Starter : (InLoop(s)' <=> InLoop(s)) /\ (Misjudged(s) => Misjudged(s)')
      /\ careless \subseteq careless'
  BY <1>1, <1>2, Kinds DEF InLoop, At, Misjudged, Grow
<1>6. c \in Starter => StartInv(c)
  BY DEF IInv
<1>7. c \in Stopper => found[c] \in Record \cup {None} /\ found[c] # c /\ c \notin Starter
  BY Kinds DEF IInv, TypeInv
<1>8. SectionInv(c)
  BY <1>1 DEF IInv, FilesInv
<1>9. /\ found[c] # c => Quiet /\ found[c] \in Record /\ found[c] \notin Starter
      /\ found[c] = c => c \in Starter /\ (InLoop(c) => Misjudged(c))
  BY <1>1, <1>6, <1>7, <1>8, Kinds DEF SectionInv, Command, StartInv, Live, InLoop, At, Gone
<1>10. RunningDaemonIsFindable'
  <2>1. ASSUME NEW s \in Starter, InLoop(s), ~Misjudged(s)
        PROVE  lockFile' = lockFile
    <3>1. found[c] = c /\ c \in Starter /\ s # c
      BY <1>9, <2>1 DEF Quiet
    <3>2. lockFile = InService(s)
      BY <2>1 DEF IInv, FilesInv, RunningDaemonIsFindable, InService
    <3>3. ~Names(lockFile, found[c])
      BY <3>1, <3>2, Records DEF Names
    <3> QED
      BY <1>1, <3>3
  <2>2. RunningDaemonIsFindable
    BY DEF IInv, FilesInv
  <2> QED
    BY <1>1, <1>5, <2>1, <2>2 DEF RunningDaemonIsFindable
<1>11. \A s \in Starter : lockFile' = Starting(s) => lockFile' = lockFile
  BY <1>3, Kinds, Records
<1>12. StartHasNoState'
  BY <1>1, <1>5, <1>11 DEF IInv, FilesInv, StartHasNoState
<1>13. c \in Stopper => PassesNoStart(c)'
  <2> SUFFICES ASSUME c \in Stopper, NEW s \in Starter, lockFile' = Starting(s)
               PROVE  s \in careless' \/ c \in careless'
    BY DEF PassesNoStart
  <2>1. lockFile' = lockFile /\ lockFile \in Record /\ found[c] \notin Starter
    BY <1>7, <1>9, <1>11, Records
  <2>2. CASE lockFile = found[c]
    <3>1. Names(lockFile, found[c])
      BY <2>1, <2>2 DEF Names
    <3> QED
      BY <1>1, <2>1, <3>1, Kinds
  <2>3. CASE PassesNoStart(c)
    BY <1>5, <2>1, <2>3 DEF PassesNoStart
  <2> QED
    BY <1>1, <1>8, <2>2, <2>3 DEF SectionInv
<1>14. SectionInv(c)'
  <2>1. Quiet => Quiet'
    BY <1>5 DEF Quiet
  <2> QED
    BY <1>1, <1>2, <1>5, <1>8, <1>13, <2>1 DEF SectionInv
<1>15. c \in Starter => StartInv(c)'
  <2>1. c \in Starter => pc'[Daemon(c)] = pc[Daemon(c)]
    BY <1>1, <1>2, Kinds
  <2>2. c \in Starter /\ found[c] = c => ~NamesToken(lockFile', c) \/ c \in careless'
    BY <1>1, Kinds DEF NamesToken, Names
  <2>3. NamesToken(lockFile', c) => NamesToken(lockFile, c)
    BY <1>3, Kinds DEF NamesToken
  <2> QED
    BY <1>1, <1>2, <1>5, <1>6, <2>1, <2>2, <2>3 DEF StartInv, Live, NamesToken, Waiting
<1>16. BarredInv'
  BY <1>1, <1>11, BarredKept DEF IInv, TypeInv
<1> QED
  BY <1>1, <1>3, <1>4, <1>10, <1>12, <1>14, <1>15, <1>16, MovesInside, Kinds DEF NamesToken

LEMMA CleanStateKeeps ==
  ASSUME IInv, NEW c \in Command, CleanState(c), Grow PROVE IInv'
<1>1. /\ UNCHANGED <<lockFile, stopFile, status, found, told, barred, holder,
                     expired, reused, foreign>>
      /\ pc[c] = "cleanState" /\ Goto(c, "cleanStop")
      /\ c \in Process /\ \A u \in Starter : c # Daemon(u)
      /\ "cleanStop" \in Steps /\ "cleanStop" \in Critical /\ pc[c] \in Critical
      /\ \/ Names(stateFile, found[c]) /\ stateFile' = None
         \/ stateFile' = stateFile /\ (Names(stateFile, found[c]) => c \in careless')
  BY Kinds, StepNames
    DEF CleanState, At, memory, outside, GoOn, IInv, Critical, FailsFor
<1>2. /\ pc' \in [Process -> Steps] /\ pc'[c] = "cleanStop"
      /\ \A q \in Process \ {c} : pc'[q] = pc[q]
  BY <1>1, GotoStep DEF IInv
<1>3. stateFile' \in {stateFile, None}
  BY <1>1
<1>4. TypeInv'
  BY <1>1, <1>2, <1>3, Kinds DEF IInv, TypeInv, Grow
<1>5. /\ \A s \in Starter : (InLoop(s)' <=> InLoop(s)) /\ (Misjudged(s) => Misjudged(s)')
      /\ careless \subseteq careless'
  BY <1>1, <1>2, Kinds DEF InLoop, At, Misjudged, Grow
<1>6. c \in Starter => StartInv(c)
  BY DEF IInv
<1>7. c \in Stopper => found[c] \in Record \cup {None} /\ found[c] # c /\ c \notin Starter
  BY Kinds DEF IInv, TypeInv
<1>8. SectionInv(c)
  BY <1>1 DEF IInv, FilesInv
<1>9. /\ found[c] # c => Quiet /\ found[c] \in Record /\ found[c] \notin Starter
      /\ found[c] = c => c \in Starter /\ (InLoop(c) => Misjudged(c))
  BY <1>1, <1>6, <1>7, <1>8, Kinds DEF SectionInv, Command, StartInv, Live, InLoop, At, Gone
<1>10. RunningDaemonIsFindable'
  <2>1. ASSUME NEW s \in Starter, InLoop(s), ~Misjudged(s)
        PROVE  stateFile' = stateFile
    <3>1. found[c] = c /\ c \in Starter /\ s # c
      BY <1>9, <2>1 DEF Quiet
    <3>2. stateFile \in {InService(s), Invalid, None}
      BY <2>1 DEF IInv, FilesInv, RunningDaemonIsFindable, InService
    <3>3. ~Names(stateFile, found[c])
      BY <3>1, <3>2, Records, Kinds DEF Names
    <3> QED
      BY <1>1, <3>3
  <2>2. RunningDaemonIsFindable
    BY DEF IInv, FilesInv
  <2> QED
    BY <1>1, <1>5, <2>1, <2>2 DEF RunningDaemonIsFindable
<1>11. stateFile' \in Record => stateFile' = stateFile
  BY <1>3, Kinds
<1>12. StartHasNoState'
  BY <1>1, <1>5, <1>11 DEF IInv, FilesInv, StartHasNoState
<1>13. c \in Starter /\ found[c] # c => stateFile' \notin Record \/ c \in careless'
  <2>1. CASE stateFile \notin Record \/ c \in careless
    BY <1>3, <1>5, <2>1, Kinds
  <2>2. CASE found[c] # c /\ stateFile = found[c] /\ stateFile \in Record
    <3>1. Names(stateFile, found[c])
      BY <1>9, <2>2 DEF Names
    <3> QED
      BY <1>1, <3>1, Kinds
  <2> QED
    BY <1>1, <1>8, <2>1, <2>2 DEF SectionInv
<1>14. SectionInv(c)'
  <2>1. Quiet => Quiet'
    BY <1>5 DEF Quiet
  <2>2. c \in Stopper => PassesNoStart(c)'
    BY <1>1, <1>5, <1>8 DEF SectionInv, PassesNoStart
  <2> QED
    BY <1>1, <1>2, <1>5, <1>8, <1>13, <2>1, <2>2 DEF SectionInv
<1>15. c \in Starter => StartInv(c)'
  <2>1. c \in Starter => pc'[Daemon(c)] = pc[Daemon(c)]
    BY <1>1, <1>2, Kinds
  <2>2. c \in Starter /\ found[c] = c => ~NamesToken(stateFile', c) \/ c \in careless'
    BY <1>1, Kinds DEF NamesToken, Names
  <2>3. NamesToken(stateFile', c) => NamesToken(stateFile, c)
    BY <1>3, Kinds DEF NamesToken
  <2> QED
    BY <1>1, <1>2, <1>5, <1>6, <2>1, <2>2, <2>3 DEF StartInv, Live, NamesToken, Waiting
<1>16. BarredInv'
  BY <1>1, BarredKept
<1> QED
  BY <1>1, <1>3, <1>4, <1>10, <1>12, <1>14, <1>15, <1>16, MovesInside, Kinds DEF NamesToken

(* A start that goes on to create its lock.                                *)
LEMMA GoesOnToCreate ==
  ASSUME IInv, NEW s \in Starter, pc[s] \in Critical, Goto(s, "create"), GoOn, Grow,
         RunningDaemonIsFindable', stateFile' \notin Record \/ s \in careless',
         stateFile' \in {stateFile, None},
         stopFile' \in Starter \cup {None}, UNCHANGED <<memory, reused, foreign>>,
         lockFile' \in {lockFile, None}, expired' \in BOOLEAN,
         pc[Daemon(s)] = "none", found[s] # s
  PROVE  IInv'
<1>1. /\ s \in Process /\ s \in Command /\ s \notin Stopper
      /\ \A u \in Starter : s # Daemon(u)
      /\ "create" \in Steps /\ "create" \in Critical
      /\ UNCHANGED <<status, found, told, barred, holder>>
  BY Kinds, StepNames DEF memory, GoOn, Critical
<1>2. /\ pc' \in [Process -> Steps] /\ pc'[s] = "create"
      /\ \A q \in Process \ {s} : pc'[q] = pc[q]
  BY <1>1, GotoStep DEF IInv
<1>3. TypeInv'
  BY <1>1, <1>2, Kinds DEF IInv, TypeInv, Grow
<1>4. /\ \A u \in Starter : lockFile' = Starting(u) => lockFile' = lockFile
      /\ stateFile' \in Record => stateFile' = stateFile
  BY Kinds, Records
<1>5. StartHasNoState'
  BY <1>4 DEF IInv, FilesInv, StartHasNoState, Grow
<1>6. SectionInv(s)'
  BY <1>1, <1>2 DEF SectionInv, IInv, FilesInv
<1>7. StartInv(s)'
  BY <1>1, <1>2, Kinds DEF IInv, StartInv, Waiting, Live, Critical, Gone
<1>8. BarredInv'
  BY <1>1, <1>4, BarredKept DEF IInv, TypeInv
<1> QED
  BY <1>1, <1>3, <1>5, <1>6, <1>7, <1>8, MovesInside, Kinds DEF NamesToken

LEMMA CleanStopKeeps ==
  ASSUME IInv, NEW c \in Command, CleanStop(c), Grow PROVE IInv'
<1>1. /\ UNCHANGED <<lockFile, stateFile, memory, outside, status, found, expired,
                     reused, foreign>>
      /\ pc[c] = "cleanStop" /\ pc[c] \in Critical /\ Live(c)
      /\ stopFile' \in Starter \cup {None}
      /\ c \in Process /\ \A u \in Starter : c # Daemon(u)
  BY Kinds DEF CleanStop, memory, outside, At, IInv, TypeInv, Critical, Live, Gone
<1>2. SectionInv(c) /\ (c \in Starter => StartInv(c) /\ c \notin Stopper)
  BY <1>1, Kinds DEF IInv, FilesInv
<1>3. found[c] # c => Quiet
  BY <1>1, <1>2 DEF SectionInv
<1>4. c \in Stopper => c \notin Starter /\ Quiet /\ PassesNoStart(c)
  BY <1>1, <1>2, <1>3, Kinds DEF IInv, TypeInv, SectionInv
<1>5. /\ \A s \in Starter : Misjudged(s) => Misjudged(s)'
      /\ careless \subseteq careless'
      /\ Quiet => NoneOverlooked
  BY DEF Quiet, NoneOverlooked, Misjudged, Grow
<1>6. CASE c \in Starter /\ found[c] = c /\ End(c, "failed")
  BY <1>1, <1>2, <1>5, <1>6, EndsOutside DEF Replies, StartInv
<1>7. CASE c \in Starter /\ found[c] # c /\ Goto(c, "create") /\ GoOn
  <2>1. (stateFile \notin Record \/ c \in careless) /\ pc[Daemon(c)] = "none"
    BY <1>1, <1>2, <1>3, <1>7 DEF SectionInv, StartInv
  <2>2. \A s \in Starter : InLoop(s)' => InLoop(s)
    BY <1>1, <1>7, GotoStep, StepNames, Kinds DEF InLoop, At, IInv, Critical
  <2>3. RunningDaemonIsFindable'
    BY <1>1, <1>5, <2>2 DEF IInv, FilesInv, RunningDaemonIsFindable
  <2> QED
    BY <1>1, <1>5, <1>7, <2>1, <2>3, GoesOnToCreate DEF IInv, TypeInv
<1>8. ASSUME NEW answer \in {"notRunning", "stopped"}, c \in Stopper, End(c, answer)
      PROVE  IInv'
  <2>1. \/ c \in careless'
        \/ NoneOverlooked /\ \A s \in Starter : lockFile = Starting(s) => s \in careless'
    BY <1>4, <1>5, <1>8 DEF PassesNoStart
  <2> QED
    BY <1>1, <1>8, <2>1, EndsSaying DEF Replies
<1>9. CASE c \in Stopper /\ Goto(c, "cleanInvalid") /\ GoOn
  <2>1. "cleanInvalid" \in Critical /\ "cleanInvalid" \in Steps
    BY StepNames DEF Critical
  <2>2. /\ pc'[c] = "cleanInvalid" /\ holder' = holder
        /\ \A q \in Process \ {c} : pc'[q] = pc[q]
    BY <1>1, <1>9, <2>1, GotoStep DEF IInv, GoOn
  <2>3. Quiet'
    BY <1>1, <1>4, <1>5, <1>9, <2>2, Kinds DEF Quiet, InLoop, At
  <2>4. PassesNoStart(c)'
    BY <1>1, <1>4, <1>5, <1>9 DEF PassesNoStart
  <2>5. SectionInv(c)'
    BY <1>1, <1>2, <1>4, <1>9, <2>2, <2>3, <2>4 DEF SectionInv
  <2>6. /\ status' \in [Stopper -> {"running", "unverified", "stale", None}]
        /\ found' \in [Command -> Record \cup Starter \cup {None}]
        /\ found'[c] \in Record \cup {None}
    BY <1>1, <1>9 DEF IInv, TypeInv
  <2> QED
    BY <1>1, <1>4, <1>9, <2>1, <2>5, <2>6, StaysInside
<1>10. CASE AfterCleanup(c)
  BY <1>6, <1>7, <1>8, <1>10 DEF AfterCleanup
<1> QED
  BY <1>9, <1>10 DEF CleanStop

LEMMA CleanInvalidKeeps ==
  ASSUME IInv, NEW c \in Command, CleanInvalid(c), Grow PROVE IInv'
<1>1. /\ UNCHANGED <<lockFile, memory, outside, status, found, expired, reused, foreign>>
      /\ pc[c] = "cleanInvalid" /\ pc[c] \in Critical /\ Live(c)
      /\ stateFile' \in {stateFile, None} /\ stopFile' \in Starter \cup {None}
      /\ c \in Process /\ AfterCleanup(c)
  BY Kinds DEF CleanInvalid, memory, outside, At, IInv, TypeInv, Critical, Live, Gone
<1>2. SectionInv(c) /\ (c \in Starter => StartInv(c) /\ c \notin Stopper)
  BY <1>1, Kinds DEF IInv, FilesInv
<1>3. /\ \A s \in Starter : Misjudged(s) => Misjudged(s)'
      /\ careless \subseteq careless'
      /\ NoneOverlooked \/ c \in careless'
  BY <1>1, <1>2 DEF SectionInv, Quiet, NoneOverlooked, Misjudged, Grow
<1>4. c \in Starter => found[c] # c /\ pc[Daemon(c)] = "none"
  BY <1>1, <1>2 DEF StartInv
<1>5. CASE c \in Starter /\ Goto(c, "create") /\ GoOn
  <2>1. stateFile' \notin Record \/ c \in careless'
    BY <1>1, <1>2, <1>3, <1>4, <1>5, Kinds DEF SectionInv
  <2>2. \A s \in Starter : InLoop(s)' => InLoop(s)
    BY <1>1, <1>5, GotoStep, StepNames, Kinds DEF InLoop, At, IInv, Critical
  <2>3. RunningDaemonIsFindable'
    BY <1>1, <1>3, <2>2
      DEF IInv, FilesInv, RunningDaemonIsFindable, NoneOverlooked
  <2> QED
    BY <1>1, <1>4, <1>5, <2>1, <2>3, GoesOnToCreate DEF IInv, TypeInv
<1>6. ASSUME NEW answer \in {"notRunning", "stopped"}, c \in Stopper, End(c, answer)
      PROVE  IInv'
  <2>1. \/ c \in careless'
        \/ NoneOverlooked /\ \A s \in Starter : lockFile = Starting(s) => s \in careless'
    BY <1>1, <1>2, <1>3, <1>6 DEF SectionInv, PassesNoStart
  <2> QED
    BY <1>1, <1>6, <2>1, EndsSaying DEF Replies
<1> QED
  BY <1>1, <1>4, <1>5, <1>6 DEF AfterCleanup

-----------------------------------------------------------------------------
(* A start creates its lock.                                               *)
LEMMA StartsQuietly ==
  ASSUME IInv, NEW s \in Starter, pc[s] \in {"create", "fill"}
  PROVE  /\ s \in Process /\ s \in Command /\ s \notin Stopper
         /\ \A u \in Starter : s # Daemon(u)
         /\ pc[s] \in Critical /\ Live(s) /\ holder = s
         /\ pc[s] = "fill" \/ lockFile = None => Quiet
         /\ stateFile \notin Record \/ s \in careless
         /\ pc[Daemon(s)] = "none"
         /\ found[s] # s /\ (s \in barred => Excused(s))
<1>1. pc[s] \in Critical /\ Live(s) /\ s \in Process
  BY Kinds DEF Critical, Live, Gone
<1>2. lockFile = None => Quiet
  BY Kinds, Records DEF IInv, FilesInv, RunningDaemonIsFindable, InService, Quiet
<1> QED
  BY <1>1, <1>2, Kinds DEF IInv, FilesInv, SectionInv, StartInv, BarredInv, Excused

LEMMA CreateLockKeeps ==
  ASSUME IInv, NEW s \in Starter, CreateLock(s), Grow PROVE IInv'
<1>1. /\ pc[s] = "create" /\ lockFile = None /\ lockFile' = Invalid /\ Goto(s, "fill")
      /\ UNCHANGED <<stateFile, stopFile, status, found, told, barred, holder, expired,
                     reused, foreign>>
      /\ "fill" \in Steps /\ "fill" \in Critical
  BY StepNames DEF CreateLock, At, memory, outside, GoOn, Critical
<1>2. /\ s \in Process /\ s \in Command /\ s \notin Stopper
      /\ \A u \in Starter : s # Daemon(u)
      /\ pc[s] \in Critical /\ holder = s /\ Quiet
      /\ stateFile \notin Record \/ s \in careless
      /\ pc[Daemon(s)] = "none" /\ found[s] # s
  BY <1>1, StartsQuietly
<1>3. /\ pc' \in [Process -> Steps] /\ pc'[s] = "fill"
      /\ \A q \in Process \ {s} : pc'[q] = pc[q]
  BY <1>1, <1>2, GotoStep DEF IInv
<1>4. TypeInv'
  BY <1>1, <1>2, <1>3, Kinds DEF IInv, TypeInv, Grow
<1>5. Quiet' /\ careless \subseteq careless'
  BY <1>2, <1>3, Kinds DEF Quiet, InLoop, At, Misjudged, Grow
<1>6. RunningDaemonIsFindable' /\ StartHasNoState'
  BY <1>1, <1>5, Kinds, Records DEF Quiet, RunningDaemonIsFindable, StartHasNoState
<1>7. SectionInv(s)'
  BY <1>1, <1>2, <1>3, <1>5 DEF SectionInv
<1>8. StartInv(s)'
  BY <1>1, <1>2, <1>3, Kinds DEF IInv, StartInv, Waiting, Live
<1>9. BarredInv'
  BY <1>1, <1>2, BarredKept, Kinds, Records DEF IInv, TypeInv
<1> QED
  BY <1>1, <1>2, <1>4, <1>6, <1>7, <1>8, <1>9, MovesInside, Kinds DEF NamesToken

LEMMA StartLockExistsKeeps ==
  ASSUME IInv, NEW s \in Starter, StartLockExists(s), Grow PROVE IInv'
<1>1. /\ pc[s] = "create"
      /\ UNCHANGED <<stateFile, stopFile, memory, reused, foreign>>
  BY DEF StartLockExists, At
<1>2. /\ s \in Process /\ s \in Command /\ pc[s] \in Critical /\ Live(s)
      /\ stateFile \notin Record \/ s \in careless
      /\ pc[Daemon(s)] = "none" /\ found[s] # s
      /\ stopFile' \in Starter \cup {None}
  BY <1>1, StartsQuietly DEF IInv, TypeInv
<1>3. CASE /\ lockFile' = None /\ expired' = FALSE /\ pc' = pc /\ GoOn
           /\ lockFile \in Record
           /\ lockFile.mode = "starting" \/ IsRunning(PidOf(lockFile), FALSE)
  <2>1. Goto(s, "create")
    BY <1>1, <1>2, <1>3 DEF Goto, IInv, TypeInv
  <2>2. ASSUME NEW u \in Starter, InLoop(u)' PROVE Misjudged(u)'
    <3>1. InLoop(u)
      BY <1>3, <2>2 DEF InLoop, At
    <3>2. Misjudged(u) \/ lockFile = InService(u)
      BY <3>1 DEF IInv, FilesInv, RunningDaemonIsFindable, InService
    <3>3. CASE lockFile = InService(u)
      <4>1. /\ lockFile.mode = "running" /\ PidOf(lockFile) = Daemon(u)
            /\ IsRunning(Daemon(u), FALSE) /\ Daemon(u) \in Process
        BY <1>3, <3>3, Records, Kinds DEF PidOf
      <4>2. ~Live(Daemon(u)) \/ Daemon(u) \in unchecked'
        BY <4>1, Checked, Zenon DEF IInv
      <4> QED
        BY <3>1, <4>2 DEF InLoop, At, Live, Gone, Misjudged
    <3> QED
      BY <3>2, <3>3 DEF Misjudged, Grow
  <2>3. RunningDaemonIsFindable'
    BY <2>2 DEF RunningDaemonIsFindable
  <2>4. careless \subseteq careless'
    BY DEF Grow
  <2> QED
    BY <1>1, <1>2, <1>3, <2>1, <2>3, <2>4, GoesOnToCreate
<1>4. CASE End(s, "refused") /\ UNCHANGED <<lockFile, expired>>
  BY <1>1, <1>2, <1>4, EndsOutside DEF Replies, outside
<1> QED
  BY <1>3, <1>4 DEF StartLockExists

LEMMA FillLockKeeps ==
  ASSUME IInv, NEW s \in Starter, FillLock(s), Grow PROVE IInv'
<1>1. /\ pc[s] = "fill"
      /\ UNCHANGED <<stateFile, stopFile, status, expired, reused, foreign>>
      /\ lockFile' \in {Invalid, Starting(s)}
      /\ Starting(s) \in Record /\ Starting(s).token = s
  BY Records DEF FillLock, At, outside, Starting
<1>2. /\ s \in Process /\ s \in Command /\ s \notin Stopper
      /\ \A u \in Starter : s # Daemon(u)
      /\ pc[s] \in Critical /\ holder = s /\ Quiet
      /\ stateFile \notin Record \/ s \in careless
      /\ pc[Daemon(s)] = "none" /\ found[s] # s /\ (s \in barred => Excused(s))
  BY <1>1, StartsQuietly
<1>3. \A u \in Starter \ {s} : ~NamesToken(lockFile', u) /\ lockFile' # Starting(u)
  BY <1>1, Kinds, Records DEF NamesToken
<1>4. ASSUME NEW x \in Steps \ ({"none", "kill", "loop", "reacquire"} \cup Enters), Goto(s, x),
             found' \in [Command -> Record \cup Starter \cup {None}],
             found'[s] \in Record \cup {None, s},
             told' \in [Command -> Replies \cup {None}],
             holder' \in {holder, None}, barred' = barred,
             \A d \in Command \ {s} : found'[d] = found[d] /\ told'[d] = told[d],
             SectionInv(s)', StartInv(s)'
      PROVE  IInv'
  <2>1. /\ pc' \in [Process -> Steps] /\ pc'[s] = x
        /\ \A q \in Process \ {s} : pc'[q] = pc[q]
    BY <1>2, <1>4, GotoStep DEF IInv
  <2>2. TypeInv'
    BY <1>1, <1>2, <1>4, <2>1, Kinds DEF IInv, TypeInv, Grow
  <2>3. Quiet'
    BY <1>2, <1>4, <2>1, Kinds DEF Quiet, InLoop, At, Misjudged, Grow
  <2>4. RunningDaemonIsFindable' /\ StartHasNoState'
    BY <1>1, <1>2, <1>3, <2>3 DEF Quiet, RunningDaemonIsFindable, StartHasNoState, Grow
  <2>5. BarredInv'
    BY <1>2, <1>3, <1>4, BarredKept DEF IInv, TypeInv
  <2> QED
    BY <1>1, <1>2, <1>3, <1>4, <2>2, <2>4, <2>5, MovesInside DEF NamesToken
<1>5. CASE /\ found' = [found EXCEPT ![s] = s] /\ Goto(s, "spawn") /\ GoOn
  <2>1. /\ "spawn" \in Steps \ ({"none", "kill", "loop", "reacquire"} \cup Enters)
        /\ "spawn" \in Critical
    BY StepNames DEF Critical
  <2>2. /\ pc'[s] = "spawn" /\ \A q \in Process \ {s} : pc'[q] = pc[q]
        /\ UNCHANGED <<told, holder, barred>>
        /\ told' \in [Command -> Replies \cup {None}]
    BY <1>2, <1>5, <2>1, GotoStep DEF IInv, TypeInv, GoOn
  <2>3. /\ found' \in [Command -> Record \cup Starter \cup {None}] /\ found'[s] = s
        /\ \A d \in Command \ {s} : found'[d] = found[d]
    BY <1>2, <1>5 DEF IInv, TypeInv
  <2>4. Quiet' /\ careless \subseteq careless'
    BY <1>2, <2>2, Kinds DEF Quiet, InLoop, At, Misjudged, Grow
  <2>5. SectionInv(s)'
    BY <1>1, <1>2, <2>2, <2>3, <2>4 DEF SectionInv
  <2>6. StartInv(s)'
    BY <1>1, <1>2, <2>2, <2>3, Kinds DEF IInv, StartInv, Waiting, Live
  <2> QED
    BY <1>4, <1>5, <2>1, <2>2, <2>3, <2>5, <2>6
<1>6. CASE End(s, "failed") /\ UNCHANGED found
  <2>1. /\ "ended" \in Steps \ ({"none", "kill", "loop", "reacquire"} \cup Enters)
        /\ "ended" \notin Critical
    BY StepNames DEF Outside, Gone
  <2>2. /\ Goto(s, "ended") /\ told' \in [Command -> Replies \cup {None}]
        /\ told'[s] = "failed" /\ \A d \in Command \ {s} : told'[d] = told[d]
        /\ holder' \in {holder, None} /\ barred' = barred
    BY <1>2, <1>6, EndStep DEF IInv, Replies
  <2>3. /\ pc'[s] = "ended" /\ \A q \in Process \ {s} : pc'[q] = pc[q]
    BY <1>2, <2>1, <2>2, GotoStep DEF IInv
  <2>4. SectionInv(s)'
    BY <1>2, <2>3 DEF SectionInv, Critical
  <2>5. StartInv(s)'
    BY <1>2, <1>6, <2>2, <2>3, Kinds DEF IInv, StartInv, Waiting, Live
  <2>6. /\ found' \in [Command -> Record \cup Starter \cup {None}]
        /\ found'[s] \in Record \cup {None, s}
        /\ \A d \in Command \ {s} : found'[d] = found[d]
    BY <1>6 DEF IInv, TypeInv
  <2> QED
    BY <1>4, <2>1, <2>2, <2>4, <2>5, <2>6
<1> QED
  BY <1>5, <1>6 DEF FillLock

-----------------------------------------------------------------------------
(* A daemon enters its loop.                                               *)
LEMMA EntersQuietly ==
  ASSUME IInv, NEW s \in Starter, pc[Daemon(s)] \in Enters
  PROVE  /\ Daemon(s) \in Process /\ Daemon(s) \notin Command
         /\ Daemon(s) \notin Starter /\ Daemon(s) \notin Stopper
         /\ \A u \in Starter : Daemon(u) = Daemon(s) => u = s
         /\ pc[Daemon(s)] \in Critical /\ holder = Daemon(s)
         /\ Quiet /\ SectionInv(Daemon(s)) /\ (s \in barred => Excused(s))
         /\ Starting(s) \in Record /\ InService(s) \in Record
         /\ \A u \in Starter : Starting(u) # InService(s)
         /\ \A u \in Starter \ {s} : ~NamesToken(InService(s), u)
         /\ NamesToken(Starting(s), s) /\ NamesToken(InService(s), s)
<1>1. pc[Daemon(s)] \in Critical
  BY DEF Critical
<1> QED
  BY <1>1, Kinds, Records DEF IInv, FilesInv, SectionInv, BarredInv, NamesToken, Excused

LEMMA WriteLockKeeps ==
  ASSUME IInv, NEW s \in Starter, WriteLock(s), Grow PROVE IInv'
<1>1. PICK x \in {"writeState", "broken"} :
        /\ Goto(Daemon(s), x) /\ holder' \in {holder, None}
        /\ x = "writeState" => lockFile' = InService(s) /\ holder' = holder
  <2>1. CASE lockFile' = InService(s) /\ Goto(Daemon(s), "writeState") /\ holder' = holder
    BY <2>1
  <2>2. CASE EndDaemon(s, "broken")
    BY <2>2 DEF EndDaemon, Dropped
  <2> QED
    BY <2>1, <2>2 DEF WriteLock, InService
<1>2. /\ lockFile' \in {lockFile, InService(s)} /\ expired' \in BOOLEAN
      /\ UNCHANGED <<stateFile, stopFile, status, found, told, barred, reused, foreign>>
      /\ pc[Daemon(s)] = "writeLock"
  BY DEF WriteLock, InService, At, memory, IInv, TypeInv
<1>3. /\ Daemon(s) \in Process /\ Daemon(s) \notin Command
      /\ Daemon(s) \notin Starter /\ Daemon(s) \notin Stopper
      /\ \A u \in Starter : Daemon(u) = Daemon(s) => u = s
      /\ pc[Daemon(s)] \in Critical /\ holder = Daemon(s)
      /\ Quiet /\ (s \in barred => Excused(s)) /\ lockFile = Starting(s)
      /\ Starting(s) \in Record /\ InService(s) \in Record
      /\ \A u \in Starter : Starting(u) # InService(s)
      /\ \A u \in Starter : NamesToken(InService(s), u) => NamesToken(Starting(s), u)
  BY <1>2, EntersQuietly DEF SectionInv
<1>4. /\ x \in Steps \ {"none", "kill", "loop", "reacquire"}
      /\ x = "broken" => x \notin Critical
  BY StepNames DEF Critical, Outside, Gone
<1>5. /\ pc' \in [Process -> Steps] /\ pc'[Daemon(s)] = x
      /\ \A q \in Process \ {Daemon(s)} : pc'[q] = pc[q]
  BY <1>1, <1>3, <1>4, GotoStep DEF IInv
<1>6. TypeInv'
  BY <1>1, <1>2, <1>3, <1>4, <1>5, Kinds DEF IInv, TypeInv, Grow
<1>7. Quiet'
  BY <1>3, <1>4, <1>5, Kinds DEF Quiet, InLoop, At, Misjudged, Grow
<1>8. RunningDaemonIsFindable'
  BY <1>7 DEF Quiet, RunningDaemonIsFindable
<1>9. StartHasNoState'
  <2>1. \A u \in Starter : lockFile' = Starting(u) => lockFile = Starting(u)
    BY <1>2, <1>3
  <2> QED
    BY <1>2, <2>1 DEF IInv, FilesInv, StartHasNoState, Grow
<1>10. SectionInv(Daemon(s))'
  BY <1>1, <1>3, <1>4, <1>5, <1>7 DEF SectionInv, Critical
<1>11. BarredInv'
  BY <1>1, <1>2, <1>3, <1>4, BarredKept DEF IInv, TypeInv
<1>12. \A u \in Starter : /\ NamesToken(lockFile', u) => NamesToken(lockFile, u)
                          /\ NamesToken(stateFile', u) => NamesToken(stateFile, u)
  BY <1>2, <1>3
<1> QED
  BY <1>1, <1>2, <1>3, <1>4, <1>6, <1>8, <1>9, <1>10, <1>11, <1>12, MovesInside

LEMMA WriteStateKeeps ==
  ASSUME IInv, NEW s \in Starter, WriteState(s), Grow PROVE IInv'
<1>1. PICK x \in {"loop", "broken"} :
        /\ Goto(Daemon(s), x) /\ holder' \in {holder, None}
        /\ x = "loop" => stateFile' = InService(s)
  <2>1. CASE stateFile' = InService(s) /\ EndDaemon(s, "loop")
    BY <2>1 DEF EndDaemon, Dropped
  <2>2. CASE EndDaemon(s, "broken")
    BY <2>2 DEF EndDaemon, Dropped
  <2> QED
    BY <2>1, <2>2 DEF WriteState, InService
<1>2. /\ stateFile' \in {stateFile, InService(s)}
      /\ UNCHANGED <<lockFile, stopFile, status, found, told, barred, expired, reused, foreign>>
      /\ pc[Daemon(s)] = "writeState"
  BY DEF WriteState, InService, At, memory, outside
<1>3. /\ Daemon(s) \in Process /\ Daemon(s) \notin Command
      /\ Daemon(s) \notin Starter /\ Daemon(s) \notin Stopper
      /\ \A u \in Starter : Daemon(u) = Daemon(s) => u = s
      /\ pc[Daemon(s)] \in Critical /\ SectionInv(Daemon(s))
      /\ Quiet /\ (s \in barred => Excused(s))
      /\ \A u \in Starter : Starting(u) # InService(s)
  BY <1>2, EntersQuietly
<1>4. /\ x \in Steps \ {"none", "kill", "reacquire"} /\ x \notin Critical
  BY StepNames DEF Critical, Outside, Gone, Steps
<1>5. /\ pc' \in [Process -> Steps] /\ pc'[Daemon(s)] = x
      /\ \A q \in Process \ {Daemon(s)} : pc'[q] = pc[q]
  BY <1>1, <1>3, <1>4, GotoStep DEF IInv
<1>6. TypeInv'
  BY <1>1, <1>2, <1>3, <1>4, <1>5, Kinds DEF IInv, TypeInv, Grow
<1>7. lockFile = InService(s)
  BY <1>2, <1>3 DEF SectionInv
<1>8. RunningDaemonIsFindable'
  <2>1. \A u \in Starter : InLoop(u)' => Misjudged(u)' \/ (u = s /\ x = "loop")
    BY <1>3, <1>5, Kinds DEF Quiet, InLoop, At, Misjudged, Grow
  <2> QED
    BY <1>1, <1>2, <1>7, <2>1 DEF RunningDaemonIsFindable, InService
<1>9. StartHasNoState'
  BY <1>2, <1>3, <1>7 DEF StartHasNoState
<1>10. SectionInv(Daemon(s))'
  BY <1>3, <1>4, <1>5 DEF SectionInv, Critical
<1>11. BarredInv'
  BY <1>1, <1>2, <1>3, <1>4, BarredKept DEF IInv, TypeInv
<1>12. \A u \in Starter :
         /\ NamesToken(lockFile', u) => NamesToken(lockFile, u)
         /\ NamesToken(stateFile', u) => NamesToken(stateFile, u) \/ NamesToken(lockFile, u)
  BY <1>2, <1>7
<1> QED
  BY <1>1, <1>2, <1>3, <1>4, <1>6, <1>8, <1>9, <1>10, <1>11, <1>12, MovesInside

-----------------------------------------------------------------------------
LEMMA InitIInv == Init => IInv
<1> SUFFICES ASSUME Init PROVE IInv
  OBVIOUS
<1>1. \A p \in Process : /\ p \in Command => pc[p] = "acquire"
                         /\ p \notin Command => pc[p] = "none"
  BY DEF Init
<1>2. \A s \in Starter : pc[s] = "acquire" /\ pc[Daemon(s)] = "none"
                         /\ found[s] = None /\ told[s] = None /\ s # None
  BY <1>1, Kinds DEF Init, Process, Command
<1>3. {"acquire", "none"} \subseteq Steps /\ "acquire" \notin Critical /\ "none" \notin Critical
  BY StepNames DEF Outside, Waiting, Steps
<1>4. TypeInv
  BY <1>3, Kinds DEF Init, TypeInv
<1>5. \A s \in Starter : ~InLoop(s) /\ lockFile # Starting(s)
  BY <1>2, Kinds, Records DEF InLoop, At, Init
<1>6. FilesInv
  BY <1>1, <1>3, <1>5
    DEF FilesInv, RunningDaemonIsFindable, StartHasNoState, SectionInv, Critical
<1>7. \A s \in Starter : StartInv(s)
  BY <1>2, Kinds DEF StartInv, Waiting, Live
<1>8. BarredInv /\ ReusedInv
  BY <1>1, Kinds DEF BarredInv, ReusedInv, Init
<1> QED
  BY <1>4, <1>6, <1>7, <1>8 DEF IInv

(* No step takes back what it has recorded of a failure.                   *)
LEMMA NextGrows ==
  ASSUME IInv, [Next]_vars
  PROVE  Grow
<1> TypeInv
  BY DEF IInv
<1>1. CASE UNCHANGED failures
  BY <1>1, Failing
<1>2. ASSUME NEW ps, NEW cs, ps \subseteq Process, cs \subseteq Command, FailsFor(ps, cs)
      PROVE  Grow
  BY <1>2, Failing
<1>3. CASE Fails
  BY <1>3, <1>2 DEF Fails
<1>4. ASSUME NEW p \in Process, NEW b, IsRunning(p, b) PROVE Grow
  BY <1>4, Checked
<1>5. ASSUME NEW c \in Command, NEW st, NEW r, Inspect(c, st, r) PROVE Grow
  <2>1. CASE UNCHANGED failures
    BY <1>1, <2>1
  <2>2. CASE ~UNCHANGED failures
    <3>1. PICK ps \in {{}, {PidOf(r)}}, cs \in {{}, {c}} :
            FailsFor(ps, cs) /\ (ps = {} \/ r \in Record)
      BY <1>5, <2>2 DEF Inspect
    <3>2. ps \subseteq Process /\ cs \subseteq Command
      BY <3>1, Kinds
    <3> QED
      BY <1>2, <3>1, <3>2
  <2> QED
    BY <2>1, <2>2
<1>6. ASSUME NEW c \in Command, CommandStep(c) PROVE Grow
  BY <1>1, <1>2, <1>3, <1>6
    DEF CommandStep, Acquire, CleanLock, CleanState, CleanStop, CleanInvalid
<1>7. ASSUME NEW s \in Starter, StarterStep(s) PROVE Grow
  <2>1. CASE StartLockExists(s)
    <3>1. CASE lockFile \in Record /\ IsRunning(PidOf(lockFile), FALSE)
      BY <1>4, <3>1, Kinds
    <3> QED
      BY <1>1, <2>1, <3>1 DEF StartLockExists
  <2>2. CASE FailedStartEndsDaemon(s) \/ ForegroundReturns(s)
    <3>1. {Daemon(s)} \subseteq Process
      BY Kinds
    <3> QED
      BY <1>1, <1>2, <2>2, <3>1 DEF FailedStartEndsDaemon, ForegroundReturns
  <2> QED
    BY <1>1, <1>3, <1>5, <1>6, <1>7, <2>1, <2>2, Kinds
      DEF StarterStep, PrepareStart, CreateLock, CreateFails, FillLock, Spawn,
          WaitForRunning, StartFails, FailedStartRequestsStop
<1>8. ASSUME NEW s \in Starter, DaemonStep(s) PROVE Grow
  BY <1>1, <1>3, <1>8
    DEF DaemonStep, Acquire, Validate, WriteLock, WriteState, StopRequested
<1>9. ASSUME NEW t \in Stopper, StopperStep(t) PROVE Grow
  <2>1. CASE StopFindsNoDirectory(t)
    BY <1>2, <2>1, Kinds DEF StopFindsNoDirectory
  <2>2. CASE AwaitStop(t) \/ VerifyIdentity(t) \/ AwaitKilled(t)
    <3>1. pc[t] \in Stopping
      BY <2>2 DEF AwaitStop, VerifyIdentity, AwaitKilled, At
    <3>2. PidOf(found[t]) \in Process /\ {PidOf(found[t])} \subseteq Process
      BY <3>1, Kinds DEF IInv, FilesInv, SectionInv
    <3>3. CASE \E b : IsRunning(PidOf(found[t]), b)
      BY <1>4, <3>2, <3>3
    <3>4. CASE FailsFor({PidOf(found[t])}, {})
      BY <1>2, <3>2, <3>4
    <3> QED
      BY <1>1, <2>2, <3>3, <3>4 DEF AwaitStop, VerifyIdentity, AwaitKilled
  <2> QED
    BY <1>1, <1>3, <1>5, <1>6, <1>9, <2>1, <2>2, Kinds
      DEF StopperStep, InspectToStop, RequestStop, RereadState, Terminate
<1> QED
  BY <1>1, <1>3, <1>7, <1>8, <1>9
    DEF Next, Age, AcquireGivesUp, Crash, Reuse, CorruptState, vars

LEMMA NextIInv == IInv /\ [Next]_vars => IInv'
<1> SUFFICES ASSUME IInv, [Next]_vars PROVE IInv'
  OBVIOUS
<1> Grow
  BY NextGrows
<1>1. ASSUME NEW c \in Command, CommandStep(c) PROVE IInv'
  BY <1>1, Kinds, AcquireKeeps, CleanLockKeeps, CleanStateKeeps, CleanStopKeeps,
     CleanInvalidKeeps DEF CommandStep
<1>2. ASSUME NEW s \in Starter, StarterStep(s) PROVE IInv'
  BY <1>1, <1>2, Kinds, PrepareStartKeeps, CreateLockKeeps, StartLockExistsKeeps,
     CreateFailsKeeps, FillLockKeeps, SpawnKeeps, WaitForRunningKeeps, StartFailsKeeps,
     FailedStartRequestsStopKeeps, FailedStartEndsDaemonKeeps, ForegroundReturnsKeeps
     DEF StarterStep
<1>3. ASSUME NEW s \in Starter, DaemonStep(s) PROVE IInv'
  BY <1>3, Kinds, AcquireKeeps, ValidateKeeps, WriteLockKeeps, WriteStateKeeps,
     StopRequestedKeeps DEF DaemonStep
<1>4. ASSUME NEW t \in Stopper, StopperStep(t) PROVE IInv'
  BY <1>1, <1>4, Kinds, StopFindsNoDirectoryKeeps, InspectToStopKeeps, RequestStopKeeps,
     AwaitStopKeeps,
     RereadStateKeeps, VerifyIdentityKeeps, TerminateKeeps, AwaitKilledKeeps
     DEF StopperStep
<1>5. CASE UNCHANGED vars
  <2>1. UNCHANGED <<lockFile, stateFile, stopFile, holder, pc, status, found, told, expired,
                    reused, foreign, barred>>
    BY <1>5 DEF vars, files, memory, outside
  <2>2. FilesInv'
    BY <2>1, FilesOutside DEF IInv, memory
  <2>3. \A s \in Starter : StartInv(s)'
    BY <2>1 DEF IInv, StartInv, NamesToken, Live, Misjudged, Grow
  <2> QED
    BY <2>1, <2>2, <2>3 DEF IInv, TypeInv, BarredInv, ReusedInv, Misjudged, Grow
<1> QED
  BY <1>2, <1>3, <1>4, <1>5, AgeKeeps, AcquireGivesUpKeeps, CrashKeeps, ReuseKeeps,
     CorruptStateKeeps DEF Next

LEMMA Inductive == Spec => []IInv
BY InitIInv, NextIInv, PTL DEF Spec

-----------------------------------------------------------------------------
(***************************************************************************)
(* However many start, run and stop commands interleave, and whatever dies *)
(* or fails in between, two daemons are in their loops only if one of them *)
(* was taken for gone by a check that could not be made.                   *)
(***************************************************************************)
THEOREM OneDaemon == Spec => []AtMostOneDaemon
<1>1. IInv => AtMostOneDaemon
  <2> SUFFICES ASSUME IInv, NEW r \in Starter, NEW s \in Starter, InLoop(r), InLoop(s),
                      ~Misjudged(r), ~Misjudged(s)
               PROVE  r = s
    BY DEF AtMostOneDaemon
  <2>1. lockFile = InService(r) /\ lockFile = InService(s)
    BY DEF IInv, FilesInv, RunningDaemonIsFindable, InService
  <2> QED
    BY <2>1, Records
<1> QED
  BY <1>1, Inductive, PTL

(***************************************************************************)
(* A daemon in its loop that was not taken for gone can be found: nobody's *)
(* cleanup removes its lock, nor its state, unless a command could not     *)
(* read it.                                                                *)
(***************************************************************************)
THEOREM Findable == Spec => []RunningDaemonIsFindable
<1>1. IInv => RunningDaemonIsFindable
  BY DEF IInv, FilesInv
<1> QED
  BY <1>1, Inductive, PTL

(***************************************************************************)
(* When stop has reported that the daemon is stopped, or not running, no   *)
(* daemon spawned until then is in its loop or will ever be, unless it was *)
(* taken for gone or a file could not be looked up, read or removed.       *)
(***************************************************************************)
THEOREM StaysStopped == Spec => []StoppedStaysStopped
<1>1. IInv => StoppedStaysStopped
  BY DEF IInv, BarredInv, StoppedStaysStopped, InLoop, At
<1> QED
  BY <1>1, Inductive, PTL

(***************************************************************************)
(* A start that reports a failure leaves no daemon, unless it could not    *)
(* wait for its end, and no file that names one, unless it never took      *)
(* daemon.lock, could not lock to clean up, or met a file that it could    *)
(* not read or remove.                                                     *)
(***************************************************************************)
THEOREM NothingLeft == Spec => []FailedStartLeavesNothing
<1>1. IInv => FailedStartLeavesNothing
  BY DEF IInv, StartInv, FailedStartLeavesNothing, NamesToken
<1> QED
  BY <1>1, Inductive, PTL

(***************************************************************************)
(* If no pid is reused between the check of an identity and the signal,    *)
(* which the code cannot prevent, only daemons are signalled.              *)
(***************************************************************************)
THEOREM DaemonsSignalled == ~InstantReuse => (Spec => []OnlyDaemonsAreSignalled)
<1> SUFFICES ASSUME ~InstantReuse PROVE Spec => []OnlyDaemonsAreSignalled
  OBVIOUS
<1>1. IInv => OnlyDaemonsAreSignalled
  BY DEF IInv, ReusedInv, OnlyDaemonsAreSignalled
<1> QED
  BY <1>1, Inductive, PTL

=============================================================================
