--------------------------- MODULE SoeCycleProofs ---------------------------
(***************************************************************************)
(* Proofs about SoeCycle: every line is logged once and the forecast chain *)
(* holds, for every set of processes, weeks and requests.  Only the lease's *)
(* holder writes, so the invariant says what the holder knows: the log it  *)
(* read is the log, what is owed is still before it, and the lines it has  *)
(* queued are the ones the log misses.                                     *)
(***************************************************************************)
EXTENDS SoeCycle, WellFoundedInduction, SequenceTheorems, TLAPS

-----------------------------------------------------------------------------
(* The invariant.                                                          *)

Pcs == {"idle", "start", "resume", "claim", "stages", "freeze",
        "candidates", "episodes", "forecast"}

FileLines == Weeks \X Nat

LogLines == [cycle: Weeks, at: Nat, prev: Nat]

\* The dirs and the logs.
StoreTypes ==
    /\ status \in [Weeks -> {"absent", "open", "frozen"}]
    /\ sealed \in [Weeks -> [at: Nat, prev: Nat, size: Nat]]
    /\ candidates \in Seq(FileLines) /\ episodes \in Seq(FileLines)
    /\ forecast \in Seq(LogLines)

\* The lease and the runs.
RunTypes ==
    /\ holder \in Procs \cup {NoOne}
    /\ pc \in [Procs -> Pcs]
    /\ ask \in [Procs -> Asks]
    /\ lines \in [Procs -> Seq(LogLines)]
    /\ todo \in [Procs -> SUBSET Weeks]
    /\ queue \in [Procs -> SUBSET FileLines]

\* Frozen cycles whose line is not in the forecast log yet.
Owed == {w \in Weeks : status[w] = "frozen" /\ ~Holds(forecast, w)}

\* The log only holds frozen cycles, and at most one more waits for its line.
OneOwed ==
    /\ \A i \in DOMAIN forecast : status[forecast[i].cycle] = "frozen"
    /\ \A v, w \in Owed : v = w

\* Where the run stands with the forecast log.
KnowsLog(p) ==
    /\ pc[p] \notin {"idle", "start"} => lines[p] = forecast
    /\ pc[p] = "resume" => Owed \subseteq todo[p]
    /\ pc[p] \in {"claim", "stages", "freeze"} =>
         /\ Owed = {} /\ todo[p] = {}
         /\ forecast # <<>> => ask[p].at >= Last(forecast).at
    /\ pc[p] \in {"stages", "freeze"} => status[ask[p].week] = "open"
    /\ pc[p] \in {"candidates", "episodes", "forecast"} => InHand(p) \in Owed

\* Which lines of the cycle in hand the run still has to append.
KnowsLines(p) ==
    LET own == Own(InHand(p)) IN
    /\ pc[p] = "candidates" =>
         /\ queue[p] = own \ ToSet(candidates)
         /\ ~Resuming(p) => own \cap ToSet(episodes) = {}
    /\ pc[p] = "episodes" => queue[p] = own \ ToSet(episodes)
    /\ pc[p] \in {"episodes", "forecast"} => own \subseteq ToSet(candidates)
    /\ pc[p] = "forecast" => own \subseteq ToSet(episodes)

HolderKnows == \A p \in Procs : holder = p => KnowsLog(p) /\ KnowsLines(p)

-----------------------------------------------------------------------------
(* The operators.                                                          *)

\* The least number of a set of naturals is one of them.
LEMMA MinIsIn ==
    ASSUME NEW S \in SUBSET Nat, S # {}
    PROVE  Min(S) \in S /\ \A y \in S : Min(S) <= y
<1>1. \E x \in S : \A y \in S : ~(<<y, x>> \in OpToRel(<, Nat))
  BY WFMin, NatLessThanWellFounded
<1>2. \E x \in S : \A y \in S : x <= y
  <2>1. PICK x \in S : \A y \in S : ~(<<y, x>> \in OpToRel(<, Nat))
    BY <1>1
  <2>2. ASSUME NEW y \in S PROVE x <= y
    <3>1. ~(y < x)
      BY <2>1 DEF OpToRel
    <3> QED BY <3>1
  <2> QED BY <2>2
<1> QED BY <1>2 DEF Min

\* The first of a set of numbered lines is one of them.
LEMMA FirstIsIn ==
    ASSUME NEW q \in SUBSET FileLines, q # {}
    PROVE  FirstOf(q) \in q
<1> DEFINE N == {l[2] : l \in q}
<1>1. N \subseteq Nat /\ N # {}
  BY DEF FileLines
<1>2. Min(N) \in N /\ \A y \in N : Min(N) <= y
  BY <1>1, MinIsIn
<1>3. PICK l \in q : l[2] = Min(N)
  BY <1>2
<1>4. \E x \in q : \A m \in q : x[2] <= m[2]
  BY <1>2, <1>3
<1> QED BY <1>4 DEF FirstOf

\* Appending to a log.
LEMMA AppendTo ==
    ASSUME NEW T, NEW s \in Seq(T), NEW x \in T
    PROVE  /\ Append(s, x) \in Seq(T) /\ Append(s, x) # <<>> /\ Last(Append(s, x)) = x
           /\ ToSet(Append(s, x)) = ToSet(s) \cup {x}
           /\ NoRepeats(s) /\ x \notin ToSet(s) => NoRepeats(Append(s, x))
           /\ DOMAIN Append(s, x) = 1..Len(s) + 1 /\ DOMAIN s = 1..Len(s)
           /\ Append(s, x)[Len(s) + 1] = x /\ \A i \in 1..Len(s) : Append(s, x)[i] = s[i]
<1>1. /\ DOMAIN Append(s, x) = 1..Len(s) + 1 /\ DOMAIN s = 1..Len(s) /\ Len(Append(s, x)) = Len(s) + 1
      /\ Append(s, x)[Len(s) + 1] = x /\ \A i \in 1..Len(s) : Append(s, x)[i] = s[i]
      /\ Len(s) \in Nat
  OBVIOUS
<1>2. Append(s, x) \in Seq(T) /\ Append(s, x) # <<>> /\ Last(Append(s, x)) = x
  <2>1. Append(s, x) \in Seq(T) /\ Append(s, x) # <<>>
    BY <1>1, AppendProperties
  <2>2. Last(Append(s, x)) = x
    BY <1>1 DEF Last
  <2> QED BY <2>1, <2>2
<1>3. ToSet(Append(s, x)) = ToSet(s) \cup {x}
  <2>1. 1..Len(s) + 1 = (1..Len(s)) \cup {Len(s) + 1}
    BY <1>1
  <2> QED BY <1>1, <2>1 DEF ToSet
<1>4. ASSUME NoRepeats(s), x \notin ToSet(s) PROVE NoRepeats(Append(s, x))
  <2>1. \A i \in 1..Len(s) : s[i] # x
    BY <1>1, <1>4 DEF ToSet
  <2> QED BY <1>1, <1>4, <2>1 DEF NoRepeats
<1> QED BY <1>1, <1>2, <1>3, <1>4

\* What the run takes in hand is a week, and what it may append is a line.
LEMMA InHandWeek ==
    ASSUME RunTypes, NEW p \in Procs
    PROVE  /\ InHand(p) \in Weeks /\ ask[p] \in Asks /\ ask[p].week \in Weeks /\ ask[p].at \in Nat
           /\ Resuming(p) => InHand(p) \in todo[p]
           /\ ~Resuming(p) => InHand(p) = ask[p].week
<1>0. ask[p] \in Asks /\ todo[p] \subseteq Weeks
  BY DEF RunTypes
<1>1. ask[p] \in Asks /\ ask[p].week \in Weeks /\ ask[p].at \in Nat
  BY <1>0, SoeAssumption
<1>3. todo[p] \subseteq Weeks /\ todo[p] \subseteq Nat
  BY <1>0, SoeAssumption
<1>2. Resuming(p) => Min(todo[p]) \in todo[p]
  BY <1>3, MinIsIn DEF Resuming
<1> QED BY <1>1, <1>2, <1>3 DEF InHand, Resuming

LEMMA OwnLines ==
    ASSUME StoreTypes, NEW w \in Weeks
    PROVE  Own(w) \subseteq FileLines /\ Line(w) \in LogLines /\ (\A l \in Own(w) : l[1] = w)
           /\ Line(w).cycle = w /\ Line(w).at = sealed[w].at /\ Line(w).prev = sealed[w].prev
<1>1. sealed[w] \in [at: Nat, prev: Nat, size: Nat]
  BY DEF StoreTypes
<1> QED BY <1>1 DEF Own, Line, FileLines, LogLines

LEMMA LoggedLines ==
    ASSUME StoreTypes
    PROVE  /\ DOMAIN forecast = 1..Len(forecast) /\ Len(forecast) \in Nat
           /\ \A i \in DOMAIN forecast :
                 /\ forecast[i] \in LogLines /\ forecast[i].cycle \in Weeks
                 /\ forecast[i].cycle \in Nat /\ forecast[i].at \in Nat
           /\ \A l \in ToSet(candidates) \cup ToSet(episodes) : l \in FileLines /\ l[1] \in Weeks
<1>1. DOMAIN forecast = 1..Len(forecast) /\ Len(forecast) \in Nat /\ \A i \in DOMAIN forecast : forecast[i] \in LogLines
  BY DEF StoreTypes
<1>2. \A i \in DOMAIN forecast : forecast[i].cycle \in Weeks /\ forecast[i].at \in Nat
  BY <1>1 DEF LogLines
<1>3. \A w \in Weeks : w \in Nat
  BY SoeAssumption
<1>4. ASSUME NEW s \in Seq(FileLines), NEW l \in ToSet(s) PROVE l \in FileLines /\ l[1] \in Weeks
  <2>1. PICK i \in DOMAIN s : l = s[i]
    BY <1>4 DEF ToSet
  <2>2. s[i] \in FileLines
    OBVIOUS
  <2> QED BY <2>1, <2>2 DEF FileLines
<1> QED BY <1>1, <1>2, <1>3, <1>4 DEF StoreTypes

LEMMA TipIsNat ==
    ASSUME NEW ls \in Seq(LogLines)
    PROVE  /\ Tip(ls) \in Nat
           /\ ls # <<>> => Last(ls) \in LogLines /\ Last(ls).at \in Nat /\ Last(ls) = ls[Len(ls)] /\ Len(ls) \in DOMAIN ls
<1>1. ls # <<>> => Last(ls) \in LogLines /\ Last(ls) = ls[Len(ls)] /\ Len(ls) \in DOMAIN ls
  BY DEF Last
<1>2. ls # <<>> => Last(ls).at \in Nat
  BY <1>1 DEF LogLines
<1> QED BY <1>1, <1>2, SoeAssumption DEF Tip, GENESIS, LogLines

-----------------------------------------------------------------------------
(* Types.                                                                  *)

LEMMA OverTypes ==
    ASSUME RunTypes, NEW p \in Procs, Over(p), holder' \in Procs \cup {NoOne}
    PROVE  RunTypes'
<1>1. NoAsk \in Asks
  BY SoeAssumption DEF NoAsk
<1>2. <<>> \in Seq(LogLines)
  OBVIOUS
<1> QED BY <1>1, <1>2 DEF RunTypes, Over, Pcs

LEMMA TypesStep == StoreTypes /\ RunTypes /\ [Next]_vars => StoreTypes' /\ RunTypes'
<1> SUFFICES ASSUME StoreTypes, RunTypes, [Next]_vars PROVE StoreTypes' /\ RunTypes'
  OBVIOUS
<1>s. UNCHANGED <<dirs, logs>> => StoreTypes'
  BY DEF StoreTypes, dirs, logs
<1>1. ASSUME NEW p \in Procs, End(p), UNCHANGED <<dirs, logs>> PROVE StoreTypes' /\ RunTypes'
  <2>1. holder' \in Procs \cup {NoOne} /\ Over(p)
    BY <1>1 DEF End, RunTypes
  <2> QED BY <1>s, <1>1, <2>1, OverTypes
<1>2. ASSUME NEW p \in Procs, Crash(p) PROVE StoreTypes' /\ RunTypes'
  <2>1. holder' \in Procs \cup {NoOne} /\ Over(p) /\ UNCHANGED <<dirs, logs>>
    BY <1>2 DEF Crash, RunTypes, leaseVars
  <2> QED BY <1>s, <2>1, OverTypes
<1>3. ASSUME NEW p \in Procs, NEW a \in Asks, Begin(p, a) PROVE StoreTypes' /\ RunTypes'
  <2>1. RunTypes'
    BY <1>3 DEF Begin, RunTypes, Pcs
  <2> QED BY <1>s, <1>3, <2>1 DEF Begin
<1>4. ASSUME NEW p \in Procs, Start(p) PROVE StoreTypes' /\ RunTypes'
  <2>1. CASE verify_chain(forecast)
    <3>1. cycles \subseteq Weeks /\ forecast \in Seq(LogLines)
      BY DEF cycles, StoreTypes
    <3>2. RunTypes'
      BY <1>4, <2>1, <3>1 DEF Start, RunTypes, Pcs, leaseVars
    <3> QED BY <1>s, <1>4, <3>2 DEF Start
  <2>2. CASE ~verify_chain(forecast)
    BY <1>1, <1>4, <2>2 DEF Start
  <2> QED BY <2>1, <2>2
<1>5. ASSUME NEW p \in Procs, ResumeSkips(p) PROVE StoreTypes' /\ RunTypes'
  <2>1. RunTypes'
    BY <1>5 DEF ResumeSkips, RunTypes, leaseVars
  <2> QED BY <1>s, <1>5, <2>1 DEF ResumeSkips
<1>6. ASSUME NEW p \in Procs, ResumeFinds(p) PROVE StoreTypes' /\ RunTypes'
  <2>1. CASE Line(InHand(p)).prev # Tip(lines[p])
    BY <1>1, <1>6, <2>1 DEF ResumeFinds
  <2>2. CASE Line(InHand(p)).prev = Tip(lines[p])
    <3>1. Missing(InHand(p), candidates) \subseteq FileLines
      BY InHandWeek, OwnLines DEF Missing
    <3>2. RunTypes'
      BY <1>6, <2>2, <3>1 DEF ResumeFinds, RunTypes, Pcs, leaseVars
    <3> QED BY <1>s, <1>6, <3>2 DEF ResumeFinds
  <2> QED BY <2>1, <2>2
<1>7. ASSUME NEW p \in Procs, preflight(p) PROVE StoreTypes' /\ RunTypes'
  <2>1. CASE Refused(p)
    BY <1>1, <1>7, <2>1 DEF preflight
  <2>2. CASE ~Refused(p)
    <3>1. RunTypes'
      BY <1>7, <2>2 DEF preflight, RunTypes, Pcs, leaseVars, runVars
    <3> QED BY <1>s, <1>7, <3>1 DEF preflight
  <2> QED BY <2>1, <2>2
<1>8. ASSUME NEW p \in Procs, claim(p) PROVE StoreTypes' /\ RunTypes'
  <2>1. RunTypes'
    BY <1>8 DEF claim, Ensure, RunTypes, Pcs, runVars
  <2>2. StoreTypes'
    BY <1>8, InHandWeek DEF claim, StoreTypes, logs
  <2> QED BY <2>1, <2>2
<1>9. ASSUME NEW p \in Procs, Stages(p) PROVE StoreTypes' /\ RunTypes'
  <2>1. RunTypes'
    BY <1>9 DEF Stages, Ensure, RunTypes, Pcs, runVars
  <2> QED BY <1>s, <1>9, <2>1 DEF Stages
<1>10. ASSUME NEW p \in Procs, NEW n \in 0..MaxLines, Freeze(p, n) PROVE StoreTypes' /\ RunTypes'
  <2>0. n \in Nat /\ ask[p].week \in Weeks /\ ask[p].at \in Nat /\ Tip(lines[p]) \in Nat
    BY SoeAssumption, InHandWeek, TipIsNat DEF RunTypes
  <2>1. RunTypes'
    <3>1. {<<ask[p].week, i>> : i \in 1..n} \subseteq FileLines
      BY <2>0 DEF FileLines
    <3> QED BY <1>10, <3>1 DEF Freeze, Sealed, Ensure, RunTypes, Pcs
  <2>2. StoreTypes'
    <3>1. [at |-> ask[p].at, prev |-> Tip(lines[p]), size |-> n] \in [at: Nat, prev: Nat, size: Nat]
      BY <2>0
    <3> QED BY <1>10, <2>0, <3>1 DEF Freeze, Sealed, StoreTypes, logs
  <2> QED BY <2>1, <2>2
<1>11. ASSUME NEW p \in Procs, AppendLine(p) PROVE StoreTypes' /\ RunTypes'
  <2>0. FirstOf(queue[p]) \in FileLines
    BY <1>11, FirstIsIn DEF AppendLine, RunTypes
  <2>1. RunTypes'
    BY <1>11 DEF AppendLine, Ensure, RunTypes
  <2>2. StoreTypes'
    <3>1. /\ Append(candidates, FirstOf(queue[p])) \in Seq(FileLines)
          /\ Append(episodes, FirstOf(queue[p])) \in Seq(FileLines)
      BY <2>0 DEF StoreTypes
    <3>2. candidates' \in Seq(FileLines) /\ episodes' \in Seq(FileLines)
      BY <1>11, <3>1 DEF AppendLine, StoreTypes
    <3> QED BY <1>11, <3>2 DEF AppendLine, StoreTypes, dirs
  <2> QED BY <2>1, <2>2
<1>12. ASSUME NEW p \in Procs, NextLog(p) PROVE StoreTypes' /\ RunTypes'
  <2>0. Missing(InHand(p), episodes) \subseteq FileLines /\ Own(InHand(p)) \subseteq FileLines
    BY InHandWeek, OwnLines DEF Missing
  <2>1. RunTypes'
    BY <1>12, <2>0 DEF NextLog, RunTypes, Pcs, leaseVars
  <2> QED BY <1>s, <1>12, <2>1 DEF NextLog
<1>13. ASSUME NEW p \in Procs, AppendForecast(p) PROVE StoreTypes' /\ RunTypes'
  <2>0. Line(InHand(p)) \in LogLines /\ lines[p] \in Seq(LogLines)
    BY InHandWeek, OwnLines DEF RunTypes
  <2>1. StoreTypes'
    <3>1. Append(forecast, Line(InHand(p))) \in Seq(LogLines)
      BY <2>0 DEF StoreTypes
    <3> QED BY <1>13, <3>1 DEF AppendForecast, StoreTypes, dirs
  <2>2. CASE Resuming(p)
    <3>1. Append(lines[p], Line(InHand(p))) \in Seq(LogLines)
      BY <2>0
    <3>2. RunTypes'
      <4>1. /\ lines' = [lines EXCEPT ![p] = Append(lines[p], Line(InHand(p)))]
            /\ todo' = [todo EXCEPT ![p] = todo[p] \ {InHand(p)}]
            /\ pc' = [pc EXCEPT ![p] = "resume"] /\ UNCHANGED <<ask, queue, holder>>
        BY <1>13, <2>2 DEF AppendForecast, Ensure
      <4>2. lines' \in [Procs -> Seq(LogLines)]
        BY <3>1, <4>1 DEF RunTypes
      <4>3. todo' \in [Procs -> SUBSET Weeks] /\ pc' \in [Procs -> Pcs]
        BY <4>1 DEF RunTypes, Pcs
      <4> QED BY <4>1, <4>2, <4>3 DEF RunTypes
    <3> QED BY <2>1, <3>2
  <2>3. CASE ~Resuming(p)
    <3>1. End(p)
      BY <1>13, <2>3 DEF AppendForecast
    <3>2. holder' \in Procs \cup {NoOne} /\ Over(p)
      BY <3>1 DEF End, RunTypes
    <3> QED BY <2>1, <3>2, OverTypes
  <2> QED BY <2>2, <2>3
<1>14. ASSUME NEW p \in Procs, LeaseLost(p) \/ Fail(p) PROVE StoreTypes' /\ RunTypes'
  BY <1>1, <1>14 DEF LeaseLost, Fail
<1>15. CASE Expire
  <2>1. RunTypes'
    BY <1>15 DEF Expire, RunTypes, runVars
  <2> QED BY <1>s, <1>15, <2>1 DEF Expire
<1>16. ASSUME NEW w \in Weeks, MoveAside(w) PROVE StoreTypes' /\ RunTypes'
  <2>1. RunTypes'
    BY <1>16 DEF MoveAside, RunTypes, runVars, leaseVars
  <2>2. StoreTypes'
    BY <1>16 DEF MoveAside, StoreTypes, logs
  <2> QED BY <2>1, <2>2
<1>17. CASE UNCHANGED vars
  <2>1. RunTypes'
    BY <1>17 DEF vars, RunTypes, runVars, leaseVars
  <2> QED BY <1>s, <1>17, <2>1 DEF vars
<1> QED
  BY <1>2, <1>3, <1>4, <1>5, <1>6, <1>7, <1>8, <1>9, <1>10, <1>11, <1>12, <1>13, <1>14, <1>15, <1>16, <1>17
     DEF Next, RunStep

-----------------------------------------------------------------------------
(* Steps that write nothing.                                               *)

Facts == OneOwed /\ HolderKnows /\ EachLineOnce /\ ChainHolds

\* p's neighbours are as they were.
OthersSame(p) ==
    \A q \in Procs \ {p} : /\ pc'[q] = pc[q] /\ ask'[q] = ask[q] /\ lines'[q] = lines[q]
                           /\ todo'[q] = todo[q] /\ queue'[q] = queue[q]

LEMMA StoreSame ==
    ASSUME UNCHANGED <<dirs, logs>>
    PROVE  /\ Owed' = Owed /\ \A w : Own(w)' = Own(w)
           /\ OneOwed => OneOwed'
           /\ EachLineOnce => EachLineOnce'
           /\ ChainHolds => ChainHolds'
<1>1. Owed' = Owed
  BY DEF Owed, Holds, dirs, logs
<1>2. \A w : Own(w)' = Own(w)
  BY DEF Own, dirs
<1>3. OneOwed => OneOwed'
  BY <1>1 DEF OneOwed, dirs, logs
<1>4. EachLineOnce => EachLineOnce'
  BY <1>2 DEF EachLineOnce, dirs, logs
<1>5. ChainHolds => ChainHolds'
  BY DEF ChainHolds, Holds, dirs, logs
<1> QED BY <1>1, <1>2, <1>3, <1>4, <1>5

LEMMA KnowsSame ==
    ASSUME NEW q \in Procs, UNCHANGED <<dirs, logs>>, KnowsLog(q), KnowsLines(q),
           pc'[q] = pc[q], ask'[q] = ask[q], lines'[q] = lines[q], todo'[q] = todo[q], queue'[q] = queue[q]
    PROVE  KnowsLog(q)' /\ KnowsLines(q)'
<1>1. Owed' = Owed /\ InHand(q)' = InHand(q) /\ Own(InHand(q))' = Own(InHand(q)) /\ Resuming(q)' = Resuming(q)
  BY StoreSame DEF InHand, Resuming, Own, dirs
<1>2. KnowsLog(q)'
  BY <1>1 DEF KnowsLog, dirs, logs
<1>3. KnowsLines(q)'
  BY <1>1 DEF KnowsLines, logs
<1> QED BY <1>2, <1>3

\* A step that writes nothing: only what p knows has to be looked at.
LEMMA OnlyRunMoves ==
    ASSUME Facts, NEW p \in Procs, UNCHANGED <<dirs, logs>>, OthersSame(p),
           holder' \in {p, NoOne, holder}, holder' = p => KnowsLog(p)' /\ KnowsLines(p)'
    PROVE  Facts'
<1>1. OneOwed' /\ EachLineOnce' /\ ChainHolds'
  BY StoreSame DEF Facts
<1>2. ASSUME NEW q \in Procs, holder' = q PROVE KnowsLog(q)' /\ KnowsLines(q)'
  <2>1. CASE q = p
    BY <1>2, <2>1
  <2>2. CASE q # p
    <3>1. holder = q
      BY <1>2, <2>2, SoeAssumption
    <3>2. KnowsLog(q) /\ KnowsLines(q)
      BY <3>1 DEF Facts, HolderKnows
    <3> QED BY <2>2, <3>2, KnowsSame DEF OthersSame
  <2> QED BY <2>1, <2>2
<1> QED BY <1>1, <1>2 DEF Facts, HolderKnows

\* A run that is over, or has not read anything yet, has nothing to know.
LEMMA KnowsNothing ==
    ASSUME NEW p \in Procs, pc'[p] \in {"idle", "start"}
    PROVE  KnowsLog(p)' /\ KnowsLines(p)'
  BY DEF KnowsLog, KnowsLines

LEMMA EndKeeps ==
    ASSUME RunTypes, Facts, NEW p \in Procs, End(p) \/ (Over(p) /\ holder' = holder), UNCHANGED <<dirs, logs>>
    PROVE  Facts'
<1>1. OthersSame(p) /\ pc'[p] = "idle"
  BY DEF End, Over, OthersSame, RunTypes
<1>2. holder' \in {p, NoOne, holder}
  BY DEF End
<1> QED BY <1>1, <1>2, OnlyRunMoves, KnowsNothing

LEMMA ReadingStep ==
    ASSUME StoreTypes, RunTypes, Facts, NEW p \in Procs,
           Start(p) \/ ResumeSkips(p) \/ ResumeFinds(p) \/ preflight(p)
    PROVE  Facts'
<1>0. pc \in [Procs -> Pcs] /\ lines \in [Procs -> Seq(LogLines)] /\ todo \in [Procs -> SUBSET Weeks]
      /\ queue \in [Procs -> SUBSET FileLines] /\ ask \in [Procs -> Asks]
  BY DEF RunTypes
<1>1. UNCHANGED <<dirs, logs>>
  BY DEF Start, ResumeSkips, ResumeFinds, preflight
<1>2. CASE End(p)
  BY <1>1, <1>2, EndKeeps
<1>3. CASE ~End(p)
  <2>1. OthersSame(p) /\ holder' = holder
    <3>1. CASE Start(p)
      BY <1>0, <1>3, <3>1 DEF Start, OthersSame, leaseVars
    <3>2. CASE ResumeSkips(p)
      BY <1>0, <3>2 DEF ResumeSkips, OthersSame, leaseVars
    <3>3. CASE ResumeFinds(p)
      BY <1>0, <1>3, <3>3 DEF ResumeFinds, OthersSame, leaseVars
    <3>4. CASE preflight(p)
      BY <1>0, <1>3, <3>4 DEF preflight, OthersSame, leaseVars, runVars
    <3> QED BY <3>1, <3>2, <3>3, <3>4
  <2>2. ASSUME holder = p PROVE KnowsLog(p)' /\ KnowsLines(p)'
    <3>0. KnowsLog(p) /\ KnowsLines(p) /\ Owed' = Owed
      BY <1>1, <2>2, StoreSame DEF Facts, HolderKnows
    <3>1. CASE Start(p)
      <4>1. pc'[p] = "resume" /\ lines'[p] = forecast /\ todo'[p] = cycles
        BY <1>0, <1>3, <3>1 DEF Start
      <4>2. Owed \subseteq cycles
        BY DEF Owed, cycles
      <4> QED BY <1>1, <3>0, <4>1, <4>2 DEF KnowsLog, KnowsLines, logs
    <3>2. CASE ResumeSkips(p)
      <4>1. pc'[p] = "resume" /\ pc[p] = "resume" /\ lines'[p] = lines[p] /\ todo'[p] = todo[p] \ {InHand(p)}
        BY <1>0, <3>2 DEF ResumeSkips
      <4>2. lines[p] = forecast /\ Owed \subseteq todo[p]
        BY <3>0, <4>1 DEF KnowsLog
      <4>3. InHand(p) \notin Owed
        BY <3>2, <4>2 DEF ResumeSkips, Owed
      <4> QED BY <1>1, <3>0, <4>1, <4>2, <4>3 DEF KnowsLog, KnowsLines, logs
    <3>3. CASE ResumeFinds(p)
      <4>1. pc'[p] = "candidates" /\ pc[p] = "resume" /\ lines'[p] = lines[p] /\ todo'[p] = todo[p] /\ ask'[p] = ask[p]
            /\ queue'[p] = Own(InHand(p)) \ ToSet(candidates) /\ Resuming(p)
        BY <1>0, <1>3, <3>3 DEF ResumeFinds, Missing
      <4>2. lines[p] = forecast /\ InHand(p) \in Owed
        BY <3>0, <3>3, <4>1, InHandWeek DEF KnowsLog, ResumeFinds, Owed
      <4>3. InHand(p)' = InHand(p) /\ Resuming(p)' /\ Own(InHand(p))' = Own(InHand(p))
        BY <1>1, <4>1 DEF InHand, Resuming, Own, dirs
      <4>4. KnowsLog(p)'
        BY <1>1, <3>0, <4>1, <4>2, <4>3 DEF KnowsLog, logs
      <4>5. KnowsLines(p)'
        BY <1>1, <4>1, <4>3 DEF KnowsLines, logs
      <4> QED BY <4>4, <4>5
    <3>4. CASE preflight(p)
      <4>1. pc'[p] = "claim" /\ pc[p] = "resume" /\ lines'[p] = lines[p] /\ todo'[p] = todo[p] /\ ask'[p] = ask[p]
            /\ todo[p] = {} /\ ~Refused(p)
        BY <1>0, <1>3, <3>4 DEF preflight, Resuming, runVars
      <4>2. lines[p] = forecast /\ Owed = {}
        BY <3>0, <4>1 DEF KnowsLog
      <4>3. forecast # <<>> => ask[p].at >= Last(forecast).at
        <5>1. forecast # <<>> => Last(forecast).at \in Nat
          BY TipIsNat DEF StoreTypes
        <5> QED BY <4>1, <4>2, <5>1, InHandWeek DEF Refused
      <4> QED BY <1>1, <3>0, <4>1, <4>2, <4>3 DEF KnowsLog, KnowsLines, logs
    <3> QED BY <3>1, <3>2, <3>3, <3>4
  <2> QED BY <1>1, <2>1, <2>2, OnlyRunMoves
<1> QED BY <1>2, <1>3

LEMMA NextLogStep ==
    ASSUME StoreTypes, RunTypes, Facts, NEW p \in Procs, NextLog(p)
    PROVE  Facts'
<1>0. pc \in [Procs -> Pcs] /\ queue \in [Procs -> SUBSET FileLines]
  BY DEF RunTypes
<1>1. /\ UNCHANGED <<dirs, logs, ask, lines, todo, holder>> /\ pc[p] \in {"candidates", "episodes"} /\ queue[p] = {}
      /\ pc'[p] \in {"episodes", "forecast"}
  BY <1>0 DEF NextLog, leaseVars
<1>2. OthersSame(p)
  BY <1>0 DEF NextLog, OthersSame
<1>3. ASSUME holder = p PROVE KnowsLog(p)' /\ KnowsLines(p)'
  <2>0. KnowsLog(p) /\ KnowsLines(p) /\ Owed' = Owed
    BY <1>1, <1>3, StoreSame DEF Facts, HolderKnows
  <2>1. InHand(p)' = InHand(p) /\ (Resuming(p)' <=> Resuming(p)) /\ Own(InHand(p))' = Own(InHand(p))
    BY <1>1 DEF InHand, Resuming, Own, dirs
  <2>2. KnowsLog(p)'
    BY <1>1, <2>0, <2>1 DEF KnowsLog, logs
  <2>3. CASE pc[p] = "candidates"
    <3>1. /\ pc'[p] = "episodes"
          /\ queue'[p] = IF Resuming(p) THEN Own(InHand(p)) \ ToSet(episodes) ELSE Own(InHand(p))
      BY <1>0, <2>3 DEF NextLog, Missing
    <3>2. Own(InHand(p)) \subseteq ToSet(candidates) /\ (~Resuming(p) => Own(InHand(p)) \cap ToSet(episodes) = {})
      BY <1>1, <2>0, <2>3 DEF KnowsLines
    <3>3. queue'[p] = Own(InHand(p)) \ ToSet(episodes)
      BY <3>1, <3>2
    <3> QED BY <1>1, <2>1, <2>2, <3>1, <3>2, <3>3 DEF KnowsLines, logs
  <2>4. CASE pc[p] = "episodes"
    <3>1. pc'[p] = "forecast"
      BY <1>0, <2>4 DEF NextLog
    <3>2. Own(InHand(p)) \subseteq ToSet(candidates) /\ Own(InHand(p)) \subseteq ToSet(episodes)
      BY <1>1, <2>0, <2>4 DEF KnowsLines
    <3> QED BY <1>1, <2>1, <2>2, <3>1, <3>2 DEF KnowsLines, logs
  <2> QED BY <1>1, <2>3, <2>4
<1> QED BY <1>1, <1>2, <1>3, OnlyRunMoves

-----------------------------------------------------------------------------
(* Steps that write.                                                       *)

\* The holder writes: what anybody else knows does not matter.
LEMMA HolderWrites ==
    ASSUME NEW p \in Procs, holder' = p, KnowsLog(p)', KnowsLines(p)'
    PROVE  HolderKnows'
  BY DEF HolderKnows

\* A dir that was not frozen and is not frozen now: the logs do not see it.
LEMMA OpenDirs ==
    ASSUME StoreTypes, Facts, UNCHANGED <<sealed, logs>>, NEW w \in Weeks, status[w] # "frozen",
           status' = [status EXCEPT ![w] = "open"] \/ status' = [status EXCEPT ![w] = "absent"]
    PROVE  Owed' = Owed /\ OneOwed' /\ EachLineOnce' /\ ChainHolds' /\ \A v : Own(v)' = Own(v)
<1>0. \A v \in Weeks : status'[v] = "frozen" <=> status[v] = "frozen"
  BY DEF StoreTypes
<1>1. Owed' = Owed
  BY <1>0 DEF Owed, Holds, logs
<1>2. \A v : Own(v)' = Own(v)
  BY DEF Own
<1>3. OneOwed'
  <2>1. \A i \in DOMAIN forecast : forecast[i].cycle \in Weeks
    BY LoggedLines
  <2> QED BY <1>0, <1>1, <2>1 DEF Facts, OneOwed, logs
<1>4. EachLineOnce'
  <2>1. \A l \in ToSet(candidates) \cup ToSet(episodes) : l[1] \in Weeks
    BY LoggedLines
  <2>2. \A l \in ToSet(candidates) \cup ToSet(episodes) : status'[l[1]] = "frozen" /\ l \in Own(l[1])'
    BY <1>0, <1>2, <2>1 DEF Facts, EachLineOnce
  <2> QED BY <1>2, <2>2 DEF Facts, EachLineOnce, logs
<1>5. ChainHolds'
  BY <1>0 DEF Facts, ChainHolds, Holds, logs
<1> QED BY <1>1, <1>2, <1>3, <1>4, <1>5

LEMMA ClaimStep ==
    ASSUME StoreTypes, RunTypes, Facts, NEW p \in Procs, claim(p)
    PROVE  Facts'
<1>1. /\ holder = p /\ holder' = p /\ pc[p] = "claim" /\ UNCHANGED <<sealed, logs, ask, lines, todo, queue>>
      /\ status[ask[p].week] = "absent" /\ ask[p].week \in Weeks
      /\ status' = [status EXCEPT ![ask[p].week] = "open"] /\ pc'[p] = "stages"
  BY InHandWeek DEF claim, Ensure, runVars, RunTypes
<1>2. Owed' = Owed /\ OneOwed' /\ EachLineOnce' /\ ChainHolds'
  BY <1>1, OpenDirs
<1>3. KnowsLog(p)
  BY <1>1 DEF Facts, HolderKnows
<1>4. status'[ask[p].week] = "open"
  BY <1>1 DEF StoreTypes
<1>5. KnowsLog(p)'
  BY <1>1, <1>2, <1>3, <1>4 DEF KnowsLog, logs
<1>6. KnowsLines(p)'
  BY <1>1 DEF KnowsLines
<1> QED BY <1>1, <1>2, <1>5, <1>6, HolderWrites DEF Facts

LEMMA StagesStep ==
    ASSUME StoreTypes, RunTypes, Facts, NEW p \in Procs, Stages(p)
    PROVE  Facts'
<1>1. /\ holder = p /\ holder' = p /\ pc[p] = "stages" /\ UNCHANGED <<dirs, logs, ask, lines, todo, queue>>
      /\ pc'[p] = "freeze"
  BY DEF Stages, Ensure, runVars, RunTypes
<1>2. OthersSame(p)
  BY DEF Stages, runVars, RunTypes, OthersSame
<1>3. KnowsLog(p) /\ Owed' = Owed
  BY <1>1, StoreSame DEF Facts, HolderKnows
<1>4. KnowsLog(p)'
  BY <1>1, <1>3 DEF KnowsLog, logs, dirs
<1>5. KnowsLines(p)'
  BY <1>1 DEF KnowsLines
<1> QED BY <1>1, <1>2, <1>4, <1>5, OnlyRunMoves

LEMMA MoveAsideStep ==
    ASSUME StoreTypes, RunTypes, Facts, NEW w \in Weeks, MoveAside(w)
    PROVE  Facts'
<1>1. /\ UNCHANGED <<sealed, logs, ask, lines, todo, queue, pc, holder>> /\ status[w] = "open"
      /\ status' = [status EXCEPT ![w] = "absent"]
  BY DEF MoveAside, runVars, leaseVars
<1>2. Owed' = Owed /\ OneOwed' /\ EachLineOnce' /\ ChainHolds' /\ \A v : Own(v)' = Own(v)
  BY <1>1, OpenDirs
<1>3. ASSUME NEW p \in Procs, holder' = p PROVE KnowsLog(p)' /\ KnowsLines(p)'
  <2>1. KnowsLog(p) /\ KnowsLines(p)
    BY <1>1, <1>3 DEF Facts, HolderKnows
  <2>2. pc[p] \in {"stages", "freeze"} => status'[ask[p].week] = status[ask[p].week]
    BY <1>1, InHandWeek DEF MoveAside, StoreTypes
  <2>3. InHand(p)' = InHand(p) /\ (Resuming(p)' <=> Resuming(p)) /\ Own(InHand(p))' = Own(InHand(p))
    BY <1>1 DEF InHand, Resuming, Own
  <2>4. KnowsLog(p)'
    BY <1>1, <1>2, <2>1, <2>2, <2>3 DEF KnowsLog, logs
  <2>5. KnowsLines(p)'
    BY <1>1, <2>1, <2>3 DEF KnowsLines, logs
  <2> QED BY <2>4, <2>5
<1> QED BY <1>2, <1>3 DEF Facts, HolderKnows

LEMMA FreezeStep ==
    ASSUME StoreTypes, RunTypes, Facts, NEW p \in Procs, NEW n \in 0..MaxLines, Freeze(p, n)
    PROVE  Facts'
<1>0. PICK w : w = ask[p].week
  OBVIOUS
<1>1. /\ holder = p /\ holder' = p /\ pc[p] = "freeze" /\ UNCHANGED <<logs, ask, lines, todo>>
      /\ w \in Weeks /\ ask[p].at \in Nat /\ n \in Nat
  BY <1>0, InHandWeek, SoeAssumption DEF Freeze, Ensure
<1>2. /\ lines[p] = forecast /\ Owed = {} /\ todo[p] = {} /\ status[w] = "open"
      /\ forecast # <<>> => ask[p].at >= Last(forecast).at
  BY <1>0, <1>1 DEF Facts, HolderKnows, KnowsLog
<1>3. /\ status' = [status EXCEPT ![w] = "frozen"] /\ pc'[p] = "candidates"
      /\ sealed' = [sealed EXCEPT ![w] = [at |-> ask[p].at, prev |-> Tip(forecast), size |-> n]]
      /\ queue'[p] = {<<w, i>> : i \in 1..n}
  BY <1>0, <1>2 DEF Freeze, Sealed, RunTypes
<1>4. /\ status'[w] = "frozen" /\ sealed'[w] = [at |-> ask[p].at, prev |-> Tip(forecast), size |-> n]
      /\ \A v \in Weeks \ {w} : status'[v] = status[v] /\ sealed'[v] = sealed[v]
  BY <1>1, <1>3 DEF StoreTypes
<1>5. /\ \A v \in Weeks \ {w} : Own(v)' = Own(v)
      /\ Own(w)' = {<<w, i>> : i \in 1..n}
  BY <1>4 DEF Own
<1>6. ~Holds(forecast, w)
  BY <1>2 DEF Facts, OneOwed, Holds
<1>7. Owed' = {w}
  <2>1. \A v \in Weeks : v \in Owed' <=> v = w
    BY <1>1, <1>2, <1>4, <1>6 DEF Owed, logs, Holds
  <2> QED BY <1>1, <2>1 DEF Owed
<1>8. OneOwed'
  <2>1. \A i \in DOMAIN forecast : status'[forecast[i].cycle] = "frozen"
    BY <1>4, LoggedLines DEF Facts, OneOwed
  <2> QED BY <1>1, <1>7, <2>1 DEF OneOwed, logs
<1>9. \A l \in ToSet(candidates) \cup ToSet(episodes) : l[1] \in Weeks /\ status[l[1]] = "frozen" /\ l[1] # w
  BY <1>2, LoggedLines DEF Facts, EachLineOnce
<1>10. EachLineOnce'
  <2>1. \A l \in ToSet(candidates) \cup ToSet(episodes) : status'[l[1]] = "frozen" /\ l \in Own(l[1])'
    BY <1>4, <1>5, <1>9 DEF Facts, EachLineOnce
  <2>2. \A i \in DOMAIN forecast : Own(forecast[i].cycle)' \subseteq ToSet(candidates) \cap ToSet(episodes)
    <3>1. \A i \in DOMAIN forecast : forecast[i].cycle \in Weeks \ {w}
      BY <1>6, LoggedLines DEF Holds
    <3>2. \A i \in DOMAIN forecast : Own(forecast[i].cycle) \subseteq ToSet(candidates) \cap ToSet(episodes)
      BY DEF Facts, EachLineOnce
    <3>3. \A i \in DOMAIN forecast : Own(forecast[i].cycle)' = Own(forecast[i].cycle)
      BY <1>1, <1>4, <3>1 DEF Own, logs
    <3> QED BY <3>2, <3>3
  <2> QED BY <1>1, <2>1, <2>2 DEF Facts, EachLineOnce, logs
<1>11. ChainHolds'
  <2>1. verify_chain(forecast)'
    BY <1>1 DEF Facts, ChainHolds, logs
  <2>2. ASSUME NEW v \in Weeks, (status[v] = "frozen" /\ ~Holds(forecast, v))'
        PROVE  sealed'[v].prev = Tip(forecast)' /\ (forecast' # <<>> => sealed'[v].at >= Last(forecast)'.at)
    <3>1. v = w
      BY <1>7, <2>2 DEF Owed
    <3> QED BY <1>1, <1>2, <1>4, <3>1 DEF logs
  <2> QED BY <2>1, <2>2 DEF ChainHolds
<1>12. InHand(p)' = w /\ ~Resuming(p)'
  BY <1>0, <1>1, <1>2 DEF InHand, Resuming
<1>13. KnowsLog(p)'
  BY <1>1, <1>2, <1>3, <1>7, <1>12 DEF KnowsLog, logs
<1>14. KnowsLines(p)'
  <2>1. Own(InHand(p))' = {<<w, i>> : i \in 1..n}
    BY <1>4, <1>12 DEF Own
  <2>2. \A l \in {<<w, i>> : i \in 1..n} : l \notin ToSet(candidates) /\ l \notin ToSet(episodes)
    BY <1>9
  <2>3. queue'[p] = Own(InHand(p))' \ ToSet(candidates) /\ Own(InHand(p))' \cap ToSet(episodes) = {}
    BY <1>3, <2>1, <2>2
  <2> QED BY <1>1, <1>3, <2>3 DEF KnowsLines, logs
<1> QED BY <1>1, <1>8, <1>10, <1>11, <1>13, <1>14, HolderWrites DEF Facts

LEMMA AppendLineStep ==
    ASSUME StoreTypes, RunTypes, Facts, NEW p \in Procs, AppendLine(p)
    PROVE  Facts'
<1>0. PICK l : l = FirstOf(queue[p])
  OBVIOUS
<1>1. /\ holder = p /\ holder' = p /\ UNCHANGED <<dirs, forecast, ask, lines, todo, pc>>
      /\ pc[p] \in {"candidates", "episodes"} /\ l \in queue[p] /\ queue'[p] = queue[p] \ {l}
  BY <1>0, FirstIsIn DEF AppendLine, Ensure, RunTypes
<1>2. KnowsLog(p) /\ KnowsLines(p)
  BY <1>1 DEF Facts, HolderKnows
<1>3. PICK w : w = InHand(p)
  OBVIOUS
<1>4. w \in Owed /\ w \in Weeks /\ status[w] = "frozen" /\ InHand(p)' = w /\ (Resuming(p)' <=> Resuming(p))
  BY <1>1, <1>2, <1>3 DEF KnowsLog, Owed, InHand, Resuming
<1>5. l \in Own(w) /\ l \in FileLines /\ l[1] = w
  <2>1. l \in Own(w)
    BY <1>1, <1>2, <1>3 DEF KnowsLines
  <2> QED BY <1>4, <2>1, OwnLines
<1>6. \A v : Own(v)' = Own(v)
  BY <1>1 DEF Own, dirs
<1>7. Owed' = Owed /\ OneOwed' /\ ChainHolds'
  <2>1. Owed' = Owed
    BY <1>1 DEF Owed, Holds, dirs
  <2>2. OneOwed'
    BY <1>1, <2>1 DEF Facts, OneOwed, dirs
  <2>3. ChainHolds'
    BY <1>1 DEF Facts, ChainHolds, Holds, dirs
  <2> QED BY <2>1, <2>2, <2>3
<1>8. KnowsLog(p)'
  BY <1>1, <1>2, <1>3, <1>4, <1>7 DEF KnowsLog, dirs
<1>9. Own(InHand(p))' = Own(w)
  BY <1>1, <1>4 DEF Own, dirs
<1>10. CASE pc[p] = "candidates"
  <2>1. candidates' = Append(candidates, l) /\ episodes' = episodes
    BY <1>0, <1>10 DEF AppendLine
  <2>2. l \notin ToSet(candidates) /\ queue[p] = Own(w) \ ToSet(candidates)
        /\ (~Resuming(p) => Own(w) \cap ToSet(episodes) = {})
    BY <1>1, <1>2, <1>3, <1>10 DEF KnowsLines
  <2>3. ToSet(candidates') = ToSet(candidates) \cup {l} /\ NoRepeats(candidates')
    BY <1>5, <2>1, <2>2, AppendTo DEF StoreTypes, Facts, EachLineOnce
  <2>4. EachLineOnce'
    <3>1. \A m \in ToSet(candidates') \cup ToSet(episodes') : status'[m[1]] = "frozen" /\ m \in Own(m[1])'
      BY <1>1, <1>4, <1>5, <1>6, <2>1, <2>3 DEF Facts, EachLineOnce, dirs
    <3>2. \A i \in DOMAIN forecast' : Own(forecast[i].cycle)' \subseteq ToSet(candidates') \cap ToSet(episodes')
      BY <1>1, <2>1, <2>3 DEF Facts, EachLineOnce, Own, dirs
    <3> QED BY <2>1, <2>3, <3>1, <3>2 DEF Facts, EachLineOnce
  <2>5. KnowsLines(p)'
    <3>1. queue'[p] = Own(w) \ ToSet(candidates')
      BY <1>1, <2>2, <2>3
    <3> QED BY <1>1, <1>4, <1>9, <1>10, <2>1, <2>2, <3>1 DEF KnowsLines
  <2> QED BY <1>1, <1>7, <1>8, <2>4, <2>5, HolderWrites DEF Facts
<1>11. CASE pc[p] = "episodes"
  <2>1. episodes' = Append(episodes, l) /\ candidates' = candidates
    BY <1>0, <1>11 DEF AppendLine
  <2>2. l \notin ToSet(episodes) /\ queue[p] = Own(w) \ ToSet(episodes) /\ Own(w) \subseteq ToSet(candidates)
    BY <1>1, <1>2, <1>3, <1>11 DEF KnowsLines
  <2>3. ToSet(episodes') = ToSet(episodes) \cup {l} /\ NoRepeats(episodes')
    BY <1>5, <2>1, <2>2, AppendTo DEF StoreTypes, Facts, EachLineOnce
  <2>4. EachLineOnce'
    <3>1. \A m \in ToSet(candidates') \cup ToSet(episodes') : status'[m[1]] = "frozen" /\ m \in Own(m[1])'
      BY <1>1, <1>4, <1>5, <1>6, <2>1, <2>3 DEF Facts, EachLineOnce, dirs
    <3>2. \A i \in DOMAIN forecast' : Own(forecast[i].cycle)' \subseteq ToSet(candidates') \cap ToSet(episodes')
      BY <1>1, <2>1, <2>3 DEF Facts, EachLineOnce, Own, dirs
    <3> QED BY <2>1, <2>3, <3>1, <3>2 DEF Facts, EachLineOnce
  <2>5. KnowsLines(p)'
    <3>1. queue'[p] = Own(w) \ ToSet(episodes')
      BY <1>1, <2>2, <2>3
    <3> QED BY <1>1, <1>4, <1>9, <1>11, <2>1, <2>2, <3>1 DEF KnowsLines
  <2> QED BY <1>1, <1>7, <1>8, <2>4, <2>5, HolderWrites DEF Facts
<1> QED BY <1>1, <1>10, <1>11

LEMMA AppendForecastStep ==
    ASSUME StoreTypes, RunTypes, Facts, NEW p \in Procs, AppendForecast(p)
    PROVE  Facts'
<1>0. PICK w : w = InHand(p)
  OBVIOUS
<1>1. PICK l : l = Line(w)
  OBVIOUS
<1>2. /\ holder = p /\ pc[p] = "forecast" /\ UNCHANGED <<candidates, episodes, dirs>>
      /\ forecast' = Append(forecast, l)
  BY <1>0, <1>1 DEF AppendForecast
<1>3. KnowsLog(p) /\ KnowsLines(p)
  BY <1>2 DEF Facts, HolderKnows
<1>4. w \in Owed /\ w \in Weeks /\ status[w] = "frozen" /\ ~Holds(forecast, w) /\ lines[p] = forecast
  BY <1>0, <1>2, <1>3 DEF KnowsLog, Owed
<1>5. l \in LogLines /\ l.cycle = w /\ l.at = sealed[w].at /\ l.prev = sealed[w].prev
  BY <1>1, <1>4, OwnLines
<1>6. /\ DOMAIN forecast' = 1..Len(forecast) + 1 /\ DOMAIN forecast = 1..Len(forecast) /\ Len(forecast) \in Nat
      /\ forecast'[Len(forecast) + 1] = l /\ (\A i \in 1..Len(forecast) : forecast'[i] = forecast[i])
      /\ forecast' # <<>> /\ Last(forecast') = l
  BY <1>2, <1>5, AppendTo, LoggedLines DEF StoreTypes
<1>7. \A i \in DOMAIN forecast' : i \in 1..Len(forecast) \/ i = Len(forecast) + 1
  BY <1>6
<1>8. \A v \in Weeks : Holds(forecast', v) <=> Holds(forecast, v) \/ v = w
  <2>1. ASSUME NEW v \in Weeks, Holds(forecast', v) PROVE Holds(forecast, v) \/ v = w
    BY <1>5, <1>6, <1>7, <2>1 DEF Holds
  <2>2. ASSUME NEW v \in Weeks, Holds(forecast, v) PROVE Holds(forecast', v)
    BY <1>6, <2>2 DEF Holds
  <2>3. Holds(forecast', w)
    <3>1. Len(forecast) + 1 \in DOMAIN forecast'
      BY <1>6
    <3> QED BY <1>5, <1>6, <3>1 DEF Holds
  <2> QED BY <2>1, <2>2, <2>3
<1>9. Owed' = {}
  <2>1. \A v \in Owed : v = w
    BY <1>4 DEF Facts, OneOwed
  <2>2. \A v \in Weeks : v \notin Owed'
    BY <1>2, <1>8, <2>1 DEF Owed, dirs
  <2> QED BY <2>2 DEF Owed
<1>10. OneOwed'
  <2>1. \A i \in DOMAIN forecast' : status[forecast'[i].cycle] = "frozen"
    BY <1>4, <1>5, <1>6, <1>7 DEF Facts, OneOwed
  <2> QED BY <1>2, <1>9, <2>1 DEF OneOwed, dirs
<1>11. EachLineOnce'
  <2>1. \A v : Own(v)' = Own(v)
    BY <1>2 DEF Own, dirs
  <2>2. Own(w) \subseteq ToSet(candidates) \cap ToSet(episodes)
    BY <1>0, <1>2, <1>3 DEF KnowsLines
  <2>3. \A i \in DOMAIN forecast : Own(forecast[i].cycle) \subseteq ToSet(candidates) \cap ToSet(episodes)
    BY DEF Facts, EachLineOnce
  <2>4. ASSUME NEW i \in DOMAIN forecast'
        PROVE  Own(forecast'[i].cycle) \subseteq ToSet(candidates) \cap ToSet(episodes)
    BY <1>5, <1>6, <1>7, <2>2, <2>3
  <2>5. \A i \in DOMAIN forecast' : Own(forecast[i].cycle)' \subseteq ToSet(candidates) \cap ToSet(episodes)
    BY <1>2, <2>4 DEF Own, dirs
  <2> QED BY <1>2, <2>1, <2>5 DEF Facts, EachLineOnce, dirs
<1>12. ChainHolds'
  <2>1. verify_chain(forecast)
    BY DEF Facts, ChainHolds
  <2>2. /\ l.prev = Tip(forecast)
        /\ forecast # <<>> => l.at >= Last(forecast).at
    BY <1>4, <1>5 DEF Facts, ChainHolds
  <2>3. \A j \in 1..Len(forecast) : forecast[j].cycle # w
    BY <1>4, <1>6 DEF Holds
  <2>4. /\ forecast = <<>> <=> Len(forecast) = 0
        /\ Len(forecast) > 0 => Last(forecast) = forecast[Len(forecast)]
    BY TipIsNat DEF StoreTypes
  <2>5. verify_chain(forecast')
    <3>1. ASSUME NEW i \in 1..Len(forecast)
          PROVE  /\ forecast'[i].prev = (IF i = 1 THEN GENESIS ELSE forecast'[i-1].cycle)
                 /\ i > 1 => forecast'[i].at >= forecast'[i-1].at
                 /\ \A j \in 1..(i-1) : forecast'[j].cycle # forecast'[i].cycle
      <4>1. \A j \in 1..i : forecast'[j] = forecast[j] /\ i \in DOMAIN forecast
        BY <1>6
      <4>2. i > 1 => i - 1 \in 1..i
        BY <1>6
      <4>3. \A j \in 1..(i-1) : j \in 1..i
        BY <1>6
      <4>4. i \in 1..i /\ (i # 1 => i > 1)
        BY <1>6
      <4>5. /\ forecast[i].prev = (IF i = 1 THEN GENESIS ELSE forecast[i-1].cycle)
            /\ i > 1 => forecast[i].at >= forecast[i-1].at
            /\ \A j \in 1..(i-1) : forecast[j].cycle # forecast[i].cycle
        BY <2>1, <4>1 DEF verify_chain
      <4> QED BY <4>1, <4>2, <4>3, <4>4, <4>5
    <3> DEFINE n == Len(forecast) + 1
    <3>2. /\ forecast'[n].prev = (IF n = 1 THEN GENESIS ELSE forecast'[n-1].cycle)
          /\ n > 1 => forecast'[n].at >= forecast'[n-1].at
          /\ \A j \in 1..(n-1) : forecast'[j].cycle # forecast'[n].cycle
      <4>1. n - 1 = Len(forecast) /\ forecast'[n] = l
        BY <1>6
      <4>2. \A j \in 1..(n-1) : forecast'[j].cycle # w
        BY <1>6, <2>3, <4>1
      <4>3. CASE Len(forecast) = 0
        BY <1>5, <1>6, <2>2, <2>4, <4>1, <4>2, <4>3 DEF Tip
      <4>4. CASE Len(forecast) # 0
        <5>1. forecast'[n-1] = Last(forecast) /\ forecast # <<>> /\ n # 1
          BY <1>6, <2>4, <4>1, <4>4
        <5> HIDE DEF n
        <5> QED BY <1>5, <2>2, <4>1, <4>2, <5>1 DEF Tip
      <4> QED BY <4>3, <4>4
    <3> HIDE DEF n
    <3>3. ASSUME NEW i \in DOMAIN forecast'
          PROVE  /\ forecast'[i].prev = (IF i = 1 THEN GENESIS ELSE forecast'[i-1].cycle)
                 /\ i > 1 => forecast'[i].at >= forecast'[i-1].at
                 /\ \A j \in 1..(i-1) : forecast'[j].cycle # forecast'[i].cycle
      <4>1. i \in 1..Len(forecast) \/ i = n
        BY <1>7 DEF n
      <4> QED BY <3>1, <3>2, <4>1
    <3> QED BY <3>3 DEF verify_chain
  <2>6. \A v \in Weeks : ~(status'[v] = "frozen" /\ ~Holds(forecast', v))
    BY <1>9 DEF Owed
  <2> QED BY <2>5, <2>6 DEF ChainHolds
<1>13. HolderKnows'
  <2>1. CASE Resuming(p)
    <3>1. pc'[p] = "resume" /\ lines'[p] = Append(lines[p], l) /\ holder' = p
      BY <1>0, <1>1, <2>1 DEF AppendForecast, Ensure, RunTypes
    <3>2. KnowsLog(p)' /\ KnowsLines(p)'
      BY <1>2, <1>4, <1>9, <3>1 DEF KnowsLog, KnowsLines
    <3> QED BY <3>1, <3>2, HolderWrites
  <2>2. CASE ~Resuming(p)
    <3>1. holder' = NoOne
      BY <1>2, <2>2 DEF AppendForecast, End
    <3> QED BY <3>1, SoeAssumption DEF HolderKnows
  <2> QED BY <2>1, <2>2
<1> QED BY <1>10, <1>11, <1>12, <1>13 DEF Facts

-----------------------------------------------------------------------------
(* The theorems.                                                           *)

LEMMA FactsStep == StoreTypes /\ RunTypes /\ Facts /\ [Next]_vars => Facts'
<1> SUFFICES ASSUME StoreTypes, RunTypes, Facts, [Next]_vars PROVE Facts'
  OBVIOUS
<1>1. ASSUME NEW p \in Procs, RunStep(p) PROVE Facts'
  <2>1. CASE LeaseLost(p)
    BY <2>1, EndKeeps DEF LeaseLost
  <2> QED BY <1>1, <2>1, ReadingStep, NextLogStep, ClaimStep, StagesStep, FreezeStep, AppendLineStep, AppendForecastStep
             DEF RunStep
<1>2. ASSUME NEW p \in Procs, Fail(p) \/ Crash(p) PROVE Facts'
  BY <1>2, EndKeeps DEF Fail, Crash, leaseVars
<1>3. ASSUME NEW p \in Procs, NEW a \in Asks, Begin(p, a) PROVE Facts'
  <2>1. OthersSame(p) /\ pc'[p] = "start" /\ holder' = p /\ UNCHANGED <<dirs, logs>>
    BY <1>3 DEF Begin, OthersSame, RunTypes
  <2> QED BY <2>1, KnowsNothing, OnlyRunMoves
<1>4. CASE Expire \/ UNCHANGED vars
  <2>1. UNCHANGED <<dirs, logs, pc, ask, lines, todo, queue, holder>>
    BY <1>4 DEF Expire, vars, runVars, leaseVars
  <2>2. ASSUME NEW p \in Procs, holder' = p PROVE KnowsLog(p)' /\ KnowsLines(p)'
    BY <2>1, <2>2, KnowsSame DEF Facts, HolderKnows
  <2> QED BY <2>1, <2>2, StoreSame DEF Facts, HolderKnows
<1>5. ASSUME NEW w \in Weeks, MoveAside(w) PROVE Facts'
  BY <1>5, MoveAsideStep
<1> QED BY <1>1, <1>2, <1>3, <1>4, <1>5 DEF Next

LEMMA CycleInvariant == Spec => [](StoreTypes /\ RunTypes /\ Facts)
<1>1. Init => StoreTypes /\ RunTypes /\ Facts
  <2> SUFFICES ASSUME Init PROVE StoreTypes /\ RunTypes /\ Facts
    OBVIOUS
  <2>1. StoreTypes
    BY DEF Init, StoreTypes, GENESIS
  <2>2. RunTypes
    BY SoeAssumption DEF Init, RunTypes, Pcs, NoAsk
  <2>3. forecast = <<>> /\ candidates = <<>> /\ episodes = <<>> /\ holder = NoOne
        /\ \A w \in Weeks : status[w] = "absent"
    BY DEF Init
  <2>4. DOMAIN << >> = {} /\ ToSet(<< >>) = {}
    BY DEF ToSet
  <2>5. Owed = {}
    BY <2>3 DEF Owed
  <2>6. OneOwed
    BY <2>3, <2>4, <2>5 DEF OneOwed
  <2>7. EachLineOnce
    BY <2>3, <2>4 DEF EachLineOnce, NoRepeats
  <2>8. ChainHolds
    BY <2>3, <2>4 DEF ChainHolds, verify_chain
  <2>9. HolderKnows
    BY <2>3, SoeAssumption DEF HolderKnows
  <2> QED BY <2>1, <2>2, <2>6, <2>7, <2>8, <2>9 DEF Facts
<1>2. StoreTypes /\ RunTypes /\ Facts /\ [Next]_vars => (StoreTypes /\ RunTypes /\ Facts)'
  BY TypesStep, FactsStep
<1> QED BY <1>1, <1>2, PTL DEF Spec

\* For any number of processes, weeks and stops: no state log holds a line
\* twice or of a cycle that is not frozen, and a cycle in the forecast log has
\* all its lines in the other two.
THEOREM LinesLoggedOnce == Spec => []EachLineOnce
<1>1. Facts => EachLineOnce
  BY DEF Facts
<1> QED BY <1>1, CycleInvariant, PTL

\* The forecast chain verifies at every moment, and the one cycle that may be
\* waiting for its line follows the chain's tip: resume_learn never bails.
THEOREM ForecastChainHolds == Spec => []ChainHolds
<1>1. Facts => ChainHolds
  BY DEF Facts
<1> QED BY <1>1, CycleInvariant, PTL
=============================================================================
