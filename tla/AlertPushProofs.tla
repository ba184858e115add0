---- MODULE AlertPushProofs ----
(***************************************************************************)
(* Proofs about AlertPush.tla, for any number of conditions, alerts, users  *)
(* and faults and any page length.                                          *)
(*                                                                          *)
(* The heart is the paging: as long as nothing changes while the list is    *)
(* read, the total is the number of ACTIVE alerts, the pages fetched so far *)
(* hold each of the newest `offset` of them once, and the last page         *)
(* completes the list.                                                      *)
(***************************************************************************)
EXTENDS AlertPush, FiniteSetTheorems, TLAPS

----
(* Positions in a list of alerts, newest first.                             *)

RankIn(S, a) == Cardinality({b \in S : b > a})

(* A set of alerts has a newest one.                                        *)
LEMMA HasNewest ==
  ASSUME NEW S, S \subseteq AlertId, S # {}
  PROVE  \E x \in S : \A y \in S : x >= y
<1> DEFINE T == {MaxAlert - x : x \in S}
<1>1. T \subseteq Nat /\ T # {}
  <2>1. ASSUME NEW x \in S PROVE MaxAlert - x \in Nat
    <3>1. x \in 1 .. MaxAlert
      BY DEF AlertId
    <3>2. QED
      BY <3>1, AlertPushAssumption
  <2>2. QED
    BY <2>1
<1>2. PICK m \in T : \A y \in T : <<y, m>> \notin OpToRel(<, Nat)
  <2> HIDE DEF T
  <2> QED
    BY <1>1, NatLessThanWellFounded, WFMin
<1>3. PICK x \in S : m = MaxAlert - x
  OBVIOUS
<1>4. ASSUME NEW y \in S PROVE x >= y
  <2>1. MaxAlert - y \in T /\ ~(MaxAlert - y < m)
    BY <1>1, <1>2 DEF OpToRel
  <2>2. x \in Nat /\ y \in Nat
    BY AlertPushAssumption DEF AlertId
  <2>3. QED
    BY <1>3, <2>1, <2>2, AlertPushAssumption
<1>5. QED
  BY <1>4

LEMMA MaxFacts ==
  ASSUME NEW S, S \subseteq AlertId, S # {}
  PROVE  Max(S) \in S /\ \A y \in S : Max(S) >= y
  BY HasNewest DEF Max

LEMMA AlertsAreFinite ==
  ASSUME NEW S, S \subseteq AlertId
  PROVE  IsFiniteSet(S) /\ Cardinality(S) \in Nat
<1>1. IsFiniteSet(AlertId)
  BY FS_Interval, AlertPushAssumption DEF AlertId
<1>2. IsFiniteSet(S)
  BY <1>1, FS_Subset
<1>3. QED
  BY <1>2, FS_CardinalityType

LEMMA RankType ==
  ASSUME NEW S, S \subseteq AlertId, NEW a
  PROVE  /\ RankIn(S, a) \in Nat
         /\ a \in S => RankIn(S, a) < Cardinality(S)
<1> DEFINE newer == {b \in S : b > a}
<1>1. IsFiniteSet(S) /\ Cardinality(S) \in Nat /\ Cardinality(newer) \in Nat
  BY AlertsAreFinite
<1>2. newer \subseteq S /\ Cardinality(newer) <= Cardinality(S)
  BY <1>1, FS_Subset
<1>3. a \in S => a \notin newer
  BY AlertPushAssumption DEF AlertId
<1>4. a \in S => Cardinality(S) # Cardinality(newer)
  BY <1>1, <1>2, <1>3, FS_Subset
<1>5. QED
  BY <1>1, <1>2, <1>4 DEF RankIn

(* Older alerts come later.                                                 *)
LEMMA RankDecreases ==
  ASSUME NEW S, S \subseteq AlertId, NEW a \in S, NEW b \in S, a < b
  PROVE  RankIn(S, b) < RankIn(S, a)
<1> DEFINE newerA == {x \in S : x > a}
           newerB == {x \in S : x > b}
<1>0. ASSUME NEW x \in S PROVE x \in Nat
  BY AlertPushAssumption DEF AlertId
<1>1. newerB \subseteq newerA /\ b \in newerA /\ b \notin newerB
  <2>1. a \in Nat /\ b \in Nat
    BY <1>0
  <2>2. ASSUME NEW x \in newerB PROVE x \in newerA
    BY <1>0, <2>1
  <2>3. newerB \subseteq newerA
    BY <2>2
  <2>4. b > a /\ ~(b > b)
    BY <2>1
  <2>5. QED
    BY <2>3, <2>4
<1>2. IsFiniteSet(newerA) /\ Cardinality(newerA) \in Nat /\ Cardinality(newerB) \in Nat
  BY AlertsAreFinite
<1>3. Cardinality(newerB) <= Cardinality(newerA) /\ Cardinality(newerA) # Cardinality(newerB)
  BY <1>1, <1>2, FS_Subset
<1>4. QED
  BY <1>2, <1>3 DEF RankIn

LEMMA RankInjective ==
  ASSUME NEW S, S \subseteq AlertId, NEW a \in S, NEW b \in S, RankIn(S, a) = RankIn(S, b)
  PROVE  a = b
<1>1. RankIn(S, a) \in Nat
  BY RankType
<1>2. a \in Nat /\ b \in Nat
  BY AlertPushAssumption DEF AlertId
<1>3. ASSUME a < b PROVE FALSE
  <2>1. RankIn(S, b) < RankIn(S, a)
    BY <1>3, RankDecreases
  <2>2. QED
    BY <1>1, <2>1
<1>4. ASSUME b < a PROVE FALSE
  <2>1. RankIn(S, a) < RankIn(S, b)
    BY <1>4, RankDecreases
  <2>2. QED
    BY <1>1, <2>1
<1>5. QED
  BY <1>2, <1>3, <1>4

(* There are at most as many alerts as there are positions for them.        *)
LEMMA RankBound ==
  ASSUME NEW S, S \subseteq AlertId, NEW T, T \subseteq S,
         NEW low \in Nat, NEW count \in Nat,
         \A b \in T : RankIn(S, b) >= low /\ RankIn(S, b) < low + count
  PROVE  Cardinality(T) <= count
<1> DEFINE places == low .. (low + count - 1)
           f == [b \in T |-> RankIn(S, b)]
<1>1. IsFiniteSet(places) /\ Cardinality(places) = count
  BY FS_Interval
<1>2. f \in [T -> places]
  <2>1. ASSUME NEW b \in T PROVE RankIn(S, b) \in places
    <3>1. RankIn(S, b) \in Nat
      BY RankType
    <3>2. RankIn(S, b) >= low /\ RankIn(S, b) < low + count
      OBVIOUS
    <3>3. QED
      BY <3>1, <3>2
  <2>2. QED
    BY <2>1
<1>3. ASSUME NEW a \in T, NEW b \in T, f[a] = f[b] PROVE a = b
  BY <1>3, RankInjective
<1>4. f \in Injection(T, places)
  BY <1>2, <1>3 DEF Injection, IsInjective
<1>5. QED
  <2> HIDE DEF f, places
  <2> QED
    BY <1>1, <1>4, FS_Injection

(* The page that starts at an offset: its alerts have the positions that    *)
(* follow, without a gap, and it is empty only after the last alert.        *)
PageOf(S, offset) == {a \in S : RankIn(S, a) \in offset .. offset + Page - 1}

LEMMA PageSize ==
  ASSUME NEW S, S \subseteq AlertId, NEW offset \in Nat
  PROVE  /\ Cardinality(PageOf(S, offset)) \in Nat
         /\ Cardinality(PageOf(S, offset)) <= Page
<1> DEFINE page == PageOf(S, offset)
<1>1. page \subseteq S /\ Page \in Nat
  BY AlertPushAssumption DEF PageOf
<1>2. ASSUME NEW b \in page PROVE RankIn(S, b) >= offset /\ RankIn(S, b) < offset + Page
  <2>1. RankIn(S, b) \in offset .. offset + Page - 1
    BY DEF PageOf
  <2>2. QED
    BY <1>1, <2>1
<1>3. QED
  <2> HIDE DEF page
  <2>1. Cardinality(page) <= Page
    BY <1>1, <1>2, RankBound
  <2>2. Cardinality(page) \in Nat
    BY <1>1, AlertsAreFinite
  <2>3. QED
    BY <2>1, <2>2 DEF page

LEMMA PageHasNoGap ==
  ASSUME NEW S, S \subseteq AlertId, NEW offset \in Nat, NEW a \in PageOf(S, offset)
  PROVE  RankIn(S, a) >= offset /\ RankIn(S, a) < offset + Cardinality(PageOf(S, offset))
<1> DEFINE page == PageOf(S, offset)
           newer == {b \in S : b > a}
           first == {b \in newer : RankIn(S, b) < offset}
           second == {b \in newer : RankIn(S, b) >= offset}
<1>0. /\ a \in S /\ Page \in Nat /\ RankIn(S, a) \in Nat
      /\ RankIn(S, a) >= offset /\ RankIn(S, a) <= offset + Page - 1
  <2>1. a \in S /\ RankIn(S, a) \in offset .. offset + Page - 1 /\ Page \in Nat
    BY AlertPushAssumption DEF PageOf
  <2>2. QED
    BY <2>1, RankType
<1>1. ASSUME NEW b \in S PROVE b \in Nat /\ RankIn(S, b) \in Nat
  <2>1. b \in Nat
    BY AlertPushAssumption DEF AlertId
  <2>2. QED
    BY <2>1, RankType
<1>2. newer = first \cup second
  BY <1>1
<1>3. Cardinality(first) <= offset
  <2>1. first \subseteq S /\ \A b \in first : RankIn(S, b) >= 0 /\ RankIn(S, b) < 0 + offset
    BY <1>1
  <2> HIDE DEF first
  <2>2. QED
    BY <2>1, RankBound
<1>4. second \cup {a} \subseteq page
  <2>1. ASSUME NEW b \in second PROVE b \in page
    <3>1. a < b /\ b \in S /\ RankIn(S, b) >= offset
      BY <1>0, <1>1
    <3>2. RankIn(S, b) < RankIn(S, a)
      BY <1>0, <3>1, RankDecreases
    <3>3. RankIn(S, b) \in offset .. offset + Page - 1
      BY <1>0, <1>1, <3>1, <3>2
    <3>4. QED
      BY <3>1, <3>3 DEF PageOf
  <2>2. QED
    BY <2>1
<1>5. a \notin second
  BY <1>0, <1>1
<1>6. first \subseteq AlertId /\ second \subseteq AlertId /\ page \subseteq AlertId
  BY DEF PageOf
<1>7. Cardinality(newer) = RankIn(S, a)
  BY DEF RankIn
<1>8. QED
  <2> HIDE DEF newer, first, second, page
  <2>1. /\ IsFiniteSet(first) /\ IsFiniteSet(second) /\ IsFiniteSet(page)
        /\ Cardinality(first) \in Nat /\ Cardinality(second) \in Nat /\ Cardinality(page) \in Nat
    BY <1>6, AlertsAreFinite
  <2>2. Cardinality(first \cap second) \in Nat
    <3>1. first \cap second \subseteq AlertId
      BY <1>6
    <3>2. QED
      BY <3>1, AlertsAreFinite
  <2>3. Cardinality(newer) = Cardinality(first) + Cardinality(second) - Cardinality(first \cap second)
    BY <1>2, <2>1, FS_Union
  <2>4. Cardinality(second \cup {a}) = Cardinality(second) + 1
    BY <1>5, <2>1, FS_AddElement
  <2>5. Cardinality(second \cup {a}) <= Cardinality(page)
    BY <1>4, <2>1, FS_Subset
  <2>6. RankIn(S, a) < offset + Cardinality(page)
    BY <1>0, <1>3, <1>7, <2>1, <2>2, <2>3, <2>4, <2>5
  <2>7. QED
    BY <1>0, <2>6 DEF page

LEMMA EmptyPageIsLast ==
  ASSUME NEW S, S \subseteq AlertId, NEW offset \in Nat, PageOf(S, offset) = {}, NEW a \in S
  PROVE  RankIn(S, a) < offset
<1> DEFINE late == {b \in S : RankIn(S, b) >= offset}
<1>1. ASSUME NEW b \in S PROVE b \in Nat /\ RankIn(S, b) \in Nat
  <2>1. b \in Nat
    BY AlertPushAssumption DEF AlertId
  <2>2. QED
    BY <2>1, RankType
<1>2. ASSUME late # {} PROVE FALSE
  <2>1. PICK m \in late : \A y \in late : m >= y
    <3>1. late \subseteq AlertId
      OBVIOUS
    <3>2. QED
      BY <1>2, <3>1, HasNewest
  <2> DEFINE newer == {b \in S : b > m}
  <2>2. m \in S /\ m \in Nat /\ RankIn(S, m) \in Nat /\ RankIn(S, m) >= offset
    BY <1>1
  <2>3. ASSUME NEW b \in newer PROVE RankIn(S, b) >= 0 /\ RankIn(S, b) < 0 + offset
    BY <1>1, <2>1, <2>2
  <2>4. Cardinality(newer) <= offset
    <3>1. newer \subseteq S
      OBVIOUS
    <3> HIDE DEF newer
    <3>2. QED
      BY <2>3, <3>1, RankBound
  <2>5. RankIn(S, m) = offset
    BY <2>2, <2>4 DEF RankIn
  <2>6. offset \in offset .. offset + Page - 1
    BY AlertPushAssumption
  <2>7. m \in PageOf(S, offset)
    BY <2>2, <2>5, <2>6 DEF PageOf
  <2>8. QED
    BY <2>7
<1>3. QED
  BY <1>1, <1>2

----
(* The inductive invariant.                                                 *)

(* Rows are created in the order of their ids, and the bot has never seen   *)
(* one that does not exist yet.                                             *)
IdsAreInOrder ==
  /\ \A a, b \in AlertId :
       a < b /\ alerts[a].status = "ABSENT" => alerts[b].status = "ABSENT"
  /\ \A a \in AlertId : alerts[a].status = "ABSENT" =>
       /\ a > mark /\ a > bot.top
       /\ a \notin pushed /\ bot.listed[a] = 0 /\ bot.todo[a] = 0

(* The pages so far hold the newest `offset` alerts, each once.             *)
ListingIsExact ==
  bot.pc \in {"fetch", "counted"} /\ ~shifted =>
    \A a \in AlertId :
      bot.listed[a] = IF a \in Active /\ RankIn(Active, a) < bot.offset THEN 1 ELSE 0

(* The count of the page being answered is still right when its items are   *)
(* read.                                                                    *)
TotalIsCurrent == bot.pc = "counted" /\ ~shifted => bot.total = Cardinality(Active)

(* What the next mark passes is sent, or about to be.                       *)
PushIsComplete ==
  bot.pc = "push" /\ ~shifted =>
    \A a \in Active : a <= bot.top => a \in pushed \/ bot.todo[a] > 0

(* What is about to be sent was not, and the mark keeps it from being sent  *)
(* again.                                                                   *)
PushIsNew ==
  bot.pc = "push" /\ faults = 0 /\ ~shifted =>
    /\ \A a \in AlertId : bot.todo[a] > 0 =>
         bot.todo[a] = 1 /\ a \notin pushed /\ a <= bot.top
    /\ \A a \in Active : a \in pushed => a <= bot.top

PushedIsMarked ==
  bot.pc # "push" /\ faults = 0 /\ ~shifted => \A a \in Active : a \in pushed => a <= mark

IInv ==
  /\ TypeOK
  /\ IdsAreInOrder
  /\ ListingIsExact
  /\ TotalIsCurrent
  /\ PushIsComplete
  /\ PushIsNew
  /\ PushedIsMarked
  /\ MarkMeansPushed
  /\ PushedOnce

----
(* The bot's tick as a record.                                              *)

LEMMA AsleepFields ==
  /\ Asleep \in Bot
  /\ Asleep.pc = "idle" /\ Asleep.offset = 0 /\ Asleep.top = 0
  /\ \A a \in AlertId : Asleep.listed[a] = 0 /\ Asleep.todo[a] = 0
<1>1. Asleep.try \in [User -> Token]
  BY DEF Asleep, Token
<1>2. 0 \in 0 .. MaxAlert
  BY AlertPushAssumption
<1>3. QED
  BY <1>1, <1>2 DEF Asleep, Bot

LEMMA FetchingFields ==
  ASSUME NEW try \in [User -> Token], NEW b, b = [Asleep EXCEPT !.pc = "fetch", !.try = try]
  PROVE  /\ b \in Bot
         /\ b.pc = "fetch" /\ b.offset = 0 /\ b.top = 0
         /\ \A a \in AlertId : b.listed[a] = 0 /\ b.todo[a] = 0
<1>1. 0 \in 0 .. MaxAlert
  BY AlertPushAssumption
<1>2. QED
  BY <1>1 DEF Asleep, Bot

----
(* A change of the table: a new row becomes ACTIVE, or an old one ceases to *)
(* be.  While the list is read it makes the listing worthless; otherwise    *)
(* nothing that was said of the ACTIVE alerts is lost.                      *)
LEMMA TableKeeps ==
  ASSUME IInv, BotUnchanged,
         shifted' = (shifted \/ Reading),
         alerts' \in [AlertId -> AlertRow],
         \A a, b \in Active' : alerts'[a].condition = alerts'[b].condition => a = b,
         \A a \in AlertId : a \in Active' => a \in Active \/ alerts[a].status = "ABSENT",
         \A a \in AlertId : alerts'[a].status = "ABSENT" => alerts[a].status = "ABSENT",
         \A a, b \in AlertId :
           a < b /\ alerts'[a].status = "ABSENT" => alerts'[b].status = "ABSENT"
  PROVE  IInv'
<1>1. UNCHANGED <<linked, mark, bot, pushed, repeated, links, faults>>
  BY DEF BotUnchanged
<1>2. shifted' \in BOOLEAN /\ (~shifted' => ~shifted)
  BY DEF IInv, TypeOK
<1>3. TypeOK'
  BY <1>1, <1>2 DEF IInv, TypeOK
<1>4. IdsAreInOrder'
  BY <1>1 DEF IInv, IdsAreInOrder
<1>5. ListingIsExact'
  <2> SUFFICES ASSUME bot'.pc \in {"fetch", "counted"}, ~shifted', NEW a \in AlertId
               PROVE  bot'.listed[a]
                      = IF a \in Active' /\ RankIn(Active', a) < bot'.offset THEN 1 ELSE 0
    BY DEF ListingIsExact
  <2>1. bot.offset = 0
    <3>1. bot.offset \in Nat
      BY DEF IInv, TypeOK, Bot
    <3>2. ~(bot.offset > 0)
      BY <1>1 DEF Reading
    <3>3. QED
      BY <3>1, <3>2
  <2>2. ASSUME NEW S, S \subseteq AlertId PROVE ~(RankIn(S, a) < 0)
    <3>1. RankIn(S, a) \in Nat
      BY <2>2, RankType
    <3>2. QED
      BY <3>1
  <2>3. bot.listed[a] = 0
    <3>1. ~(RankIn(Active, a) < 0)
      BY <2>2 DEF Active
    <3>2. QED
      BY <1>1, <1>2, <2>1, <3>1 DEF IInv, ListingIsExact
  <2>4. ~(RankIn(Active', a) < 0)
    BY <2>2 DEF Active
  <2>5. QED
    BY <1>1, <2>1, <2>3, <2>4
<1>6. \A a \in Active' : a \in AlertId /\ (a \in Active \/ (a > mark /\ a > bot.top /\ a \notin pushed))
  BY DEF Active, IInv, IdsAreInOrder
<1>7. mark \in Nat /\ bot.top \in Nat /\ \A a \in AlertId : a \in Nat
  BY AlertPushAssumption DEF IInv, TypeOK, Bot, AlertId
<1>8. TotalIsCurrent'
  BY <1>1 DEF TotalIsCurrent, Reading
<1>9. PushIsComplete'
  BY <1>1, <1>2, <1>6, <1>7 DEF IInv, PushIsComplete
<1>10. PushIsNew' /\ PushedIsMarked'
  BY <1>1, <1>2, <1>6 DEF IInv, PushIsNew, PushedIsMarked
<1>11. MarkMeansPushed' /\ PushedOnce'
  BY <1>1, <1>2, <1>6, <1>7 DEF IInv, MarkMeansPushed, PushedOnce
<1>12. QED
  BY <1>3, <1>4, <1>5, <1>8, <1>9, <1>10, <1>11 DEF IInv

LEMMA RaiseKeeps ==
  ASSUME IInv, NEW c \in Condition, Raise(c)
  PROVE  IInv'
<1> DEFINE row == [condition |-> c, status |-> "ACTIVE"]
<1>1. PICK a \in AlertId :
        /\ \A q \in AlertId : alerts[q].status = "ABSENT" <=> q >= a
        /\ \A q \in Active : alerts[q].condition # c
        /\ Write(a, row)
        /\ BotUnchanged
  BY DEF Raise
<1>2. /\ alerts' = [alerts EXCEPT ![a] = row]
      /\ shifted' = (shifted \/ Reading)
  BY <1>1 DEF Write
<1>3. row \in AlertRow /\ row.status = "ACTIVE" /\ row.condition = c
  BY DEF AlertRow
<1>4. alerts \in [AlertId -> AlertRow]
  BY DEF IInv, TypeOK
<1>5. /\ alerts' \in [AlertId -> AlertRow]
      /\ \A x \in AlertId : alerts'[x] = IF x = a THEN row ELSE alerts[x]
  BY <1>2, <1>3, <1>4
<1>6. \A x \in AlertId : x \in Nat
  BY AlertPushAssumption DEF AlertId
<1>7. a >= a
  BY <1>6
<1>8. /\ \A x \in AlertId : x \in Active' => x \in Active \/ alerts[x].status = "ABSENT"
      /\ \A x \in AlertId : alerts'[x].status = "ABSENT" => alerts[x].status = "ABSENT"
  BY <1>1, <1>3, <1>5, <1>7 DEF Active
<1>9. ASSUME NEW x \in AlertId, NEW y \in AlertId, x < y, alerts'[x].status = "ABSENT"
      PROVE  alerts'[y].status = "ABSENT"
  <2>1. x # a /\ x >= a /\ y # a /\ y >= a
    BY <1>1, <1>3, <1>5, <1>6, <1>9
  <2>2. QED
    BY <1>1, <1>5, <2>1
<1>10. \A x, y \in Active' : alerts'[x].condition = alerts'[y].condition => x = y
  <2>1. \A x \in Active' : x = a \/ (x # a /\ x \in Active /\ alerts'[x] = alerts[x])
    BY <1>5 DEF Active
  <2>2. \A x, y \in Active : alerts[x].condition = alerts[y].condition => x = y
    BY DEF IInv, TypeOK
  <2>3. alerts'[a].condition = c
    BY <1>3, <1>5
  <2>4. QED
    BY <1>1, <2>1, <2>2, <2>3
<1>11. QED
  BY <1>1, <1>2, <1>5, <1>8, <1>9, <1>10, TableKeeps

(* An existing row is closed, or changes from one closed status to another. *)
LEMMA CloseKeeps ==
  ASSUME IInv, NEW a \in AlertId, alerts[a].status # "ABSENT",
         NEW status \in {"ACKNOWLEDGED", "RESOLVED"},
         Write(a, [alerts[a] EXCEPT !.status = status]), BotUnchanged
  PROVE  IInv'
<1> DEFINE row == [alerts[a] EXCEPT !.status = status]
<1>1. alerts \in [AlertId -> AlertRow]
  BY DEF IInv, TypeOK
<1>2. row \in AlertRow /\ row.status # "ACTIVE" /\ row.status # "ABSENT"
  BY <1>1 DEF AlertRow
<1>3. /\ alerts' = [alerts EXCEPT ![a] = row]
      /\ shifted' = (shifted \/ Reading)
  BY DEF Write
<1>4. /\ alerts' \in [AlertId -> AlertRow]
      /\ \A x \in AlertId : alerts'[x] = IF x = a THEN row ELSE alerts[x]
  BY <1>1, <1>2, <1>3
<1>5. \A x \in Active' : x \in Active /\ alerts'[x] = alerts[x]
  BY <1>2, <1>4 DEF Active
<1>6. \A x \in AlertId : alerts'[x].status = "ABSENT" <=> alerts[x].status = "ABSENT"
  BY <1>2, <1>4
<1>7. \A x, y \in Active' : alerts'[x].condition = alerts'[y].condition => x = y
  BY <1>5 DEF IInv, TypeOK
<1>8. \A x, y \in AlertId :
        x < y /\ alerts'[x].status = "ABSENT" => alerts'[y].status = "ABSENT"
  BY <1>6 DEF IInv, IdsAreInOrder
<1>9. QED
  BY <1>3, <1>4, <1>5, <1>6, <1>7, <1>8, TableKeeps

LEMMA BackendKeeps ==
  ASSUME IInv, Backend
  PROVE  IInv'
<1>1. CASE \E c \in Condition : Raise(c)
  BY <1>1, RaiseKeeps
<1>2. CASE \E c \in Condition : ResolveActive(c)
  <2>1. PICK a \in Active : Write(a, [alerts[a] EXCEPT !.status = "RESOLVED"]) /\ BotUnchanged
    BY <1>2 DEF ResolveActive
  <2>2. a \in AlertId /\ alerts[a].status # "ABSENT"
    BY DEF Active
  <2>3. QED
    BY <2>1, <2>2, CloseKeeps
<1>3. CASE \E a \in AlertId, status \in {"ACKNOWLEDGED", "RESOLVED"} : Decide(a, status)
  BY <1>3, CloseKeeps DEF Decide
<1>4. QED
  BY <1>1, <1>2, <1>3 DEF Backend

----
(* Users, and the beginning and the end of a tick.                          *)

LEMMA FaultsKeep ==
  ASSUME TypeOK, Fault
  PROVE  faults' \in 0 .. FaultLimit /\ faults' # 0
<1>1. faults \in Nat /\ faults < FaultLimit /\ faults' = faults + 1 /\ FaultLimit \in Nat
  BY AlertPushAssumption DEF TypeOK, Fault
<1>2. QED
  BY <1>1

LEMMA UsersKeep ==
  ASSUME IInv, Users
  PROVE  IInv'
<1>1. UNCHANGED <<alerts, shifted, mark, bot, pushed, repeated, faults>>
  BY DEF Users, Link, TokenEnds, CommandUnlinks, AlertsUnchanged
<1>2. PICK u \in User : \/ Link(u)
                        \/ \E how \in {"expired", "unreadable"} : TokenEnds(u, how)
                        \/ CommandUnlinks(u)
  BY DEF Users
<1>3. linked' \in [User -> Token]
  BY <1>2 DEF Link, TokenEnds, CommandUnlinks, IInv, TypeOK, Token
<1>4. links' \in 0 .. LinkLimit
  BY <1>2, AlertPushAssumption DEF Link, TokenEnds, CommandUnlinks, IInv, TypeOK
<1>5. TypeOK'
  BY <1>1, <1>3, <1>4 DEF IInv, TypeOK, Active
<1>6. QED
  BY <1>1, <1>5 DEF IInv, IdsAreInOrder, ListingIsExact, TotalIsCurrent, PushIsComplete,
     PushIsNew, PushedIsMarked, MarkMeansPushed, PushedOnce, Active

(* The bot goes to sleep, or to the first page, without having sent         *)
(* anything since it woke up, or with a fault.                              *)
LEMMA FromTheStartKeeps ==
  ASSUME IInv, UNCHANGED <<alerts, shifted, mark, pushed, repeated>>,
         linked' \in [User -> Token], links' \in 0 .. LinkLimit, faults' \in 0 .. FaultLimit,
         (bot.pc # "push" /\ faults' = faults) \/ faults' # 0,
         bot' \in Bot, bot'.pc \in {"idle", "fetch"}, bot'.offset = 0, bot'.top = 0,
         \A a \in AlertId : bot'.listed[a] = 0 /\ bot'.todo[a] = 0
  PROVE  IInv'
<1>1. Active' = Active
  BY DEF Active
<1>2. \A a \in AlertId : a \in Nat /\ a > 0
  BY AlertPushAssumption DEF AlertId
<1>3. TypeOK'
  BY <1>1 DEF IInv, TypeOK
<1>4. IdsAreInOrder'
  BY <1>2 DEF IInv, IdsAreInOrder
<1>5. ListingIsExact'
  <2>1. ASSUME NEW a \in AlertId PROVE ~(RankIn(Active, a) < 0)
    <3>1. Active \subseteq AlertId
      BY DEF Active
    <3>2. RankIn(Active, a) \in Nat
      BY <3>1, RankType
    <3>3. QED
      BY <3>2
  <2>2. QED
    BY <1>1, <2>1 DEF ListingIsExact
<1>6. TotalIsCurrent' /\ PushIsComplete' /\ PushIsNew'
  BY DEF TotalIsCurrent, PushIsComplete, PushIsNew
<1>7. PushedIsMarked'
  BY <1>1 DEF IInv, PushedIsMarked
<1>8. MarkMeansPushed'
  BY <1>1 DEF IInv, MarkMeansPushed
<1>9. PushedOnce'
  <2>1. faults # 0 <=> faults > 0
    BY AlertPushAssumption DEF IInv, TypeOK
  <2>2. faults' # 0 <=> faults' > 0
    BY AlertPushAssumption
  <2>3. QED
    BY <2>1, <2>2 DEF IInv, PushedOnce
<1>10. QED
  BY <1>3, <1>4, <1>5, <1>6, <1>7, <1>8, <1>9 DEF IInv

LEMMA StartTickKeeps ==
  ASSUME IInv, StartTick
  PROVE  IInv'
<1>1. linked \in [User -> Token] /\ bot' = [Asleep EXCEPT !.pc = "fetch", !.try = linked]
  BY DEF IInv, TypeOK, StartTick
<1>2. /\ bot' \in Bot /\ bot'.pc = "fetch" /\ bot'.offset = 0 /\ bot'.top = 0
      /\ \A a \in AlertId : bot'.listed[a] = 0 /\ bot'.todo[a] = 0
  BY <1>1, FetchingFields
<1>3. /\ UNCHANGED <<alerts, shifted, mark, pushed, repeated, linked, links, faults>>
      /\ bot.pc # "push"
  BY DEF StartTick, AlertsUnchanged
<1>4. linked' \in [User -> Token] /\ links' \in 0 .. LinkLimit /\ faults' \in 0 .. FaultLimit
  BY <1>3 DEF IInv, TypeOK
<1>5. QED
  BY <1>2, <1>3, <1>4, FromTheStartKeeps

LEMMA UnauthorizedKeeps ==
  ASSUME IInv, NEW u \in User, Unauthorized(u)
  PROVE  IInv'
<1> DEFINE try == [bot.try EXCEPT ![u] = "none"]
<1>1. try \in [User -> Token]
  BY DEF IInv, TypeOK, Bot, Token
<1>2. bot' = Asleep \/ bot' = [Asleep EXCEPT !.pc = "fetch", !.try = try]
  BY DEF Unauthorized
<1>3. /\ bot' \in Bot /\ bot'.pc \in {"idle", "fetch"} /\ bot'.offset = 0 /\ bot'.top = 0
      /\ \A a \in AlertId : bot'.listed[a] = 0 /\ bot'.todo[a] = 0
  <2>1. CASE bot' = Asleep
    BY <2>1, AsleepFields
  <2>2. CASE bot' = [Asleep EXCEPT !.pc = "fetch", !.try = try]
    <3> HIDE DEF try
    <3>1. QED
      BY <1>1, <2>2, FetchingFields
  <2>3. QED
    BY <1>2, <2>1, <2>2
<1>4. /\ UNCHANGED <<alerts, shifted, mark, pushed, repeated, links, faults>>
      /\ bot.pc # "push"
  BY DEF Unauthorized, Trying, AlertsUnchanged
<1>5. linked' \in [User -> Token]
  BY DEF Unauthorized, IInv, TypeOK, Token
<1>6. links' \in 0 .. LinkLimit /\ faults' \in 0 .. FaultLimit
  BY <1>4 DEF IInv, TypeOK
<1>7. QED
  BY <1>3, <1>4, <1>5, <1>6, FromTheStartKeeps

LEMMA TickEndsKeeps ==
  ASSUME IInv, TickFails \/ \E u \in User : Undecryptable(u)
  PROVE  IInv'
<1>1. /\ UNCHANGED <<alerts, shifted, mark, pushed, repeated, linked, links>>
      /\ bot' = Asleep
      /\ (bot.pc # "push" /\ faults' = faults) \/ Fault
  BY DEF TickFails, Undecryptable, Trying, AlertsUnchanged
<1>2. linked' \in [User -> Token] /\ links' \in 0 .. LinkLimit
  BY <1>1 DEF IInv, TypeOK
<1>3. faults' \in 0 .. FaultLimit /\ ((bot.pc # "push" /\ faults' = faults) \/ faults' # 0)
  BY <1>1, FaultsKeep DEF IInv, TypeOK
<1>4. QED
  BY <1>1, <1>2, <1>3, AsleepFields, FromTheStartKeeps

----
(* Pages.                                                                   *)

(* What a page adds to an exact listing: the listing up to the next offset, *)
(* which is the whole list once the page is the last one.                   *)
CountUpTo(S, offset, a) == IF a \in S /\ RankIn(S, a) < offset THEN 1 ELSE 0
NextOffset(S, offset) == offset + Cardinality(PageOf(S, offset))
IsLast(S, offset) == PageOf(S, offset) = {} \/ ~(NextOffset(S, offset) < Cardinality(S))

LEMMA PageCompletes ==
  ASSUME NEW S, S \subseteq AlertId, NEW offset \in Nat, NEW a \in AlertId
  PROVE  LET count == CountUpTo(S, offset, a) + (IF a \in PageOf(S, offset) THEN 1 ELSE 0) IN
         /\ count = CountUpTo(S, NextOffset(S, offset), a)
         /\ IsLast(S, offset) => count = IF a \in S THEN 1 ELSE 0
<1> DEFINE page == PageOf(S, offset)
           next == offset + Cardinality(page)
           before == CountUpTo(S, offset, a)
           count == before + (IF a \in page THEN 1 ELSE 0)
<1>1. RankIn(S, a) \in Nat /\ (a \in S => RankIn(S, a) < Cardinality(S))
  BY RankType
<1>2. Cardinality(page) \in Nat /\ Cardinality(page) <= Page
  BY PageSize
<1>3. Cardinality(S) \in Nat /\ Page \in Nat
  BY AlertsAreFinite, AlertPushAssumption
<1>4. a \in page => a \in S /\ RankIn(S, a) >= offset /\ RankIn(S, a) < next
  BY PageHasNoGap DEF PageOf
<1>5. a \in S /\ RankIn(S, a) >= offset /\ RankIn(S, a) < offset + Page => a \in page
  <2>1. RankIn(S, a) >= offset /\ RankIn(S, a) < offset + Page
        => RankIn(S, a) \in offset .. offset + Page - 1
    BY <1>1, <1>3
  <2>2. QED
    BY <2>1 DEF PageOf
<1>6. page = {} => (a \in S => RankIn(S, a) < offset)
  BY EmptyPageIsLast
<1>7. before = IF a \in S /\ RankIn(S, a) < offset THEN 1 ELSE 0
  BY DEF CountUpTo
<1>8. count = IF a \in S /\ RankIn(S, a) < next THEN 1 ELSE 0
  <2> HIDE DEF page, before
  <2>1. CASE a \in page
    BY <1>1, <1>2, <1>4, <1>7, <2>1
  <2>2. CASE a \notin page
    BY <1>1, <1>2, <1>3, <1>5, <1>7, <2>2
  <2>3. QED
    BY <2>1, <2>2
<1>9. page = {} \/ ~(next < Cardinality(S)) => (a \in S => RankIn(S, a) < next)
  <2> HIDE DEF page
  <2>1. QED
    BY <1>1, <1>2, <1>3, <1>6
<1>10. QED
  <2>1. next = NextOffset(S, offset)
    BY DEF NextOffset
  <2>2. IsLast(S, offset) <=> page = {} \/ ~(next < Cardinality(S))
    BY <2>1 DEF IsLast
  <2> HIDE DEF count, next, page
  <2>3. /\ count = CountUpTo(S, NextOffset(S, offset), a)
        /\ IsLast(S, offset) => count = IF a \in S THEN 1 ELSE 0
    BY <1>8, <1>9, <2>1, <2>2 DEF CountUpTo
  <2>4. QED
    BY <2>3 DEF count, page

LEMMA OnPageIsPage == ASSUME NEW offset PROVE OnPage(offset) = PageOf(Active, offset)
  BY DEF OnPage, PageOf, RankIn

LEMMA CountAlertsKeeps ==
  ASSUME IInv, NEW u \in User, CountAlerts(u)
  PROVE  IInv'
<1>1. /\ bot \in Bot /\ bot.pc = "fetch"
      /\ bot' = [bot EXCEPT !.pc = "counted", !.total = Cardinality(Active)]
  BY DEF CountAlerts, Trying, IInv, TypeOK
<1>2. UNCHANGED <<alerts, shifted, linked, mark, pushed, repeated, links, faults>>
  BY DEF CountAlerts, AlertsUnchanged
<1>3. Active' = Active /\ Cardinality(Active) \in Nat
  <2>1. Active \subseteq AlertId
    BY DEF Active
  <2>2. QED
    BY <1>2, <2>1, AlertsAreFinite DEF Active
<1>4. /\ bot' \in Bot /\ bot'.pc = "counted" /\ bot'.total = Cardinality(Active)
      /\ bot'.offset = bot.offset /\ bot'.listed = bot.listed
      /\ bot'.todo = bot.todo /\ bot'.top = bot.top
  BY <1>1, <1>3 DEF Bot
<1>5. TypeOK'
  BY <1>2, <1>3, <1>4 DEF IInv, TypeOK
<1>6. IdsAreInOrder'
  BY <1>2, <1>4 DEF IInv, IdsAreInOrder
<1>7. ListingIsExact'
  BY <1>1, <1>2, <1>3, <1>4 DEF IInv, ListingIsExact
<1>8. TotalIsCurrent' /\ PushIsComplete' /\ PushIsNew'
  BY <1>3, <1>4 DEF TotalIsCurrent, PushIsComplete, PushIsNew
<1>9. PushedIsMarked' /\ MarkMeansPushed' /\ PushedOnce'
  BY <1>1, <1>2, <1>3 DEF IInv, PushedIsMarked, MarkMeansPushed, PushedOnce
<1>10. QED
  BY <1>5, <1>6, <1>7, <1>8, <1>9 DEF IInv

LEMMA FetchItemsKeeps ==
  ASSUME IInv, FetchItems
  PROVE  IInv'
<1> DEFINE page == OnPage(bot.offset)
           offset == bot.offset + Cardinality(page)
           listed == [a \in AlertId |-> bot.listed[a] + (IF a \in page THEN 1 ELSE 0)]
           more == page # {} /\ offset < bot.total
<1>1. /\ bot \in Bot /\ bot.pc = "counted" /\ bot.offset \in Nat
      /\ bot.listed \in [AlertId -> Nat] /\ bot.top \in 0 .. MaxAlert
      /\ mark \in 0 .. MaxAlert
  BY DEF FetchItems, IInv, TypeOK, Bot
<1>2. UNCHANGED <<alerts, shifted, linked, mark, pushed, repeated, links, faults>>
  BY DEF FetchItems, AlertsUnchanged
<1>3. Active' = Active /\ Active \subseteq AlertId /\ page \subseteq Active
  BY <1>2 DEF Active, OnPage
<1>4. listed \in [AlertId -> Nat] /\ offset \in Nat
  <2>1. Cardinality(page) \in Nat
    BY <1>3, AlertsAreFinite
  <2>2. QED
    BY <1>1, <2>1
<1>5. \A a \in AlertId : alerts[a].status = "ABSENT" => listed[a] = 0
  BY <1>1, <1>3 DEF IInv, IdsAreInOrder, Active
<1>6. ASSUME ~shifted, NEW a \in AlertId
      PROVE  /\ listed[a] = IF a \in Active /\ RankIn(Active, a) < offset THEN 1 ELSE 0
             /\ ~more => listed[a] = IF a \in Active THEN 1 ELSE 0
  <2>1. page = PageOf(Active, bot.offset)
    BY <1>1, OnPageIsPage
  <2>2. bot.listed[a] = CountUpTo(Active, bot.offset, a)
    BY <1>1, <1>6 DEF IInv, ListingIsExact, CountUpTo
  <2>3. listed[a] = CountUpTo(Active, bot.offset, a)
                    + (IF a \in PageOf(Active, bot.offset) THEN 1 ELSE 0)
    BY <2>1, <2>2
  <2>4. offset = NextOffset(Active, bot.offset) /\ (~more => IsLast(Active, bot.offset))
    <3>1. bot.total = Cardinality(Active)
      BY <1>1, <1>6 DEF IInv, TotalIsCurrent
    <3>2. QED
      BY <2>1, <3>1 DEF NextOffset, IsLast
  <2> HIDE DEF listed, page, offset, more
  <2>5. /\ listed[a] = CountUpTo(Active, NextOffset(Active, bot.offset), a)
        /\ IsLast(Active, bot.offset) => listed[a] = IF a \in Active THEN 1 ELSE 0
    BY <1>1, <1>3, <2>3, PageCompletes
  <2>6. QED
    BY <2>4, <2>5 DEF CountUpTo
<1>7. CASE more
  <2>1. bot' = [bot EXCEPT !.pc = "fetch", !.offset = offset, !.total = 0, !.listed = listed]
    BY <1>7 DEF FetchItems
  <2> HIDE DEF offset, listed, page, more
  <2>2. /\ bot' \in Bot /\ bot'.pc = "fetch" /\ bot'.offset = offset /\ bot'.listed = listed
        /\ bot'.todo = bot.todo /\ bot'.top = bot.top
    BY <1>1, <1>4, <2>1 DEF Bot
  <2>3. TypeOK'
    BY <1>2, <1>3, <2>2 DEF IInv, TypeOK
  <2>4. IdsAreInOrder'
    BY <1>2, <1>5, <2>2 DEF IInv, IdsAreInOrder
  <2>5. ListingIsExact'
    BY <1>2, <1>3, <1>6, <2>2 DEF ListingIsExact
  <2>6. TotalIsCurrent' /\ PushIsComplete' /\ PushIsNew'
    BY <2>2 DEF TotalIsCurrent, PushIsComplete, PushIsNew
  <2>7. PushedIsMarked' /\ MarkMeansPushed' /\ PushedOnce'
    BY <1>1, <1>2, <1>3 DEF IInv, PushedIsMarked, MarkMeansPushed, PushedOnce
  <2>8. QED
    BY <2>3, <2>4, <2>5, <2>6, <2>7 DEF IInv
<1>8. CASE ~more
  <2> DEFINE seen == {a \in AlertId : listed[a] > 0}
             todo == ToSend(listed)
             top == NewMark(listed)
  <2>1. bot' = [Asleep EXCEPT !.pc = "push", !.todo = todo, !.top = top]
    BY <1>8 DEF FetchItems
  <2> HIDE DEF offset, listed, page, more
  <2>2. /\ todo \in [AlertId -> Nat]
        /\ \A a \in AlertId : todo[a] = IF a > mark THEN listed[a] ELSE 0
    BY <1>4 DEF ToSend
  <2>3. /\ seen = {} => top = mark
        /\ seen # {} => top \in seen /\ \A a \in seen : top >= a
    <3>1. top = Highest(seen, mark)
      BY DEF NewMark
    <3>2. seen \subseteq AlertId
      OBVIOUS
    <3> HIDE DEF seen, top
    <3>3. QED
      BY <3>1, <3>2, MaxFacts DEF Highest
  <2>4. \A a \in AlertId : a \in Nat /\ a \in 0 .. MaxAlert
    BY AlertPushAssumption DEF AlertId
  <2>5. top \in 0 .. MaxAlert /\ top \in Nat
    BY <1>1, <2>3, <2>4, AlertPushAssumption
  <2> HIDE DEF todo, top, seen
  <2>6. /\ bot' \in Bot /\ bot'.pc = "push" /\ bot'.top = top /\ bot'.todo = todo
        /\ \A a \in AlertId : bot'.listed[a] = 0
    <3>1. todo \in [AlertId -> Nat] /\ top \in 0 .. MaxAlert
      BY <2>2, <2>5
    <3>2. QED
      BY <2>1, <3>1 DEF Asleep, Bot, Token
  <2>7. TypeOK'
    BY <1>2, <1>3, <2>6 DEF IInv, TypeOK
  <2>8. IdsAreInOrder'
    <3>1. ASSUME NEW a \in AlertId, alerts[a].status = "ABSENT"
          PROVE  a > top /\ todo[a] = 0
      <4>1. a > mark /\ listed[a] = 0
        BY <1>5, <3>1 DEF IInv, IdsAreInOrder
      <4>2. a > top
        <5>1. CASE seen = {}
          BY <2>3, <4>1, <5>1
        <5>2. CASE seen # {}
          <6>1. top \in AlertId /\ listed[top] > 0 /\ top # a
            BY <2>3, <4>1, <5>2 DEF seen
          <6>2. alerts[top].status # "ABSENT"
            BY <1>5, <6>1
          <6>3. ~(a < top)
            BY <3>1, <6>1, <6>2 DEF IInv, IdsAreInOrder
          <6>4. QED
            BY <2>4, <2>5, <6>1, <6>3
        <5>3. QED
          BY <5>1, <5>2
      <4>3. QED
        BY <2>2, <4>1, <4>2
    <3>2. QED
      BY <1>2, <2>6, <3>1 DEF IInv, IdsAreInOrder
  <2>9. ASSUME ~shifted, NEW a \in Active PROVE listed[a] = 1 /\ a \in seen /\ a <= top
    <3>1. a \in AlertId /\ listed[a] = 1
      BY <1>3, <1>6, <1>8, <2>9
    <3>2. a \in seen
      BY <3>1 DEF seen
    <3>3. QED
      BY <2>3, <2>4, <2>5, <3>1, <3>2
  <2>10. ListingIsExact' /\ TotalIsCurrent' /\ PushedIsMarked'
    BY <2>6 DEF ListingIsExact, TotalIsCurrent, PushedIsMarked
  <2>11. PushIsComplete'
    <3>1. ASSUME ~shifted, NEW a \in Active PROVE a \in pushed \/ todo[a] > 0
      <4>1. a \in AlertId /\ listed[a] = 1
        BY <1>3, <2>9, <3>1
      <4>2. CASE a > mark
        BY <2>2, <4>1, <4>2
      <4>3. CASE ~(a > mark)
        <5>1. a <= mark
          BY <1>1, <2>4, <4>1, <4>3
        <5>2. QED
          BY <3>1, <5>1 DEF IInv, MarkMeansPushed
      <4>4. QED
        BY <4>2, <4>3
    <3>2. QED
      BY <1>2, <1>3, <2>6, <3>1 DEF PushIsComplete
  <2>12. PushIsNew'
    <3> SUFFICES ASSUME faults = 0, ~shifted
                 PROVE  /\ \A a \in AlertId : todo[a] > 0 =>
                             todo[a] = 1 /\ a \notin pushed /\ a <= top
                        /\ \A a \in Active : a \in pushed => a <= top
      BY <1>2, <1>3, <2>6 DEF PushIsNew
    <3>1. ASSUME NEW a \in AlertId, todo[a] > 0
          PROVE  todo[a] = 1 /\ a \notin pushed /\ a <= top
      <4>1. a > mark /\ todo[a] = listed[a]
        BY <2>2, <3>1
      <4>2. a \in Active
        BY <1>6, <1>8, <3>1, <4>1
      <4>3. a \notin pushed
        <5>1. a \in pushed => a <= mark
          BY <1>1, <4>2 DEF IInv, PushedIsMarked
        <5>2. QED
          BY <1>1, <2>4, <4>1, <5>1
      <4>4. QED
        BY <2>9, <4>1, <4>2, <4>3
    <3>2. QED
      BY <2>9, <3>1
  <2>13. MarkMeansPushed' /\ PushedOnce'
    BY <1>2, <1>3 DEF IInv, MarkMeansPushed, PushedOnce
  <2>14. QED
    BY <2>7, <2>8, <2>10, <2>11, <2>12, <2>13 DEF IInv
<1>9. QED
  BY <1>7, <1>8

----
(* Sending, and the mark.                                                   *)

LEMMA PushKeeps ==
  ASSUME IInv, NEW a \in AlertId, Push(a)
  PROVE  IInv'
<1>1. /\ bot \in Bot /\ bot.pc = "push" /\ bot.todo \in [AlertId -> Nat] /\ bot.todo[a] > 0
      /\ bot' = [bot EXCEPT !.todo[a] = @ - 1]
      /\ pushed' = pushed \cup {a}
      /\ repeated' = IF a \in pushed THEN repeated \cup {a} ELSE repeated
  BY DEF Push, IInv, TypeOK, Bot
<1>2. UNCHANGED <<alerts, shifted, linked, mark, links, faults>>
  BY DEF Push, AlertsUnchanged
<1>3. Active' = Active /\ Active \subseteq AlertId
  BY <1>2 DEF Active
<1>4. /\ bot' \in Bot /\ bot'.pc = "push" /\ bot'.top = bot.top /\ bot'.listed = bot.listed
      /\ \A b \in AlertId : bot'.todo[b] = IF b = a THEN bot.todo[a] - 1 ELSE bot.todo[b]
  <2>1. bot.todo[a] - 1 \in Nat
    BY <1>1
  <2>2. QED
    BY <1>1, <2>1 DEF Bot
<1>5. TypeOK'
  BY <1>1, <1>2, <1>3, <1>4 DEF IInv, TypeOK
<1>6. IdsAreInOrder'
  BY <1>1, <1>2, <1>4 DEF IInv, IdsAreInOrder
<1>7. ListingIsExact' /\ TotalIsCurrent' /\ PushedIsMarked'
  BY <1>4 DEF ListingIsExact, TotalIsCurrent, PushedIsMarked
<1>8. PushIsComplete'
  BY <1>1, <1>2, <1>3, <1>4 DEF IInv, PushIsComplete
<1>9. PushIsNew'
  BY <1>1, <1>2, <1>3, <1>4 DEF IInv, PushIsNew
<1>10. MarkMeansPushed'
  BY <1>1, <1>2, <1>3 DEF IInv, MarkMeansPushed
<1>11. PushedOnce'
  <2>1. faults \in Nat
    BY AlertPushAssumption DEF IInv, TypeOK
  <2>2. CASE faults = 0 /\ ~shifted
    <3>1. a \notin pushed
      BY <1>1, <2>2 DEF IInv, PushIsNew
    <3>2. QED
      BY <1>1, <1>2, <3>1 DEF IInv, PushedOnce
  <2>3. QED
    BY <1>2, <2>1, <2>2 DEF PushedOnce
<1>12. QED
  BY <1>5, <1>6, <1>7, <1>8, <1>9, <1>10, <1>11 DEF IInv

LEMMA SaveMarkKeeps ==
  ASSUME IInv, SaveMark
  PROVE  IInv'
<1>1. /\ bot \in Bot /\ bot.pc = "push" /\ bot.top \in 0 .. MaxAlert
      /\ \A a \in AlertId : bot.todo[a] = 0
      /\ mark' = bot.top /\ bot' = Asleep
  BY DEF SaveMark, IInv, TypeOK, Bot
<1>2. UNCHANGED <<alerts, shifted, linked, pushed, repeated, links, faults>>
  BY DEF SaveMark, AlertsUnchanged
<1>3. Active' = Active /\ Active \subseteq AlertId
  BY <1>2 DEF Active
<1>4. \A a \in AlertId : a > 0
  BY AlertPushAssumption DEF AlertId
<1>5. TypeOK'
  BY <1>1, <1>2, <1>3, AsleepFields DEF IInv, TypeOK
<1>6. IdsAreInOrder'
  BY <1>1, <1>2, <1>4, AsleepFields DEF IInv, IdsAreInOrder
<1>7. ListingIsExact' /\ TotalIsCurrent' /\ PushIsComplete' /\ PushIsNew'
  BY <1>1, AsleepFields DEF ListingIsExact, TotalIsCurrent, PushIsComplete, PushIsNew
<1>8. PushedIsMarked'
  BY <1>1, <1>2, <1>3 DEF IInv, PushIsNew, PushedIsMarked
<1>9. MarkMeansPushed'
  <2>1. ASSUME ~shifted, NEW a \in Active, a <= bot.top PROVE a \in pushed
    <3>1. a \in AlertId /\ ~(bot.todo[a] > 0)
      BY <1>1, <1>3
    <3>2. QED
      BY <1>1, <2>1, <3>1 DEF IInv, PushIsComplete
  <2>2. QED
    BY <1>1, <1>2, <1>3, <2>1 DEF MarkMeansPushed
<1>10. PushedOnce'
  BY <1>2 DEF IInv, PushedOnce
<1>11. QED
  BY <1>5, <1>6, <1>7, <1>8, <1>9, <1>10 DEF IInv

----
LEMMA InitIInv == Init => IInv
<1> SUFFICES ASSUME Init PROVE IInv
  OBVIOUS
<1>1. /\ alerts = [a \in AlertId |-> NoAlert]
      /\ linked = [u \in User |-> "none"]
      /\ mark = 0 /\ bot = Asleep /\ pushed = {} /\ repeated = {}
      /\ shifted = FALSE /\ links = 0 /\ faults = 0
  BY DEF Init
<1>2. Active = {} /\ NoAlert \in AlertRow
  BY <1>1 DEF Active, NoAlert, AlertRow
<1>3. \A a \in AlertId : a > 0
  BY AlertPushAssumption DEF AlertId
<1>4. TypeOK
  <2>1. alerts \in [AlertId -> AlertRow] /\ linked \in [User -> Token]
    BY <1>1, <1>2 DEF Token
  <2>2. mark \in 0 .. MaxAlert /\ links \in 0 .. LinkLimit /\ faults \in 0 .. FaultLimit
    BY <1>1, AlertPushAssumption
  <2>3. QED
    BY <1>1, <1>2, <2>1, <2>2, AsleepFields DEF TypeOK
<1>5. IdsAreInOrder
  BY <1>1, <1>3, AsleepFields DEF IdsAreInOrder, NoAlert
<1>6. ListingIsExact /\ TotalIsCurrent /\ PushIsComplete /\ PushIsNew
  BY <1>1, AsleepFields DEF ListingIsExact, TotalIsCurrent, PushIsComplete, PushIsNew
<1>7. PushedIsMarked /\ MarkMeansPushed /\ PushedOnce
  BY <1>1, <1>2 DEF PushedIsMarked, MarkMeansPushed, PushedOnce
<1>8. QED
  BY <1>4, <1>5, <1>6, <1>7 DEF IInv

LEMMA NextIInv == IInv /\ [Next]_vars => IInv'
<1> SUFFICES ASSUME IInv, [Next]_vars PROVE IInv'
  OBVIOUS
<1>1. CASE BotStep
  <2>1. CASE StartTick
    BY <2>1, StartTickKeeps
  <2>2. CASE \E u \in User : CountAlerts(u)
    BY <2>2, CountAlertsKeeps
  <2>3. CASE FetchItems
    BY <2>3, FetchItemsKeeps
  <2>4. CASE \E u \in User : Unauthorized(u)
    BY <2>4, UnauthorizedKeeps
  <2>5. CASE \E u \in User : Undecryptable(u)
    BY <2>5, TickEndsKeeps
  <2>6. CASE \E a \in AlertId : Push(a)
    BY <2>6, PushKeeps
  <2>7. CASE SaveMark
    BY <2>7, SaveMarkKeeps
  <2>8. QED
    BY <1>1, <2>1, <2>2, <2>3, <2>4, <2>5, <2>6, <2>7 DEF BotStep
<1>2. CASE TickFails
  BY <1>2, TickEndsKeeps
<1>3. CASE Backend
  BY <1>3, BackendKeeps
<1>4. CASE Users
  BY <1>4, UsersKeep
<1>5. CASE UNCHANGED vars
  BY <1>5 DEF vars, IInv, TypeOK, Active, IdsAreInOrder, ListingIsExact, RankIn, TotalIsCurrent,
     PushIsComplete, PushIsNew, PushedIsMarked, MarkMeansPushed, PushedOnce
<1>6. QED
  BY <1>1, <1>2, <1>3, <1>4, <1>5 DEF Next

(* The inductive invariant holds in every behaviour.                        *)
THEOREM Inductive == Spec => []IInv
  BY InitIInv, NextIInv, PTL DEF Spec

(* The variables keep their types, and raise_alert_if_absent leaves at most *)
(* one ACTIVE alert of a condition.                                         *)
THEOREM TypeCorrect == Spec => []TypeOK
<1>1. IInv => TypeOK
  BY DEF IInv
<1>2. QED
  BY <1>1, Inductive, PTL

(* _run_poll_tick: the mark it saves never passes an alert that is still    *)
(* ACTIVE and was not sent, as long as no listing is disturbed while it is  *)
(* read, between the two SELECTs of list_alerts or between two pages:       *)
(* whatever fails, whoever is unlinked, whatever is resolved.               *)
THEOREM MarkPushed == Spec => []MarkMeansPushed
<1>1. IInv => MarkMeansPushed
  BY DEF IInv
<1>2. QED
  BY <1>1, Inductive, PTL

(* _run_poll_tick: without a lost tick and a listing disturbed while it was *)
(* read, no alert is sent twice, although the mark may move back.           *)
THEOREM SentOnce == Spec => []PushedOnce
<1>1. IInv => PushedOnce
  BY DEF IInv
<1>2. QED
  BY <1>1, Inductive, PTL

====
