---------------------------- MODULE DiscoverProofs ----------------------------
(***************************************************************************)
(* Proofs about both ways of discovery: by subscriptions, for any number   *)
(* of subscriptions and tags and for every order of iterating a map, and   *)
(* by applications, for any number of them and any list of tags.           *)
(***************************************************************************)
EXTENDS Discover, LoopsProofs

(* The tags of the last reply that were iterated and describe a cluster. *)
Taken == Wanted(Last(replies)) \cap seen

(* The replies so far, and what is in clusters while one is being read.     *)
Replies ==
  /\ replies \in Seq(Reply \cup {Unreachable})
  /\ \A i \in 1 .. Len(replies) - 1 : ~Good(replies[i])
  /\ pc = "try" /\ replies # <<>> => ~Good(Last(replies))

Reading ==
  pc = "tags" =>
    /\ replies # <<>> /\ Last(replies) # Unreachable
    /\ seen \subseteq DOMAIN Last(replies)
    /\ clusters \in Seq(Objects)
    /\ ToSet(clusters) = {Last(replies)[k] : k \in Taken}
    /\ \A k \in Taken : Last(replies)[k] # Malformed /\ Complete(Last(replies)[k])

Progress ==
  /\ pc \in {"start", "list", "credential", "pages"} => replies = <<>>
  /\ pc \in {"start", "list"} => ids = <<>>
  /\ pc \notin {"print", "done"} => apps = Unreachable
  /\ pc # "done" => error = "none"

(* The inductive invariant. *)
IInv == Replies /\ Reading /\ Progress /\ FirstFoundIsUsed /\ NoGoodOneIsMissed

(* No page, reply or list of applications is mistaken for a failed request. *)
LEMMA Answers ==
  ASSUME NEW reply \in Reply \cup {Unreachable}, reply # Unreachable
  PROVE  /\ DOMAIN reply \subseteq Keys
         /\ \A k \in DOMAIN reply : reply[k] \in Objects \cup {Nil, Malformed}
BY DEF Reply

(* A tag of ours that is broken disqualifies its subscription. *)
LEMMA BrokenIsNotGood ==
  ASSUME NEW reply, NEW k \in DOMAIN reply \cap Ours, reply[k] # Nil,
         reply[k] = Malformed \/ ~Complete(reply[k])
  PROVE  ~Good(reply)
BY DEF Good, Wanted

(* When every tag was iterated, those that describe clusters were taken. *)
LEMMA AllTaken ==
  ASSUME Reading, pc = "tags", seen = DOMAIN Last(replies)
  PROVE  /\ Taken = Wanted(Last(replies))
         /\ ToSet(clusters) = {Last(replies)[k] : k \in Wanted(Last(replies))}
         /\ Good(Last(replies)) <=> Wanted(Last(replies)) # {}
         /\ clusters = <<>> <=> Wanted(Last(replies)) = {}
<1>1. Taken = Wanted(Last(replies))
  BY DEF Taken, Wanted
<1>2. clusters \in Seq(Objects) /\ Last(replies) # Unreachable
  BY DEF Reading
<1>3. ToSet(clusters) = {Last(replies)[k] : k \in Wanted(Last(replies))}
  BY <1>1 DEF Reading
<1>4. \A k \in Wanted(Last(replies)) : Last(replies)[k] # Malformed /\ Complete(Last(replies)[k])
  BY <1>1 DEF Reading
<1>5. clusters = <<>> <=> ToSet(clusters) = {}
  BY <1>2 DEF ToSet
<1>6. ToSet(clusters) = {} <=> Wanted(Last(replies)) = {}
  BY <1>3
<1> QED
  BY <1>1, <1>2, <1>3, <1>4, <1>5, <1>6 DEF Good

(* A cluster appended to the list is one more element of its set. *)
LEMMA AppendToSet ==
  ASSUME NEW S, NEW s \in Seq(S), NEW x
  PROVE  ToSet(Append(s, x)) = ToSet(s) \cup {x}
BY DEF ToSet

------------------------------------------------------------------------------
(* The variable after each turn of the loop of Tagged.                      *)
IsTagLoop(text, tags, kind) ==
  text = [i \in 0 .. Len(tags) |->
            IF i = 0 THEN Empty
            ELSE IF tags[i].kind = kind /\ tags[i].text # Empty THEN tags[i].text
            ELSE text[i - 1]]

(* It is a function with these values. *)
LEMMA TagTurns ==
  ASSUME NEW tags, Len(tags) \in Nat, NEW kind, NEW text
  PROVE  IsTagLoop(text, tags, kind) <=>
           /\ text = [i \in 0 .. Len(tags) |-> text[i]]
           /\ text[0] = Empty
           /\ \A i \in 1 .. Len(tags) :
                text[i] = IF tags[i].kind = kind /\ tags[i].text # Empty THEN tags[i].text
                          ELSE text[i - 1]
<1> DEFINE Value(i) == IF i = 0 THEN Empty
                       ELSE IF tags[i].kind = kind /\ tags[i].text # Empty THEN tags[i].text
                       ELSE text[i - 1]
<1>1. IsTagLoop(text, tags, kind) <=> text = [i \in 0 .. Len(tags) |-> Value(i)]
  BY DEF IsTagLoop
<1>2. /\ Value(0) = Empty
      /\ \A i \in 1 .. Len(tags) :
           Value(i) = IF tags[i].kind = kind /\ tags[i].text # Empty THEN tags[i].text
                      ELSE text[i - 1]
  OBVIOUS
<1>3. 0 .. Len(tags) = {0} \cup 1 .. Len(tags)
  OBVIOUS
<1> HIDE DEF Value
<1> QED
  BY <1>1, <1>2, <1>3

(* The recursive function in Tagged is one. *)
LEMMA TaggedLoops ==
  ASSUME NEW tags \in Seq(TagType), NEW kind
  PROVE  \E text : IsTagLoop(text, tags, kind) /\ Tagged(tags, kind) = text[Len(tags)]
<1> DEFINE n == Len(tags)
           Turn == [i \in 1 .. n |->
                      [x \in Field |-> IF tags[i].kind = kind /\ tags[i].text # Empty
                                       THEN tags[i].text ELSE x]]
           Loop == CHOOSE text : IsTagLoop(text, tags, kind)
<1>1. n \in Nat /\ Empty \in Field /\ \A i \in 1 .. n : tags[i].text \in Field
  <2>1. \A i \in 1 .. n : tags[i] \in TagType
    OBVIOUS
  <2>2. \A i \in 1 .. n : tags[i].text \in Field
    BY <2>1 DEF TagType
  <2> QED
    BY <2>2 DEF Field
<1>2. \E text : IsTagLoop(text, tags, kind)
  <2>1. \A i \in 1 .. n : \A x \in Field : Turn[i][x] \in Field
    BY <1>1
  <2> HIDE DEF n, Turn
  <2>2. \E g : g \in Runs(n, Field, Empty, Turn)
    BY <1>1, <2>1, LoopRuns
  <2>3. PICK g \in [0 .. n -> Field] :
          g[0] = Empty /\ \A i \in 1 .. n : g[i] = Turn[i][g[i - 1]]
    BY <2>2 DEF Runs
  <2>4. ASSUME NEW i \in 1 .. n
        PROVE  g[i] = IF tags[i].kind = kind /\ tags[i].text # Empty THEN tags[i].text
                      ELSE g[i - 1]
    <3>1. g[i - 1] \in Field
      BY <1>1, <2>3
    <3> QED
      BY <2>3, <3>1 DEF Turn
  <2>5. g = [i \in 0 .. Len(tags) |-> g[i]]
    BY <2>3 DEF n
  <2>6. IsTagLoop(g, tags, kind)
    BY <1>1, <2>3, <2>4, <2>5, TagTurns DEF n
  <2> QED
    BY <2>6
<1>3. IsTagLoop(Loop, tags, kind)
  BY <1>2
<1>4. Tagged(tags, kind) = Loop[n]
  BY DEF Tagged, IsTagLoop
<1> QED
  BY <1>3, <1>4

(* A tag counts unless it is empty or a later one says something else.      *)
LEMMA TaggedSays ==
  ASSUME NEW tags \in Seq(TagType), NEW kind
  PROVE  LET said == {j \in DOMAIN tags : tags[j].kind = kind /\ tags[j].text # Empty}
         IN IF said = {} THEN Tagged(tags, kind) = Empty
            ELSE \E j \in said : tags[j].text = Tagged(tags, kind) /\ \A k \in said : k <= j
<1> DEFINE n == Len(tags)
           said == {j \in 1 .. n : tags[j].kind = kind /\ tags[j].text # Empty}
           Upto(i) == {j \in said : j <= i}
<1>1. n \in Nat /\ DOMAIN tags = 1 .. n
  OBVIOUS
<1>2. PICK text : IsTagLoop(text, tags, kind) /\ Tagged(tags, kind) = text[n]
  BY TaggedLoops
<1>3. /\ text[0] = Empty
      /\ \A i \in 1 .. n : text[i] = IF i \in said THEN tags[i].text ELSE text[i - 1]
  BY <1>1, <1>2, TagTurns
<1> HIDE DEF n
<1> DEFINE Right(i) ==
             IF Upto(i) = {} THEN text[i] = Empty
             ELSE \E j \in Upto(i) : tags[j].text = text[i] /\ \A k \in Upto(i) : k <= j
           R == {i \in 0 .. n : Right(i)}
<1>4. 0 \in R
  BY <1>1, <1>3
<1>5. ASSUME NEW i \in 0 .. n - 1, i \in R
      PROVE  i + 1 \in R
  <2>1. i + 1 \in 1 .. n /\ i + 1 \in 0 .. n /\ (i + 1) - 1 = i /\ Right(i)
    BY <1>1, <1>5
  <2>2. Right(i + 1)
    <3>1. CASE i + 1 \in said
      <4>1. text[i + 1] = tags[i + 1].text /\ i + 1 \in Upto(i + 1)
        BY <1>3, <2>1, <3>1
      <4>2. \A k \in Upto(i + 1) : k <= i + 1
        OBVIOUS
      <4> QED
        BY <4>1, <4>2
    <3>2. CASE i + 1 \notin said
      <4>1. text[i + 1] = text[i]
        BY <1>3, <2>1, <3>2
      <4>2. Upto(i + 1) = Upto(i)
        BY <1>1, <2>1, <3>2
      <4> HIDE DEF Upto
      <4> QED
        BY <2>1, <4>1, <4>2
    <3> QED
      BY <3>1, <3>2
  <2> HIDE DEF Right
  <2> QED
    BY <2>1, <2>2
<1> HIDE DEF R
<1>6. 0 .. n \subseteq R
  BY <1>1, <1>4, <1>5, Induction
<1>7. Right(n)
  BY <1>1, <1>6 DEF R
<1>8. Upto(n) = said
  BY <1>1
<1> HIDE DEF Upto, said
<1>9. IF said = {} THEN Tagged(tags, kind) = Empty
      ELSE \E j \in said : tags[j].text = Tagged(tags, kind) /\ \A k \in said : k <= j
  BY <1>2, <1>7, <1>8
<1> QED
  BY <1>1, <1>9 DEF said
------------------------------------------------------------------------------
(* One cluster of the list: the one of an application and its type. *)
ClusterOf(a) ==
  [name |-> OrElse(Tagged(a.tags, "cluster_name"), a.displayName),
   resource |-> Head(a.uris),
   url |-> OrElse(Tagged(a.tags, "proxy_url"), Head(a.uris))]

LEMMA ClusterType1 ==
  ASSUME NEW a \in ApplicationType, a.uris # <<>>
  PROVE  ClusterOf(a) \in ClusterType
<1>1. a.uris \in Seq(Field) /\ a.displayName \in Field /\ a.tags \in Seq(TagType)
  BY DEF ApplicationType
<1>2. Head(a.uris) \in Field
  BY <1>1
<1>3. ASSUME NEW kind PROVE Tagged(a.tags, kind) \in Field
  <2> DEFINE tags == a.tags
             said == {j \in DOMAIN tags : tags[j].kind = kind /\ tags[j].text # Empty}
  <2>1. IF said = {} THEN Tagged(tags, kind) = Empty
        ELSE \E j \in said : tags[j].text = Tagged(tags, kind) /\ \A k \in said : k <= j
    BY <1>1, TaggedSays
  <2>2. \A j \in DOMAIN tags : tags[j] \in TagType
    BY <1>1
  <2> QED
    BY <2>1, <2>2 DEF TagType, Field
<1> QED
  BY <1>1, <1>2, <1>3 DEF ClusterOf, ClusterType, OrElse

(* getDiscoverData lists the usable applications in order, each as tagged.  *)
LEMMA DataOfApplications ==
  ASSUME NEW list \in Seq(ApplicationType)
  PROVE  LET usable == {i \in DOMAIN list : list[i].uris # <<>>}
             found == GetDiscoverData(list)
         IN /\ found \in Seq(ClusterType) /\ Len(found) = Cardinality(usable)
            /\ \A i \in usable :
                 found[Cardinality({j \in usable : j <= i})] = ClusterOf(list[i])
<1> DEFINE Skipped == {a \in ToSet(list) : a.uris = <<>>}
           kept == Without(list, Skipped)
           usable == {i \in DOMAIN list : list[i].uris # <<>>}
           found == GetDiscoverData(list)
<1>1. /\ DOMAIN list = 1 .. Len(list) /\ Len(list) \in Nat
      /\ \A i \in 1 .. Len(list) : list[i] \in Skipped <=> list[i].uris = <<>>
  BY DEF ToSet
<1>2. /\ usable = Kept(list, Skipped, Len(list))
      /\ \A i \in usable : {j \in usable : j <= i} = Kept(list, Skipped, i)
  BY <1>1 DEF Kept
<1>3. list \in Seq(ApplicationType) /\ list \in Seq(ToSet(list) \cap ApplicationType)
  BY DEF ToSet
<1>4. \A a \in (ToSet(list) \cap ApplicationType) \ Skipped :
         a \in ApplicationType /\ a.uris # <<>>
  OBVIOUS
<1>5. found = [i \in DOMAIN kept |-> ClusterOf(kept[i])]
  BY DEF GetDiscoverData, ClusterOf
<1> HIDE DEF Skipped
<1>6. /\ kept \in Seq((ToSet(list) \cap ApplicationType) \ Skipped)
      /\ Len(kept) = Cardinality(Kept(list, Skipped, Len(list)))
      /\ \A i \in 1 .. Len(list) :
           list[i] \notin Skipped =>
             /\ Cardinality(Kept(list, Skipped, i)) \in 1 .. Len(kept)
             /\ kept[Cardinality(Kept(list, Skipped, i))] = list[i]
  <2> DEFINE T == ToSet(list) \cap ApplicationType
  <2>1. list \in Seq(T)
    BY <1>3
  <2> HIDE DEF T
  <2> HIDE DEF kept, usable, found
  <2>2. Without(list, Skipped) \in Seq(T \ Skipped)
    BY <2>1, WithoutKeeps
  <2>3. Len(Without(list, Skipped)) = Cardinality(Kept(list, Skipped, Len(list)))
    BY <2>1, WithoutKeeps
  <2>4. ASSUME NEW i \in 1 .. Len(list), list[i] \notin Skipped
        PROVE  /\ Cardinality(Kept(list, Skipped, i)) \in 1 .. Len(Without(list, Skipped))
               /\ Without(list, Skipped)[Cardinality(Kept(list, Skipped, i))] = list[i]
    BY <2>1, <2>4, WithoutAt
  <2> QED
    BY <2>2, <2>3, <2>4 DEF T, kept
<1> HIDE DEF kept, found
<1>7. DOMAIN kept = 1 .. Len(kept) /\ Len(kept) \in Nat
  BY <1>6
<1>8. \A i \in 1 .. Len(kept) : ClusterOf(kept[i]) \in ClusterType
  <2>1. ASSUME NEW i \in 1 .. Len(kept)
        PROVE  kept[i] \in ApplicationType /\ kept[i].uris # <<>>
    BY <1>4, <1>6
  <2> QED
    BY <2>1, ClusterType1
<1>9. found \in Seq(ClusterType) /\ Len(found) = Len(kept)
  BY <1>5, <1>7, <1>8
<1>10. ASSUME NEW i \in usable
       PROVE  found[Cardinality({j \in usable : j <= i})] = ClusterOf(list[i])
  BY <1>1, <1>2, <1>5, <1>6, <1>7, <1>10
<1> QED
  BY <1>2, <1>6, <1>9, <1>10 DEF found
------------------------------------------------------------------------------
(* The invariant holds initially. *)
LEMMA InitIInv == Init => IInv
BY DEF Init, IInv, Replies, Reading, Progress, FirstFoundIsUsed, NoGoodOneIsMissed, Found

(* A failed request keeps the invariant where its kind allows it. *)
LEMMA FailIInv ==
  ASSUME IInv, NEW type, Fail(type), type # "none",
         \/ type # "Authentication" \/ ids = <<>>
         \/ pc = "try" /\ Len(replies) = Len(ids)
  PROVE  IInv'
<1>1. Replies' /\ Reading' /\ Progress'
  BY DEF Fail, IInv, Replies, Reading, Progress
<1>2. FirstFoundIsUsed'
  BY DEF Fail, FirstFoundIsUsed, Found
<1>3. NoGoodOneIsMissed'
  <2> SUFFICES ASSUME pc = "try", Len(replies) = Len(ids), NEW i \in 1 .. Len(replies)
               PROVE  ~Good(replies[i])
    BY DEF Fail, NoGoodOneIsMissed, IInv, Good, Wanted
  <2>1. Len(replies) \in Nat /\ replies # <<>>
    BY DEF IInv, Replies
  <2> QED
    BY <2>1 DEF IInv, Replies, Last
<1> QED
  BY <1>1, <1>2, <1>3 DEF IInv

(* The steps up to the first subscription, none of which touches replies. *)
LEMMA AskingIInv ==
  ASSUME IInv, UNCHANGED <<asked, apps, replies, seen, clusters, error, printed>>,
         \/ pc' \in {"list"} /\ pc = "start" /\ ids' = ids
         \/ pc = "list" /\ pc' = "credential" /\ ids' = ids
         \/ pc = "credential" /\ pc' = "pages" /\ ids' = ids
         \/ pc = "pages" /\ pc' \in {"pages", "try"}
  PROVE  IInv'
BY DEF IInv, Replies, Reading, Progress, FirstFoundIsUsed, NoGoodOneIsMissed, Found

(* TrySubscription keeps the invariant: the reply before it was not good.   *)
LEMMA TryIInv ==
  ASSUME DiscoverAssumption, IInv, NEW reply \in Reply \cup {Unreachable}, TrySubscription(reply)
  PROVE  IInv'
<1>1. replies \in Seq(Reply \cup {Unreachable}) /\ replies' = Append(replies, reply)
  BY DEF IInv, Replies, TrySubscription
<1>2. /\ replies' \in Seq(Reply \cup {Unreachable}) /\ replies' # <<>>
      /\ Len(replies') = Len(replies) + 1 /\ replies'[Len(replies')] = reply
      /\ \A i \in 1 .. Len(replies) : replies'[i] = replies[i]
  BY <1>1
<1>3. Last(replies') = reply
  BY <1>2 DEF Last
<1>4. \A i \in 1 .. Len(replies) : ~Good(replies[i])
  BY <1>1 DEF IInv, Replies, TrySubscription, Last
<1>5. Replies'
  <2>1. \A i \in 1 .. Len(replies') - 1 : ~Good(replies'[i])
    BY <1>1, <1>2, <1>4
  <2>2. pc' = "try" => ~Good(reply)
    BY DEF TrySubscription, Good
  <2> QED
    BY <1>2, <1>3, <2>1, <2>2 DEF Replies, Good, Wanted
<1>6. Reading'
  <2> SUFFICES ASSUME pc' = "tags"
               PROVE  /\ reply # Unreachable /\ seen' = {} /\ clusters' = <<>>
    BY <1>2, <1>3 DEF Reading, Taken, ToSet
  <2> QED
    BY DEF TrySubscription
<1>7. Progress' /\ FirstFoundIsUsed' /\ NoGoodOneIsMissed'
  BY DEF TrySubscription, IInv, Progress, FirstFoundIsUsed, NoGoodOneIsMissed, Found
<1> QED
  BY <1>5, <1>6, <1>7 DEF IInv

(* TakeTag keeps the invariant, whichever of the tags not yet seen it takes. *)
LEMMA TakeTagIInv ==
  ASSUME DiscoverAssumption, IInv, NEW key \in Keys, TakeTag(key)
  PROVE  IInv'
<1> DEFINE last == Last(replies)
           value == last[key]
           skipped == key \notin Ours \/ value = Nil
           broken == ~skipped /\ (value = Malformed \/ ~Complete(value))
<1>1. /\ pc = "tags" /\ key \in DOMAIN last \ seen /\ seen' = seen \cup {key}
      /\ clusters' = (IF skipped \/ broken THEN clusters ELSE Append(clusters, value))
      /\ pc' = (IF broken THEN "try" ELSE "tags")
      /\ UNCHANGED <<asked, apps, ids, replies, error, printed>>
  BY DEF TakeTag
<1>2. /\ replies \in Seq(Reply \cup {Unreachable}) /\ replies # <<>>
      /\ last # Unreachable /\ last \in Reply
      /\ clusters \in Seq(Objects) /\ seen \subseteq DOMAIN last
  BY <1>1 DEF IInv, Replies, Reading, Last
<1>3. value \in Objects \cup {Nil, Malformed}
  BY <1>1, <1>2, Answers
<1>4. Replies'
  <2>1. broken => ~Good(last)
    BY <1>1, BrokenIsNotGood
  <2> QED
    BY <1>1, <2>1 DEF IInv, Replies, Good, Wanted, Last
<1>5. Reading'
  <2> SUFFICES ASSUME ~broken
               PROVE  Reading'
    BY <1>1 DEF Reading
  <2>1. CASE skipped
    <3>1. Taken' = Taken
      BY <1>1, <2>1 DEF Taken, Wanted, Last
    <3> QED
      BY <1>1, <2>1, <3>1 DEF IInv, Reading, Last
  <2>2. CASE ~skipped
    <3>1. Taken' = Taken \cup {key}
      BY <1>1, <2>2 DEF Taken, Wanted, Last
    <3>2. value \in Objects /\ value # Malformed /\ Complete(value)
      BY <1>3, <2>2
    <3>3. clusters' = Append(clusters, value)
      BY <1>1, <2>2
    <3>4. ToSet(clusters') = ToSet(clusters) \cup {value}
      BY <1>2, <3>3, AppendToSet
    <3>5. Last(replies)' = last
      BY <1>1 DEF Last
    <3>6. ToSet(clusters) = {last[k] : k \in Taken}
      BY <1>1 DEF IInv, Reading
    <3>7. ToSet(clusters)' = {last[k] : k \in Taken'}
      BY <3>1, <3>4, <3>6 DEF ToSet
    <3>8. \A k \in Taken' : last[k] # Malformed /\ Complete(last[k])
      BY <1>1, <3>1, <3>2 DEF IInv, Reading
    <3>9. clusters' \in Seq(Objects) /\ seen' \subseteq DOMAIN last
      BY <1>1, <1>2, <3>2, <3>3
    <3> QED
      BY <1>1, <1>2, <3>5, <3>7, <3>8, <3>9 DEF Reading, Complete
  <2> QED
    BY <2>1, <2>2
<1>6. Progress' /\ FirstFoundIsUsed' /\ NoGoodOneIsMissed'
  BY <1>1 DEF IInv, Progress, FirstFoundIsUsed, NoGoodOneIsMissed, Found
<1> QED
  BY <1>4, <1>5, <1>6 DEF IInv

(* TagsTaken keeps the invariant: a subscription without clusters is not     *)
(* good, one with clusters is, and what was collected is all it describes.  *)
LEMMA TagsTakenIInv ==
  ASSUME IInv, TagsTaken
  PROVE  IInv'
<1>1. /\ Reading /\ pc = "tags" /\ seen = DOMAIN Last(replies)
      /\ replies # <<>> /\ replies \in Seq(Reply \cup {Unreachable})
      /\ UNCHANGED <<asked, apps, ids, replies, seen, clusters, error, printed>>
  BY DEF IInv, TagsTaken, Reading, Replies
<1>2. /\ ToSet(clusters) = {Last(replies)[k] : k \in Wanted(Last(replies))}
      /\ Good(Last(replies)) <=> Wanted(Last(replies)) # {}
      /\ clusters = <<>> <=> Wanted(Last(replies)) = {}
  BY <1>1, AllTaken
<1>3. Len(replies) \in Nat /\ Len(replies) > 0 /\ Last(replies) = replies[Len(replies)]
  BY <1>1 DEF Last
<1>4. CASE clusters = <<>>
  <2>1. pc' = "try" /\ ~Good(Last(replies))
    BY <1>2, <1>4 DEF TagsTaken
  <2> QED
    BY <1>1, <2>1 DEF IInv, Replies, Reading, Progress, FirstFoundIsUsed, NoGoodOneIsMissed,
                      Found, Good, Wanted, Last
<1>5. CASE clusters # <<>>
  <2>1. pc' = "print" /\ Good(Last(replies))
    BY <1>2, <1>5 DEF TagsTaken
  <2>2. FirstFoundIsUsed'
    <3> DEFINE n == Len(replies)
    <3>1. n > 0 /\ Good(replies[n]) /\ \A i \in 1 .. n - 1 : ~Good(replies[i])
      BY <1>3, <2>1 DEF IInv, Replies
    <3>2. ToSet(clusters) = {replies[n][k] : k \in Wanted(replies[n])}
      BY <1>2, <1>3
    <3>3. replies' = replies /\ clusters' = clusters
      BY <1>1
    <3>4. /\ \A i : Good(replies[i])' <=> Good(replies[i])
          /\ (Wanted(replies[n]))' = Wanted(replies[n]) /\ ToSet(clusters)' = ToSet(clusters)
      BY <3>3 DEF Good, Wanted, ToSet
    <3> QED
      BY <3>1, <3>2, <3>3, <3>4 DEF FirstFoundIsUsed
  <2> QED
    BY <1>1, <2>1, <2>2 DEF IInv, Replies, Reading, Progress, NoGoodOneIsMissed,
                            Good, Wanted, Last
<1> QED
  BY <1>4, <1>5

(* Every step of the program keeps the invariant. *)
LEMMA NextIInv ==
  ASSUME DiscoverAssumption, IInv, [Next]_vars
  PROVE  IInv'
<1>1. ASSUME NEW tenant \in BOOLEAN, NEW cli \in BOOLEAN, NEW found \in BOOLEAN,
             NewDiscoverClient(tenant, cli, found)
      PROVE  IInv'
  <2>1. ids = <<>> /\ pc = "start"
    BY <1>1 DEF NewDiscoverClient, IInv, Progress
  <2>2. CASE \E type \in {"Unknown", "Authentication"} : Fail(type)
    BY <2>1, <2>2, FailIInv
  <2>3. CASE /\ pc' = "list"
             /\ UNCHANGED <<asked, apps, ids, replies, seen, clusters, error, printed>>
    BY <2>1, <2>3, AskingIInv
  <2> QED
    BY <1>1, <2>2, <2>3 DEF NewDiscoverClient
<1>2. ASSUME NewAuthorizerFails PROVE IInv'
  BY <1>2, FailIInv DEF NewAuthorizerFails, IInv, Progress
<1>3. ASSUME NotPrivileged PROVE IInv'
  BY <1>3, AskingIInv DEF NotPrivileged
<1>4. ASSUME ListFails PROVE IInv'
  BY <1>4, FailIInv DEF ListFails
<1>5. ASSUME NEW list \in Applications, ListApplications(list) PROVE IInv'
  <2>1. list # Unreachable
    BY DEF DiscoverAssumption
  <2> QED
    BY <1>5, <2>1 DEF ListApplications, IInv, Replies, Reading, Progress, FirstFoundIsUsed,
                      NoGoodOneIsMissed
<1>6. ASSUME NewCredential PROVE IInv'
  BY <1>6, AskingIInv DEF NewCredential
<1>7. ASSUME NewCredentialFails PROVE IInv'
  BY <1>7, FailIInv DEF NewCredentialFails
<1>8. ASSUME NextPageFails PROVE IInv'
  BY <1>8, FailIInv DEF NextPageFails
<1>9. ASSUME NEW page \in Pages, NEW more \in BOOLEAN, NextPage(page, more) PROVE IInv'
  BY <1>9, AskingIInv DEF NextPage
<1>10. ASSUME NEW reply \in Reply \cup {Unreachable}, TrySubscription(reply) PROVE IInv'
  BY <1>10, TryIInv
<1>11. ASSUME NoSubscriptionLeft PROVE IInv'
  BY <1>11, FailIInv DEF NoSubscriptionLeft
<1>12. ASSUME TagsTaken PROVE IInv'
  BY <1>12, TagsTakenIInv
<1>13. ASSUME PrintClusters PROVE IInv'
  BY <1>13 DEF PrintClusters, IInv, Replies, Reading, Progress, FirstFoundIsUsed,
               NoGoodOneIsMissed, Found
<1>14. ASSUME NEW key \in Keys, TakeTag(key) PROVE IInv'
  BY <1>14, TakeTagIInv
<1>15. CASE UNCHANGED vars
  BY <1>15 DEF vars, IInv, Replies, Reading, Taken, Progress, FirstFoundIsUsed,
               NoGoodOneIsMissed, Found
<1> QED
  BY <1>1, <1>2, <1>3, <1>4, <1>5, <1>6, <1>7, <1>8, <1>9, <1>10, <1>11, <1>12, <1>13, <1>14,
     <1>15 DEF Next

(* The inductive invariant holds in every reachable state. *)
THEOREM Invariant == Spec => []IInv
<1>1. Init => IInv
  BY InitIInv
<1>2. IInv /\ [Next]_vars => IInv'
  BY NextIInv, DiscoverAssumption
<1> QED
  BY <1>1, <1>2, PTL DEF Spec

(* The clusters found are all those of the first usable subscription.       *)
THEOREM FirstFoundIsTheAnswer == Spec => []FirstFoundIsUsed
<1>1. IInv => FirstFoundIsUsed
  BY DEF IInv
<1> QED
  BY <1>1, Invariant, PTL

(* No order of requests or tags makes the search miss a usable one.         *)
THEOREM NoneIsMissed == Spec => []NoGoodOneIsMissed
<1>1. IInv => NoGoodOneIsMissed
  BY DEF IInv
<1> QED
  BY <1>1, Invariant, PTL
------------------------------------------------------------------------------
(* Once Graph has listed applications, the clusters are what they say.      *)
Listed == apps # Unreachable => apps \in Applications /\ clusters = GetDiscoverData(apps)

(* The types hold on both ways of discovery.  That a failure and a found    *)
(* subscription leave Graph's list alone is known from the order of steps.  *)
Typed == TypeOK /\ Listed

(* What Graph lists has the type of clusters. *)
LEMMA DataType ==
  ASSUME DiscoverAssumption, NEW list \in Applications
  PROVE  list \in Seq(ApplicationType) /\ GetDiscoverData(list) \in Seq(ClusterType)
<1>1. list \in Seq(ApplicationType)
  BY DEF DiscoverAssumption
<1>2. GetDiscoverData(list) \in Seq(ClusterType)
  BY <1>1, DataOfApplications
<1> QED
  BY <1>1, <1>2

(* The types hold initially. *)
LEMMA InitTyped == Init => Typed
BY DEF Init, Typed, TypeOK, Listed, Outputs, Errors

(* A failed request keeps the types. *)
LEMMA FailTyped ==
  ASSUME Typed, apps = Unreachable, NEW type \in Errors, Fail(type)
  PROVE  Typed'
BY DEF Fail, Typed, TypeOK, Listed

(* Steps that leave Graph's list and the clusters alone. *)
LEMMA ListStays ==
  ASSUME Listed, UNCHANGED <<apps, clusters>>
  PROVE  Listed'
BY DEF Listed

(* Every step of the program keeps the types. *)
LEMMA NextTyped ==
  ASSUME DiscoverAssumption, IInv, Typed, [Next]_vars
  PROVE  Typed'
<1> USE DEF Typed
<1>0. /\ pc \notin {"print", "done"} => apps = Unreachable
      /\ {"Unknown", "Authentication", "Authorization"} \subseteq Errors
  BY DEF IInv, Progress, Errors
<1>1. ASSUME NEW tenant \in BOOLEAN, NEW cli \in BOOLEAN, NEW found \in BOOLEAN,
             NewDiscoverClient(tenant, cli, found)
      PROVE  Typed'
  <2>1. pc = "start"
    BY <1>1 DEF NewDiscoverClient
  <2>2. CASE \E type \in {"Unknown", "Authentication"} : Fail(type)
    BY <1>0, <2>1, <2>2, FailTyped
  <2>3. CASE /\ pc' = "list"
             /\ UNCHANGED <<asked, apps, ids, replies, seen, clusters, error, printed>>
    BY <2>3, ListStays DEF TypeOK
  <2> QED
    BY <1>1, <2>2, <2>3 DEF NewDiscoverClient
<1>2. CASE NewAuthorizerFails
  BY <1>0, <1>2, FailTyped DEF NewAuthorizerFails
<1>3. CASE NotPrivileged \/ NewCredential
  BY <1>3, ListStays DEF NotPrivileged, NewCredential, TypeOK
<1>4. CASE ListFails
  BY <1>0, <1>4, FailTyped DEF ListFails
<1>5. ASSUME NEW list \in Applications, ListApplications(list) PROVE Typed'
  <2>1. clusters' \in Seq(ClusterType) /\ apps' = list /\ clusters' = GetDiscoverData(list)
    BY <1>5, DataType DEF ListApplications
  <2>2. Listed'
    BY <2>1 DEF Listed
  <2> QED
    BY <1>5, <2>1, <2>2 DEF ListApplications, TypeOK
<1>6. CASE NewCredentialFails
  BY <1>0, <1>6, FailTyped DEF NewCredentialFails
<1>7. CASE NextPageFails
  BY <1>0, <1>7, FailTyped DEF NextPageFails
<1>8. ASSUME NEW page \in Pages, NEW more \in BOOLEAN, NextPage(page, more) PROVE Typed'
  <2>1. page \in Seq(Subscriptions \cup {Nil})
    BY DEF DiscoverAssumption
  <2>2. Without(page, {Nil}) \in Seq((Subscriptions \cup {Nil}) \ {Nil})
    BY <2>1, WithoutKeeps
  <2>3. (Subscriptions \cup {Nil}) \ {Nil} = Subscriptions
    BY DEF DiscoverAssumption
  <2>4. Without(page, {Nil}) \in Seq(Subscriptions)
    BY <2>2, <2>3
  <2>5. ids' \in Seq(Subscriptions)
    BY <1>8, <2>4 DEF NextPage, TypeOK
  <2> QED
    BY <1>8, <2>5, ListStays DEF NextPage, TypeOK
<1>9. ASSUME NEW reply \in Reply \cup {Unreachable}, TrySubscription(reply) PROVE Typed'
  <2>1. replies' \in Seq(Reply \cup {Unreachable})
    BY <1>9 DEF TrySubscription, TypeOK
  <2>2. Listed'
    BY <1>0, <1>9 DEF TrySubscription, Listed
  <2> QED
    BY <1>9, <2>1, <2>2 DEF TrySubscription, TypeOK
<1>10. CASE NoSubscriptionLeft
  BY <1>0, <1>10, FailTyped DEF NoSubscriptionLeft
<1>11. CASE TagsTaken \/ PrintClusters
  BY <1>11, ListStays DEF TagsTaken, PrintClusters, TypeOK
<1>12. ASSUME NEW key \in Keys, TakeTag(key) PROVE Typed'
  <2> DEFINE value == Last(replies)[key]
  <2>1. pc = "tags" /\ Last(replies) # Unreachable /\ key \in DOMAIN Last(replies)
    BY <1>12 DEF TakeTag, IInv, Reading
  <2>2. Last(replies) \in Reply
    BY <2>1 DEF IInv, Replies, Reading, Last
  <2>3. value \in Objects \cup {Nil, Malformed}
    BY <2>1, <2>2, Answers
  <2>4. clusters' \in Seq(ClusterType)
    <3>1. \/ clusters' = clusters
          \/ value \notin {Nil, Malformed} /\ clusters' = Append(clusters, value)
      BY <1>12 DEF TakeTag
    <3>2. value \notin {Nil, Malformed} => value \in ClusterType
      BY <2>3 DEF DiscoverAssumption
    <3>3. clusters \in Seq(ClusterType)
      BY DEF TypeOK
    <3> HIDE DEF value
    <3> QED
      BY <3>1, <3>2, <3>3
  <2>5. Listed'
    BY <1>0, <1>12, <2>1 DEF TakeTag, Listed
  <2>6. pc' \in {"try", "tags"} /\ seen' \subseteq Keys
    BY <1>12 DEF TakeTag, TypeOK
  <2> QED
    BY <1>12, <2>4, <2>5, <2>6 DEF TakeTag, TypeOK
<1>13. CASE UNCHANGED vars
  BY <1>13, ListStays DEF vars, TypeOK
<1> QED
  BY <1>1, <1>2, <1>3, <1>4, <1>5, <1>6, <1>7, <1>8, <1>9, <1>10, <1>11, <1>12, <1>13 DEF Next

(* Both invariants hold in every reachable state. *)
THEOREM TypedInvariant == Spec => []Typed
<1>1. Init => Typed
  BY InitTyped
<1>2. IInv /\ Typed /\ [Next]_vars => Typed'
  BY NextTyped, DiscoverAssumption
<1> QED
  BY <1>1, <1>2, Invariant, PTL DEF Spec

(* Every variable has its type: what either way of discovery finds are      *)
(* clusters, whatever Azure answers.                                        *)
THEOREM TypeCorrect == Spec => []TypeOK
<1>1. Typed => TypeOK
  BY DEF Typed
<1> QED
  BY <1>1, TypedInvariant, PTL

(* The list has every application with an identifier URI once, in Graph's   *)
(* order, with the last name and address that its tags give, for any number *)
(* of applications and any list of tags.                                    *)
THEOREM ApplicationsAreListedAsTagged == Spec => []ApplicationsAsTagged
<1>1. ASSUME Typed PROVE ApplicationsAsTagged
  <2> SUFFICES ASSUME apps # Unreachable PROVE ApplicationsAsTagged
    BY DEF ApplicationsAsTagged
  <2> DEFINE usable == {i \in DOMAIN apps : apps[i].uris # <<>>}
             Says(a, kind, text, default) ==
               LET said == {j \in DOMAIN a.tags : a.tags[j].kind = kind /\ a.tags[j].text # Empty}
               IN IF said = {} THEN text = default
                  ELSE \E j \in said : a.tags[j].text = text /\ \A k \in said : k <= j
  <2>1. apps \in Seq(ApplicationType) /\ clusters = GetDiscoverData(apps)
    BY <1>1, DataType, DiscoverAssumption DEF Typed, Listed
  <2>2. /\ Len(clusters) = Cardinality(usable)
        /\ \A i \in usable : clusters[Cardinality({j \in usable : j <= i})] = ClusterOf(apps[i])
    BY <2>1, DataOfApplications
  <2>3. ASSUME NEW a \in ApplicationType, NEW kind, NEW default
        PROVE  Says(a, kind, OrElse(Tagged(a.tags, kind), default), default)
    <3> DEFINE tags == a.tags
               said == {j \in DOMAIN tags : tags[j].kind = kind /\ tags[j].text # Empty}
    <3>1. tags \in Seq(TagType)
      BY DEF ApplicationType
    <3>2. IF said = {} THEN Tagged(tags, kind) = Empty
          ELSE \E j \in said : tags[j].text = Tagged(tags, kind) /\ \A k \in said : k <= j
      BY <3>1, TaggedSays
    <3> QED
      BY <3>2 DEF OrElse
  <2>4. ASSUME NEW i \in usable
        PROVE  LET c == ClusterOf(apps[i])
               IN /\ c.resource = apps[i].uris[1]
                  /\ Says(apps[i], "cluster_name", c.name, apps[i].displayName)
                  /\ Says(apps[i], "proxy_url", c.url, c.resource)
    <3>1. apps[i] \in ApplicationType
      BY <2>1
    <3>2. Head(apps[i].uris) = apps[i].uris[1]
      BY <3>1 DEF ApplicationType
    <3> HIDE DEF Says
    <3> QED
      BY <2>3, <3>1, <3>2 DEF ClusterOf
  <2> HIDE DEF Says
  <2>5. ASSUME NEW i \in usable
        PROVE  LET c == clusters[Cardinality({j \in usable : j <= i})]
               IN /\ c.resource = apps[i].uris[1]
                  /\ Says(apps[i], "cluster_name", c.name, apps[i].displayName)
                  /\ Says(apps[i], "proxy_url", c.url, c.resource)
    BY <2>2, <2>4
  <2>6. /\ Len(clusters) = Cardinality(usable)
        /\ \A i \in usable :
             LET c == clusters[Cardinality({j \in usable : j <= i})]
             IN /\ c.resource = apps[i].uris[1]
                /\ Says(apps[i], "cluster_name", c.name, apps[i].displayName)
                /\ Says(apps[i], "proxy_url", c.url, c.resource)
    BY <2>2, <2>5
  <2> QED
    BY <2>6 DEF ApplicationsAsTagged, Says
<1> QED
  BY <1>1, TypedInvariant, PTL
==============================================================================
