-------------------------- MODULE AgentCallsProofs --------------------------
(***************************************************************************)
(* What setup and uninstall leave of the user's files and of their own     *)
(* entries, whatever the binaries, the matchers and the user's hooks, in   *)
(* however many commands, edits and stops; and that a denied call can be   *)
(* made through so-context, whatever its line.                             *)
(***************************************************************************)
EXTENDS AgentCalls, SelectionProofs

-----------------------------------------------------------------------------
(* The user's hooks                                                        *)

Hooks == Binaries \cup UserHooks

(* The hooks of a group are the user's and so-context's, apart; taking out *)
(* and adding so-context's leaves the user's.                              *)
LEMMA UsersHooksKept ==
    ASSUME NEW hs \in Seq(Hooks), NEW b \in Binaries
    PROVE  /\ Others(hs) \in Seq(Hooks)
           /\ Only(Others(hs), UserHooks) = Only(hs, UserHooks)
           /\ Append(Others(hs), b) \in Seq(Hooks)
           /\ Only(Append(Others(hs), b), UserHooks) = Only(hs, UserHooks)
           /\ Append(Without(hs, {b}), b) \in Seq(Hooks)
           /\ Only(Append(Without(hs, {b}), b), UserHooks) = Only(hs, UserHooks)
           /\ <<b>> \in Seq(Hooks)
           /\ Only(<<b>>, UserHooks) = <<>>
<1>1. b \in Hooks /\ b \notin UserHooks /\ UserHooks \cap Recognised = {} /\ UserHooks \cap {b} = {}
  BY BinariesAssumption, HooksAssumption DEF Hooks
<1>2. Others(hs) \in Seq(Hooks) /\ Without(hs, {b}) \in Seq(Hooks)
  BY OnlyHolds DEF Others
<1>3. /\ Only(Others(hs), UserHooks) = Only(hs, UserHooks)
      /\ Only(Without(hs, {b}), UserHooks) = Only(hs, UserHooks)
  BY <1>1, OnlyOfWithout DEF Others
<1>4. Only(Append(Others(hs), b), UserHooks) = Only(Others(hs), UserHooks)
  BY <1>1, <1>2, LastLeftOut
<1>5. Only(Append(Without(hs, {b}), b), UserHooks) = Only(Without(hs, {b}), UserHooks)
  BY <1>1, <1>2, LastLeftOut
<1>6. <<b>> \in Seq(Hooks) /\ Append(Others(hs), b) \in Seq(Hooks) /\ Append(Without(hs, {b}), b) \in Seq(Hooks)
  BY <1>1, <1>2
<1>7. Only(<<b>>, UserHooks) = <<>>
  <2>1. {i \in DOMAIN <<b>> : <<b>>[i] \in UserHooks} = {}
    BY <1>1
  <2> QED
    BY <1>6, <2>1, ThoseOfNone DEF Only
<1> QED
  BY <1>2, <1>3, <1>4, <1>5, <1>6, <1>7

(* The view of the two lists of groups, one by one.                        *)
Viewed(groups) == [i \in DOMAIN groups |-> [groups[i] EXCEPT !.hooks = Only(@, UserHooks)]]
PreView(groups) == Those(Viewed(groups), {i \in DOMAIN Viewed(groups) : Viewed(groups)[i].hooks # <<>>})
PostViewed(groups) == [i \in DOMAIN groups |-> Only(groups[i], UserHooks)]
PostView(groups) == Without(PostViewed(groups), {<<>>})
NoHooks == {g \in Group : g.hooks = <<>>}

(* The user's part of a config, in these terms.                            *)
LEMMA UserViewOf ==
    ASSUME NEW file
    PROVE  UserView(file) = [pre |-> PreView(file.pre), post |-> PostView(file.post)]
BY DEF UserView, PreView, PostView, Viewed, PostViewed

(* The view of PreToolUse groups is of groups, without the empty ones.     *)
LEMMA PreViewOf ==
    ASSUME NEW groups \in Seq(Group)
    PROVE  /\ Viewed(groups) \in Seq(Group) /\ DOMAIN Viewed(groups) = DOMAIN groups
           /\ \A i \in DOMAIN groups :
                 Viewed(groups)[i] = [matcher |-> groups[i].matcher, hooks |-> Only(groups[i].hooks, UserHooks)]
           /\ PreView(groups) = Without(Viewed(groups), NoHooks)
<1>1. Len(groups) \in Nat /\ DOMAIN groups = 1 .. Len(groups) /\ \A i \in DOMAIN groups : groups[i] \in Group
  BY LenProperties
<1>2. ASSUME NEW i \in DOMAIN groups
      PROVE  /\ [groups[i] EXCEPT !.hooks = Only(@, UserHooks)]
                  = [matcher |-> groups[i].matcher, hooks |-> Only(groups[i].hooks, UserHooks)]
             /\ [groups[i] EXCEPT !.hooks = Only(@, UserHooks)] \in Group
  <2>1. groups[i] \in Group /\ groups[i].hooks \in Seq(Hooks)
    BY <1>1 DEF Group, Hooks
  <2>2. Only(groups[i].hooks, UserHooks) \in Seq(Hooks)
    BY <2>1, OnlyHolds
  <2> QED
    BY <2>1, <2>2 DEF Group, Hooks
<1>3. /\ Viewed(groups) \in Seq(Group) /\ DOMAIN Viewed(groups) = DOMAIN groups
      /\ \A i \in DOMAIN groups :
            Viewed(groups)[i] = [matcher |-> groups[i].matcher, hooks |-> Only(groups[i].hooks, UserHooks)]
  <2>1. Viewed(groups) = [i \in DOMAIN groups |-> [groups[i] EXCEPT !.hooks = Only(@, UserHooks)]]
    BY DEF Viewed
  <2>2. /\ DOMAIN Viewed(groups) = DOMAIN groups
        /\ \A i \in DOMAIN groups : Viewed(groups)[i] = [groups[i] EXCEPT !.hooks = Only(@, UserHooks)]
    BY <2>1
  <2>3. Viewed(groups) \in [1 .. Len(groups) -> Group]
    BY <1>1, <1>2, <2>1, <2>2
  <2>4. Viewed(groups) \in Seq(Group)
    BY <1>1, <2>3
  <2> QED
    BY <1>2, <2>2, <2>4
<1>4. \A i \in DOMAIN Viewed(groups) : Viewed(groups)[i] \in Group
  BY <1>3, LenProperties
<1>5. {i \in DOMAIN Viewed(groups) : Viewed(groups)[i].hooks # <<>>}
        = {i \in DOMAIN Viewed(groups) : Viewed(groups)[i] \notin NoHooks}
  BY <1>4 DEF NoHooks
<1> QED
  BY <1>3, <1>5 DEF PreView, Without

(* Groups that hold the same of the user's have the same view.             *)
LEMMA PreViewSame ==
    ASSUME NEW groups \in Seq(Group), NEW others \in Seq(Group), DOMAIN groups = DOMAIN others,
           \A i \in DOMAIN groups :
               /\ others[i].matcher = groups[i].matcher
               /\ Only(others[i].hooks, UserHooks) = Only(groups[i].hooks, UserHooks)
    PROVE  PreView(others) = PreView(groups)
<1>1. /\ DOMAIN Viewed(groups) = DOMAIN groups /\ DOMAIN Viewed(others) = DOMAIN groups
      /\ Viewed(groups) \in Seq(Group) /\ Viewed(others) \in Seq(Group)
      /\ \A i \in DOMAIN groups : Viewed(groups)[i] = Viewed(others)[i]
  <2>1. /\ DOMAIN Viewed(groups) = DOMAIN groups /\ Viewed(groups) \in Seq(Group)
        /\ \A i \in DOMAIN groups :
              Viewed(groups)[i] = [matcher |-> groups[i].matcher, hooks |-> Only(groups[i].hooks, UserHooks)]
    BY PreViewOf
  <2>2. /\ DOMAIN Viewed(others) = DOMAIN groups /\ Viewed(others) \in Seq(Group)
        /\ \A i \in DOMAIN groups :
              Viewed(others)[i] = [matcher |-> others[i].matcher, hooks |-> Only(others[i].hooks, UserHooks)]
    BY PreViewOf
  <2> QED
    BY <2>1, <2>2
<1>2. Viewed(groups) = Viewed(others)
  <2>1. Len(Viewed(groups)) = Len(Viewed(others)) /\ DOMAIN Viewed(groups) = 1 .. Len(Viewed(groups))
    BY <1>1, LenProperties
  <2> QED
    BY <1>1, <2>1, SeqEqual
<1> QED
  BY <1>2 DEF PreView

(* So have groups with a new one, of so-context's.                         *)
LEMMA PreViewAppend ==
    ASSUME NEW groups \in Seq(Group), NEW g \in Group, Only(g.hooks, UserHooks) = <<>>
    PROVE  PreView(Append(groups, g)) = PreView(groups)
<1> DEFINE more == Append(groups, g)
           e == [matcher |-> g.matcher, hooks |-> <<>>]
<1>1. /\ Len(groups) \in Nat /\ DOMAIN groups = 1 .. Len(groups)
      /\ more \in Seq(Group) /\ DOMAIN more = 1 .. Len(groups) + 1
      /\ \A i \in DOMAIN groups : more[i] = groups[i]
      /\ more[Len(groups) + 1] = g
  BY AppendProperties, LenProperties
<1>2. e \in Group /\ e \in NoHooks
  BY DEF Group, NoHooks
<1> HIDE DEF more
<1>3. /\ Viewed(more) \in Seq(Group) /\ DOMAIN Viewed(more) = 1 .. Len(groups) + 1
      /\ \A i \in 1 .. Len(groups) + 1 :
            Viewed(more)[i] = [matcher |-> more[i].matcher, hooks |-> Only(more[i].hooks, UserHooks)]
  BY <1>1, PreViewOf
<1>4. /\ Viewed(groups) \in Seq(Group) /\ DOMAIN Viewed(groups) = 1 .. Len(groups)
      /\ \A i \in 1 .. Len(groups) :
            Viewed(groups)[i] = [matcher |-> groups[i].matcher, hooks |-> Only(groups[i].hooks, UserHooks)]
  BY <1>1, PreViewOf
<1>5. Len(Viewed(groups)) = Len(groups) /\ Len(Viewed(more)) = Len(groups) + 1
  BY <1>1, <1>3, <1>4
<1>6. \A i \in 1 .. Len(groups) : Viewed(more)[i] = Viewed(groups)[i]
  <2> TAKE i \in 1 .. Len(groups)
  <2>1. i \in 1 .. Len(groups) + 1 /\ more[i] = groups[i]
    BY <1>1
  <2>2. Viewed(more)[i] = [matcher |-> more[i].matcher, hooks |-> Only(more[i].hooks, UserHooks)]
    BY <1>3, <2>1, Zenon
  <2>3. Viewed(groups)[i] = [matcher |-> groups[i].matcher, hooks |-> Only(groups[i].hooks, UserHooks)]
    BY <1>4, Zenon
  <2> QED
    BY <2>1, <2>2, <2>3, Zenon
<1>7. Viewed(more)[Len(groups) + 1] = e
  BY <1>1, <1>3
<1>8. Viewed(more) = Append(Viewed(groups), e)
  <2> HIDE DEF e
  <2>1. /\ Append(Viewed(groups), e) \in Seq(Group) /\ Len(Append(Viewed(groups), e)) = Len(groups) + 1
        /\ \A i \in 1 .. Len(groups) : Append(Viewed(groups), e)[i] = Viewed(groups)[i]
        /\ Append(Viewed(groups), e)[Len(groups) + 1] = e
    BY <1>2, <1>4, <1>5, AppendProperties
  <2> QED
    BY <1>1, <1>3, <1>5, <1>6, <1>7, <2>1, SeqEqual
<1>9. Without(Append(Viewed(groups), e), NoHooks) = Without(Viewed(groups), NoHooks)
  <2> HIDE DEF e
  <2> QED
    BY <1>2, <1>4, LastLeftOut
<1> QED
  BY <1>1, <1>8, <1>9, PreViewOf DEF more

(* So have groups of which some without any of the user's are taken out.   *)
LEMMA PreViewThose ==
    ASSUME NEW groups \in Seq(Group), NEW P \in SUBSET DOMAIN groups,
           \A i \in DOMAIN groups \ P : Only(groups[i].hooks, UserHooks) = <<>>
    PROVE  PreView(Those(groups, P)) = PreView(groups)
<1> DEFINE some == Those(groups, P)
           R == {i \in DOMAIN Viewed(groups) : Viewed(groups)[i] \notin NoHooks}
<1>1. /\ Viewed(groups) \in Seq(Group) /\ DOMAIN Viewed(groups) = DOMAIN groups
      /\ \A i \in DOMAIN groups :
            Viewed(groups)[i] = [matcher |-> groups[i].matcher, hooks |-> Only(groups[i].hooks, UserHooks)]
      /\ PreView(groups) = Without(Viewed(groups), NoHooks)
  BY PreViewOf
<1>2. /\ some \in Seq(Group) /\ DOMAIN some = 1 .. Cardinality(P)
      /\ \A n \in 1 .. Cardinality(P) : Nth(P, n) \in P /\ some[n] = groups[Nth(P, n)]
  BY ThosePlaces
<1>3. /\ Those(Viewed(groups), P) \in Seq(Group) /\ DOMAIN Those(Viewed(groups), P) = 1 .. Cardinality(P)
      /\ Len(Those(Viewed(groups), P)) = Cardinality(P)
      /\ \A n \in 1 .. Cardinality(P) : Those(Viewed(groups), P)[n] = Viewed(groups)[Nth(P, n)]
  BY <1>1, ThosePlaces
<1> HIDE DEF some
<1>4. /\ Viewed(some) \in Seq(Group) /\ DOMAIN Viewed(some) = 1 .. Cardinality(P)
      /\ \A n \in 1 .. Cardinality(P) :
            Viewed(some)[n] = [matcher |-> some[n].matcher, hooks |-> Only(some[n].hooks, UserHooks)]
      /\ PreView(some) = Without(Viewed(some), NoHooks)
  BY <1>2, PreViewOf
<1>5. \A n \in 1 .. Cardinality(P) : Viewed(some)[n] = Those(Viewed(groups), P)[n]
  BY <1>1, <1>2, <1>3, <1>4
<1>6. Viewed(some) = Those(Viewed(groups), P)
  <2>1. Len(Viewed(some)) = Len(Those(Viewed(groups), P))
    BY <1>3, <1>4, LenProperties
  <2> QED
    BY <1>3, <1>4, <1>5, <2>1, SeqEqual
<1>7. \A i \in DOMAIN groups \ P : Viewed(groups)[i] \in NoHooks
  <2> SUFFICES ASSUME NEW i \in DOMAIN groups \ P PROVE Viewed(groups)[i] \in NoHooks
    OBVIOUS
  <2>1. Viewed(groups)[i] \in Group
    BY <1>1, LenProperties
  <2> QED
    BY <1>1, <2>1 DEF NoHooks
<1>8. R \in SUBSET P /\ \A i \in P : i \in R <=> Viewed(groups)[i] \notin NoHooks
  BY <1>1, <1>7
<1> HIDE DEF R
<1>9. Without(Those(Viewed(groups), P), NoHooks) = Those(Viewed(groups), R)
  BY <1>1, <1>8, WithoutOfThose
<1> QED
  BY <1>1, <1>4, <1>6, <1>9 DEF some, R, Without

(* The view of PostCompact groups, likewise.                               *)
LEMMA PostViewOf ==
    ASSUME NEW groups \in Seq(Seq(Hooks))
    PROVE  /\ PostViewed(groups) \in Seq(Seq(Hooks)) /\ DOMAIN PostViewed(groups) = DOMAIN groups
           /\ \A i \in DOMAIN groups : PostViewed(groups)[i] = Only(groups[i], UserHooks)
<1>1. Len(groups) \in Nat /\ DOMAIN groups = 1 .. Len(groups) /\ \A i \in DOMAIN groups : groups[i] \in Seq(Hooks)
  BY LenProperties
<1>2. \A i \in DOMAIN groups : Only(groups[i], UserHooks) \in Seq(Hooks)
  BY <1>1, OnlyHolds
<1>3. PostViewed(groups) \in [1 .. Len(groups) -> Seq(Hooks)]
  BY <1>1, <1>2 DEF PostViewed
<1>4. PostViewed(groups) \in Seq(Seq(Hooks))
  BY <1>1, <1>3, FunctionIsSeq, Zenon
<1> QED
  BY <1>4 DEF PostViewed

(* PostCompact groups of which each keeps the user's hooks look the same   *)
(* to the user.                                                            *)
LEMMA PostViewSame ==
    ASSUME NEW groups \in Seq(Seq(Hooks)), NEW others \in Seq(Seq(Hooks)), DOMAIN groups = DOMAIN others,
           \A i \in DOMAIN groups : Only(others[i], UserHooks) = Only(groups[i], UserHooks)
    PROVE  PostView(others) = PostView(groups)
<1>1. PostViewed(groups) = PostViewed(others)
  BY DEF PostViewed
<1> QED
  BY <1>1 DEF PostView

(* So do groups with one more of which nothing is the user's.              *)
LEMMA PostViewAppend ==
    ASSUME NEW groups \in Seq(Seq(Hooks)), NEW g \in Seq(Hooks), Only(g, UserHooks) = <<>>
    PROVE  PostView(Append(groups, g)) = PostView(groups)
<1> DEFINE more == Append(groups, g)
<1>1. /\ Len(groups) \in Nat /\ DOMAIN groups = 1 .. Len(groups)
      /\ more \in Seq(Seq(Hooks)) /\ DOMAIN more = 1 .. Len(groups) + 1
      /\ \A i \in DOMAIN groups : more[i] = groups[i]
      /\ more[Len(groups) + 1] = g
  BY AppendProperties, LenProperties
<1>2. <<>> \in Seq(Hooks)
  OBVIOUS
<1> HIDE DEF more
<1>3. /\ PostViewed(more) \in Seq(Seq(Hooks)) /\ DOMAIN PostViewed(more) = 1 .. Len(groups) + 1
      /\ \A i \in 1 .. Len(groups) + 1 : PostViewed(more)[i] = Only(more[i], UserHooks)
  BY <1>1, PostViewOf
<1>4. /\ PostViewed(groups) \in Seq(Seq(Hooks)) /\ DOMAIN PostViewed(groups) = 1 .. Len(groups)
      /\ \A i \in 1 .. Len(groups) : PostViewed(groups)[i] = Only(groups[i], UserHooks)
  BY <1>1, PostViewOf
<1>5. Len(PostViewed(groups)) = Len(groups) /\ Len(PostViewed(more)) = Len(groups) + 1
  BY <1>1, <1>3, <1>4
<1>6. \A i \in 1 .. Len(groups) : PostViewed(more)[i] = PostViewed(groups)[i]
  <2> TAKE i \in 1 .. Len(groups)
  <2>1. i \in DOMAIN groups /\ i \in 1 .. Len(groups) + 1
    BY <1>1
  <2>2. more[i] = groups[i]
    BY <1>1, <2>1, Zenon
  <2> QED
    BY <1>3, <1>4, <2>1, <2>2
<1>7. PostViewed(more)[Len(groups) + 1] = <<>>
  <2>1. Len(groups) + 1 \in 1 .. Len(groups) + 1
    BY <1>1
  <2>2. PostViewed(more)[Len(groups) + 1] = Only(more[Len(groups) + 1], UserHooks)
    BY <1>3, <2>1, Zenon
  <2> QED
    BY <1>1, <2>2, Zenon
<1> DEFINE e == <<>>
<1>8. PostViewed(more) = Append(PostViewed(groups), e)
  <2>1. e \in Seq(Hooks) /\ PostViewed(more)[Len(groups) + 1] = e
    BY <1>2, <1>7
  <2> HIDE DEF e
  <2>2. /\ Append(PostViewed(groups), e) \in Seq(Seq(Hooks)) /\ Len(Append(PostViewed(groups), e)) = Len(groups) + 1
        /\ \A i \in 1 .. Len(groups) : Append(PostViewed(groups), e)[i] = PostViewed(groups)[i]
        /\ Append(PostViewed(groups), e)[Len(groups) + 1] = e
    BY <1>4, <1>5, <2>1, AppendProperties
  <2> QED
    BY <1>1, <1>3, <1>5, <1>6, <2>1, <2>2, SeqEqual
<1>9. Without(Append(PostViewed(groups), e), {e}) = Without(PostViewed(groups), {e})
  <2>1. e \in Seq(Hooks) /\ e \in {e}
    BY <1>2
  <2> HIDE DEF e
  <2> QED
    BY <1>4, <2>1, LastLeftOut
<1> QED
  BY <1>8, <1>9 DEF more, PostView

(* And what is left when groups without hooks are taken out.               *)
LEMMA PostViewThose ==
    ASSUME NEW groups \in Seq(Seq(Hooks)), NEW P \in SUBSET DOMAIN groups,
           \A i \in DOMAIN groups \ P : Only(groups[i], UserHooks) = <<>>
    PROVE  PostView(Those(groups, P)) = PostView(groups)
<1> DEFINE some == Those(groups, P)
           R == {i \in DOMAIN PostViewed(groups) : PostViewed(groups)[i] \notin {<<>>}}
<1>1. /\ PostViewed(groups) \in Seq(Seq(Hooks)) /\ DOMAIN PostViewed(groups) = DOMAIN groups
      /\ \A i \in DOMAIN groups : PostViewed(groups)[i] = Only(groups[i], UserHooks)
  BY PostViewOf
<1>2. /\ some \in Seq(Seq(Hooks)) /\ DOMAIN some = 1 .. Cardinality(P)
      /\ \A n \in 1 .. Cardinality(P) : Nth(P, n) \in P /\ some[n] = groups[Nth(P, n)]
  BY ThosePlaces
<1>3. /\ Those(PostViewed(groups), P) \in Seq(Seq(Hooks)) /\ DOMAIN Those(PostViewed(groups), P) = 1 .. Cardinality(P)
      /\ Len(Those(PostViewed(groups), P)) = Cardinality(P)
      /\ \A n \in 1 .. Cardinality(P) : Those(PostViewed(groups), P)[n] = PostViewed(groups)[Nth(P, n)]
  BY <1>1, ThosePlaces
<1> HIDE DEF some
<1>4. /\ PostViewed(some) \in Seq(Seq(Hooks)) /\ DOMAIN PostViewed(some) = 1 .. Cardinality(P)
      /\ \A n \in 1 .. Cardinality(P) : PostViewed(some)[n] = Only(some[n], UserHooks)
  BY <1>2, PostViewOf
<1>5. \A n \in 1 .. Cardinality(P) : PostViewed(some)[n] = Those(PostViewed(groups), P)[n]
  BY <1>1, <1>2, <1>3, <1>4
<1>6. PostViewed(some) = Those(PostViewed(groups), P)
  <2>1. Len(PostViewed(some)) = Len(Those(PostViewed(groups), P))
    BY <1>3, <1>4, LenProperties
  <2> QED
    BY <1>3, <1>4, <1>5, <2>1, SeqEqual
<1>7. R \in SUBSET P /\ \A i \in P : i \in R <=> PostViewed(groups)[i] \notin {<<>>}
  BY <1>1
<1> HIDE DEF R
<1> DEFINE V == {<<>>}
<1>8. Without(Those(PostViewed(groups), P), V) = Those(PostViewed(groups), R)
  <2>1. \A i \in P : i \in R <=> PostViewed(groups)[i] \notin V
    BY <1>7
  <2> HIDE DEF V
  <2> QED
    BY <1>1, <1>7, <2>1, WithoutOfThose
<1> QED
  BY <1>6, <1>8 DEF some, R, Without, PostView

-----------------------------------------------------------------------------
(* The operations on the hooks                                             *)

(* The least of some numbers.                                              *)
LEMMA Firsts ==
    ASSUME NEW I \in SUBSET Nat, I # {}
    PROVE  Min(I) \in I /\ \A j \in I : Min(I) <= j
<1>1. PICK n \in I : \A m \in I : ~ (<<m, n>> \in OpToRel(<, Nat))
  BY NatLessThanWellFounded, WFMin, Zenon
<1>2. \A m \in I : ~ (m < n)
  BY <1>1, Zenon DEF OpToRel
<1> HIDE <1>1
<1>3. n \in I /\ \A m \in I : n <= m
  BY <1>2
<1> QED
  BY <1>3 DEF Min

UniquePre(groups) ==
    \A i, j \in DOMAIN groups : groups[i].matcher = groups[j].matcher => i = j
OursAt(groups, i) == \E k \in DOMAIN groups[i].hooks : groups[i].hooks[k] \in Recognised
OursInPlace(groups) ==
    \A i \in DOMAIN groups : OursAt(groups, i) => groups[i].matcher \in ToSet(Matchers)
Held(groups, m, binary) ==
    \E i \in DOMAIN groups :
        /\ groups[i].matcher = m
        /\ \E k \in DOMAIN groups[i].hooks :
              /\ groups[i].hooks[k] = binary
              /\ \A n \in DOMAIN groups[i].hooks : groups[i].hooks[n] \in Recognised => n = k

(* A handler put behind what is left without so-context's.                 *)
LEMMA BinaryLast ==
    ASSUME NEW hs \in Seq(Hooks), NEW b \in Binaries
    PROVE  LET new == Append(Others(hs), b)
           IN  /\ new \in Seq(Hooks) /\ new # <<>>
               /\ \E k \in DOMAIN new : new[k] = b /\ \A n \in DOMAIN new : new[n] \in Recognised => n = k
<1> DEFINE rest == Others(hs)
<1>1. rest \in Seq(Hooks) /\ \A n \in DOMAIN rest : rest[n] \notin Recognised
  BY OnlyHolds DEF Others
<1>2. b \in Hooks
  BY DEF Hooks
<1> HIDE DEF rest
<1>3. /\ Append(rest, b) \in Seq(Hooks) /\ Append(rest, b) # <<>>
      /\ Len(rest) \in Nat /\ DOMAIN rest = 1 .. Len(rest) /\ DOMAIN Append(rest, b) = 1 .. Len(rest) + 1
      /\ \A n \in 1 .. Len(rest) : Append(rest, b)[n] = rest[n]
      /\ Append(rest, b)[Len(rest) + 1] = b
  BY <1>1, <1>2, AppendProperties, LenProperties
<1>4. \A n \in DOMAIN Append(rest, b) : Append(rest, b)[n] \in Recognised => n = Len(rest) + 1
  <2> SUFFICES ASSUME NEW n \in DOMAIN Append(rest, b), n # Len(rest) + 1
               PROVE  Append(rest, b)[n] \notin Recognised
    OBVIOUS
  <2>1. n \in DOMAIN rest /\ n \in 1 .. Len(rest)
    BY <1>3
  <2> QED
    BY <1>1, <1>3, <2>1
<1>5. Len(rest) + 1 \in DOMAIN Append(rest, b)
  BY <1>3
<1> QED
  BY <1>3, <1>4, <1>5 DEF rest

(* install_pre_tool_group: one group is new, or one that was there has the *)
(* handler last; of the user's nothing changes.                            *)
LEMMA GroupInstalled ==
    ASSUME NEW groups \in Seq(Group), NEW m \in ToSet(Matchers), NEW b \in Binaries
    PROVE  LET new == InstallPreToolGroup(groups, m, b)
           IN  /\ new \in Seq(Group) /\ PreView(new) = PreView(groups)
               /\ \E at \in DOMAIN new :
                     /\ DOMAIN new = DOMAIN groups \cup {at}
                     /\ \A i \in DOMAIN groups \ {at} : new[i] = groups[i]
                     /\ \A i \in DOMAIN groups : groups[i].matcher = m => at \in DOMAIN groups
                     /\ at \in DOMAIN groups => groups[at].matcher = m
                     /\ new[at].matcher = m
                     /\ \E k \in DOMAIN new[at].hooks :
                           /\ new[at].hooks[k] = b
                           /\ \A n \in DOMAIN new[at].hooks : new[at].hooks[n] \in Recognised => n = k
<1> DEFINE I == {i \in 1 .. Len(groups) : groups[i].matcher = m}
           new == InstallPreToolGroup(groups, m, b)
           place == SelectInSeq(groups, LAMBDA g : g.matcher = m)
<1>1. Len(groups) \in Nat /\ DOMAIN groups = 1 .. Len(groups) /\ \A i \in DOMAIN groups : groups[i] \in Group
  BY LenProperties
<1>2. place = IF I # {} THEN Min(I) ELSE 0
  BY DEF SelectInSeq
<1>3. new = IF place = 0 THEN Append(groups, [matcher |-> m, hooks |-> <<b>>])
            ELSE [groups EXCEPT ![place].hooks = Append(Others(@), b)]
  BY DEF InstallPreToolGroup
<1> HIDE DEF new, place
<1>4. CASE I = {}
  <2> DEFINE g == [matcher |-> m, hooks |-> <<b>>]
             at == Len(groups) + 1
  <2>1. place = 0
    BY <1>2, <1>4
  <2>2. g \in Group /\ Only(g.hooks, UserHooks) = <<>>
    <3>1. <<>> \in Seq(Hooks)
      OBVIOUS
    <3>2. <<b>> \in Seq(Hooks) /\ Only(<<b>>, UserHooks) = <<>>
      BY <3>1, UsersHooksKept
    <3> QED
      BY <3>2 DEF Group, Hooks
  <2>3. new = Append(groups, g)
    BY <1>3, <2>1
  <2>4. g.matcher = m /\ DOMAIN g.hooks = {1} /\ g.hooks[1] = b
    OBVIOUS
  <2> HIDE DEF g
  <2>5. /\ new \in Seq(Group) /\ DOMAIN new = 1 .. Len(groups) + 1
        /\ \A i \in 1 .. Len(groups) : new[i] = groups[i]
        /\ new[at] = g
    BY <1>1, <2>2, <2>3, AppendProperties, LenProperties
  <2>6. PreView(new) = PreView(groups)
    BY <2>2, <2>3, PreViewAppend
  <2>7. at \in DOMAIN new /\ DOMAIN new = DOMAIN groups \cup {at} /\ at \notin DOMAIN groups
    BY <1>1, <2>5
  <2>8. \A i \in DOMAIN groups : groups[i].matcher # m
    BY <1>1, <1>4
  <2>9. \E k \in DOMAIN new[at].hooks :
            new[at].hooks[k] = b /\ \A n \in DOMAIN new[at].hooks : new[at].hooks[n] \in Recognised => n = k
    BY <2>4, <2>5
  <2> HIDE DEF at
  <2> QED
    BY <1>1, <2>4, <2>5, <2>6, <2>7, <2>8, <2>9 DEF new
<1>5. CASE I # {}
  <2> DEFINE at == Min(I)
             hs == Append(Others(groups[at].hooks), b)
  <2>1. at \in I
    <3>1. I \in SUBSET Nat
      BY <1>1
    <3> QED
      BY <1>5, <3>1, Firsts
  <2>2. at \in DOMAIN groups /\ groups[at].matcher = m /\ at # 0 /\ place = at
    BY <1>1, <1>2, <1>5, <2>1
  <2>3. groups[at] \in Group /\ groups[at].hooks \in Seq(Hooks)
    BY <1>1, <2>2 DEF Group, Hooks
  <2> HIDE DEF at, I
  <2>4. /\ hs \in Seq(Hooks) /\ Only(hs, UserHooks) = Only(groups[at].hooks, UserHooks)
        /\ \E k \in DOMAIN hs : hs[k] = b /\ \A n \in DOMAIN hs : hs[n] \in Recognised => n = k
    BY <2>3, UsersHooksKept, BinaryLast
  <2>5. new = [groups EXCEPT ![at].hooks = hs]
    BY <1>3, <2>2
  <2> HIDE DEF hs
  <2>6. /\ DOMAIN new = DOMAIN groups
        /\ \A i \in DOMAIN groups \ {at} : new[i] = groups[i]
        /\ new[at] = [groups[at] EXCEPT !.hooks = hs]
    BY <2>2, <2>5
  <2>7. new[at] \in Group /\ new[at].matcher = m /\ new[at].hooks = hs
    BY <2>2, <2>3, <2>4, <2>6 DEF Group, Hooks
  <2>8. \A i \in DOMAIN groups : new[i] \in Group
    BY <1>1, <2>6, <2>7
  <2>9. new \in Seq(Group)
    <3>1. new \in [1 .. Len(groups) -> Group]
      BY <1>1, <2>5, <2>6, <2>8
    <3> QED
      BY <1>1, <3>1, FunctionIsSeq, Zenon
  <2>10. PreView(new) = PreView(groups)
    <3>1. \A i \in DOMAIN groups :
              new[i].matcher = groups[i].matcher /\ Only(new[i].hooks, UserHooks) = Only(groups[i].hooks, UserHooks)
      BY <2>2, <2>4, <2>6, <2>7
    <3> QED
      BY <2>6, <2>9, <3>1, PreViewSame
  <2>11. \E k \in DOMAIN new[at].hooks :
            new[at].hooks[k] = b /\ \A n \in DOMAIN new[at].hooks : new[at].hooks[n] \in Recognised => n = k
    BY <2>4, <2>7
  <2>12. at \in DOMAIN new /\ DOMAIN new = DOMAIN groups \cup {at}
    BY <2>2, <2>6
  <2> QED
    BY <2>2, <2>6, <2>7, <2>9, <2>10, <2>11, <2>12 DEF new
<1> QED
  BY <1>4, <1>5

(* What a group's installation keeps of the list, and adds.                *)
LEMMA GroupKeeps ==
    ASSUME NEW groups \in Seq(Group), NEW m \in ToSet(Matchers), NEW b \in Binaries, UniquePre(groups)
    PROVE  LET new == InstallPreToolGroup(groups, m, b)
           IN  /\ UniquePre(new) /\ Held(new, m, b)
               /\ OursInPlace(groups) => OursInPlace(new)
               /\ \A other : Held(groups, other, b) => Held(new, other, b)
<1> DEFINE new == InstallPreToolGroup(groups, m, b)
           HeldAt(gs, i) == \E k \in DOMAIN gs[i].hooks :
                               /\ gs[i].hooks[k] = b
                               /\ \A n \in DOMAIN gs[i].hooks : gs[i].hooks[n] \in Recognised => n = k
<1>1. PICK at \in DOMAIN new :
          /\ DOMAIN new = DOMAIN groups \cup {at}
          /\ \A i \in DOMAIN groups \ {at} : new[i] = groups[i]
          /\ \A i \in DOMAIN groups : groups[i].matcher = m => at \in DOMAIN groups
          /\ at \in DOMAIN groups => groups[at].matcher = m
          /\ new[at].matcher = m
          /\ HeldAt(new, at)
  BY GroupInstalled
<1> HIDE DEF new
<1>2. UniquePre(new)
  <2> SUFFICES ASSUME NEW i \in DOMAIN new, NEW j \in DOMAIN new, new[i].matcher = new[j].matcher, i # j
               PROVE  FALSE
    BY DEF UniquePre
  <2>1. CASE i # at /\ j # at
    BY <1>1, <2>1 DEF UniquePre
  <2>2. CASE i = at
    BY <1>1, <2>2 DEF UniquePre
  <2>3. CASE j = at
    BY <1>1, <2>3 DEF UniquePre
  <2> QED
    BY <2>1, <2>2, <2>3
<1>3. Held(new, m, b)
  BY <1>1 DEF Held
<1>4. ASSUME OursInPlace(groups) PROVE OursInPlace(new)
  <2> SUFFICES ASSUME NEW i \in DOMAIN new, OursAt(new, i) PROVE new[i].matcher \in ToSet(Matchers)
    BY DEF OursInPlace
  <2>1. CASE i = at
    BY <1>1, <2>1
  <2>2. CASE i # at
    <3>1. i \in DOMAIN groups /\ new[i] = groups[i]
      BY <1>1, <2>2
    <3> QED
      BY <1>4, <3>1 DEF OursInPlace, OursAt
  <2> QED
    BY <2>1, <2>2
<1>5. ASSUME NEW other, Held(groups, other, b) PROVE Held(new, other, b)
  <2>1. PICK i \in DOMAIN groups : groups[i].matcher = other /\ HeldAt(groups, i)
    BY <1>5 DEF Held
  <2>2. CASE i = at
    BY <1>1, <1>3, <2>1, <2>2
  <2>3. CASE i # at
    <3>1. i \in DOMAIN new /\ new[i] = groups[i]
      BY <1>1, <2>3
    <3> QED
      BY <2>1, <3>1 DEF Held
  <2> QED
    BY <2>2, <2>3
<1> QED
  BY <1>2, <1>3, <1>4, <1>5 DEF new

(* install_pre_tool_use_hook, through all the matchers whose groups it can *)
(* enter.                                                                  *)
LEMMA PreInstalled ==
    ASSUME NEW groups \in Seq(Group), NEW b \in Binaries, NEW opaque, UniquePre(groups)
    PROVE  LET new == InstallPreToolUse(groups, b, opaque)
           IN  /\ new \in Seq(Group) /\ PreView(new) = PreView(groups) /\ UniquePre(new)
               /\ OursInPlace(groups) => OursInPlace(new)
               /\ \A m \in ToSet(Matchers) \ opaque : Held(new, m, b)
<1> DEFINE len == Len(Matchers)
           At(gs, m) == IF m \in opaque THEN gs ELSE InstallPreToolGroup(gs, m, b)
           step == [n \in 1 .. len |-> [gs \in Seq(Group) |-> At(gs, Matchers[n])]]
<1>1. len \in Nat /\ DOMAIN Matchers = 1 .. len /\ \A n \in 1 .. len : Matchers[n] \in ToSet(Matchers)
  <2>1. Matchers \in Seq(STRING)
    BY MatchersAssumption
  <2> QED
    BY <2>1, LenProperties DEF ToSet
<1>2. \A n \in 1 .. len, gs \in Seq(Group) : At(gs, Matchers[n]) \in Seq(Group)
  BY <1>1, GroupInstalled
<1> HIDE DEF len
<1>3. step \in [1 .. len -> [Seq(Group) -> Seq(Group)]]
  BY <1>2
<1>4. \A n \in 1 .. len, gs \in Seq(Group) : step[n][gs] = At(gs, Matchers[n])
  OBVIOUS
<1> HIDE DEF step
<1>5. PICK f \in [0 .. len -> Seq(Group)] : f[0] = groups /\ \A i \in 1 .. len : f[i] = step[i][f[i - 1]]
  <2> DEFINE S == Seq(Group)
  <2>1. step \in [1 .. len -> [S -> S]] /\ groups \in S /\ len \in Nat
    BY <1>1, <1>3
  <2> HIDE DEF S
  <2>2. HasCourse(S, groups, len, step)
    BY <2>1, Recursion
  <2> QED
    BY <2>2 DEF S, HasCourse
<1> DEFINE Course(g) == [n \in 0 .. len |-> IF n = 0 THEN groups ELSE At(g[n - 1], Matchers[n])]
           after == CHOOSE g : g = Course(g)
<1>6. f = Course(f)
  <2>1. \A n \in 0 .. len : f[n] = IF n = 0 THEN groups ELSE At(f[n - 1], Matchers[n])
    <3> SUFFICES ASSUME NEW n \in 0 .. len, n # 0
                 PROVE  f[n] = At(f[n - 1], Matchers[n])
      BY <1>5
    <3>1. n \in 1 .. len /\ n - 1 \in 0 .. len
      BY <1>1
    <3> QED
      BY <1>4, <1>5, <3>1
  <2> QED
    BY <2>1
<1>7. after = Course(after)
  <2> HIDE DEF Course
  <2> QED
    BY <1>6
<1> DEFINE Raw(g) == [n \in 0 .. len |->
                        IF n = 0 THEN groups
                        ELSE IF Matchers[n] \in opaque THEN g[n - 1]
                        ELSE InstallPreToolGroup(g[n - 1], Matchers[n], b)]
<1>8. InstallPreToolUse(groups, b, opaque) = after[len]
  <2>1. InstallPreToolUse(groups, b, opaque) = (CHOOSE g : g = Raw(g))[len]
    BY Zenon DEF InstallPreToolUse, len
  <2>2. \A g : Raw(g) = Course(g)
    OBVIOUS
  <2> HIDE DEF Raw, Course
  <2> QED
    BY <2>1, <2>2
<1> HIDE DEF after, At
<1>9. after[0] = groups /\ \A n \in 1 .. len : after[n] = At(after[n - 1], Matchers[n])
  <2>1. \A n \in 0 .. len : after[n] = IF n = 0 THEN groups ELSE At(after[n - 1], Matchers[n])
    BY <1>7
  <2> QED
    BY <1>1, <2>1
<1> DEFINE Fine(n) == /\ after[n] \in Seq(Group) /\ PreView(after[n]) = PreView(groups) /\ UniquePre(after[n])
                      /\ OursInPlace(groups) => OursInPlace(after[n])
                      /\ \A k \in 1 .. n : Matchers[k] \notin opaque => Held(after[n], Matchers[k], b)
           All == {n \in Nat : n <= len => Fine(n)}
<1>10. 0 \in All
  BY <1>9
<1>11. ASSUME NEW n \in Nat, n \in All PROVE n + 1 \in All
  <2> SUFFICES ASSUME n + 1 <= len PROVE Fine(n + 1)
    OBVIOUS
  <2>1. n + 1 \in 1 .. len /\ Fine(n) /\ after[n + 1] = At(after[n], Matchers[n + 1])
    BY <1>1, <1>9, <1>11
  <2> DEFINE gs == after[n]
             new == after[n + 1]
             m == Matchers[n + 1]
  <2>2. /\ gs \in Seq(Group) /\ UniquePre(gs) /\ m \in ToSet(Matchers)
        /\ new = IF m \in opaque THEN gs ELSE InstallPreToolGroup(gs, m, b)
    BY <1>1, <2>1 DEF At
  <2> HIDE DEF gs, new, m
  <2>3. new \in Seq(Group) /\ PreView(new) = PreView(gs)
    BY <2>2, GroupInstalled
  <2>4. /\ UniquePre(new) /\ (m \notin opaque => Held(new, m, b))
        /\ OursInPlace(gs) => OursInPlace(new)
        /\ \A other : Held(gs, other, b) => Held(new, other, b)
    BY <2>2, GroupKeeps
  <2>5. \A k \in 1 .. n + 1 : k \in 1 .. n \/ k = n + 1
    OBVIOUS
  <2>6. \A k \in 1 .. n + 1 : Matchers[k] \notin opaque => Held(new, Matchers[k], b)
    BY <2>1, <2>4, <2>5 DEF gs, m
  <2> QED
    BY <2>1, <2>3, <2>4, <2>6 DEF gs, new
<1> HIDE DEF All
<1>12. len \in All
  BY <1>1, <1>10, <1>11, Induction
<1>13. Fine(len)
  BY <1>1, <1>12 DEF All
<1>14. \A m \in ToSet(Matchers) : \E k \in 1 .. len : m = Matchers[k]
  BY <1>1 DEF ToSet
<1> QED
  BY <1>8, <1>13, <1>14

(* remove_pre_tool_use_hook: nothing of so-context's is left, but in the   *)
(* groups it cannot enter.                                                 *)
LEMMA PreRemoved ==
    ASSUME NEW groups \in Seq(Group), NEW opaque, UniquePre(groups), OursInPlace(groups)
    PROVE  LET new == RemovePreToolUse(groups, opaque)
           IN  /\ new \in Seq(Group) /\ PreView(new) = PreView(groups) /\ UniquePre(new) /\ OursInPlace(new)
               /\ \A i \in DOMAIN new : OursAt(new, i) => new[i].matcher \in opaque
<1> DEFINE ours(g) == g.matcher \in ToSet(Matchers) \ opaque
           left == [i \in DOMAIN groups |->
                       IF ours(groups[i]) THEN [groups[i] EXCEPT !.hooks = Others(@)] ELSE groups[i]]
           P == {i \in DOMAIN left : ours(left[i]) => left[i].hooks # <<>>}
           new == Those(left, P)
<1>1. RemovePreToolUse(groups, opaque) = new
  BY DEF RemovePreToolUse
<1>2. Len(groups) \in Nat /\ DOMAIN groups = 1 .. Len(groups) /\ \A i \in DOMAIN groups : groups[i] \in Group
  BY LenProperties
<1>3. DOMAIN left = DOMAIN groups
  OBVIOUS
<1>4. ASSUME NEW i \in DOMAIN groups
      PROVE  /\ left[i] \in Group /\ left[i].matcher = groups[i].matcher
             /\ Only(left[i].hooks, UserHooks) = Only(groups[i].hooks, UserHooks)
             /\ OursAt(left, i) => groups[i].matcher \in opaque /\ OursAt(groups, i)
  <2>1. groups[i] \in Group /\ groups[i].hooks \in Seq(Hooks)
    BY <1>2 DEF Group, Hooks
  <2>2. CASE ours(groups[i])
    <3> DEFINE rest == Others(groups[i].hooks)
    <3>1. /\ rest \in Seq(Hooks) /\ Only(rest, UserHooks) = Only(groups[i].hooks, UserHooks)
          /\ \A k \in DOMAIN rest : rest[k] \notin Recognised
      <4>1. rest \in Seq(Hooks) /\ \A k \in DOMAIN rest : rest[k] \notin Recognised
        BY <2>1, OnlyHolds DEF Others
      <4>2. UserHooks \cap Recognised = {}
        BY BinariesAssumption, HooksAssumption
      <4>3. Only(rest, UserHooks) = Only(groups[i].hooks, UserHooks)
        BY <2>1, <4>2, OnlyOfWithout DEF Others
      <4> QED
        BY <4>1, <4>3
    <3>2. left[i] = [groups[i] EXCEPT !.hooks = rest]
      BY <2>2
    <3> HIDE DEF rest, left
    <3>3. left[i] \in Group /\ left[i].matcher = groups[i].matcher /\ left[i].hooks = rest
      BY <2>1, <3>1, <3>2 DEF Group, Hooks
    <3> QED
      BY <3>1, <3>3 DEF OursAt
  <2>3. CASE ~ ours(groups[i])
    <3>1. left[i] = groups[i]
      BY <2>3
    <3> HIDE DEF left
    <3>2. OursAt(left, i) => OursAt(groups, i)
      BY <3>1 DEF OursAt
    <3>3. OursAt(groups, i) => groups[i].matcher \in opaque
      BY <2>3 DEF OursInPlace
    <3> QED
      BY <2>1, <3>1, <3>2, <3>3
  <2> QED
    BY <2>2, <2>3
<1>5. left \in Seq(Group)
  <2>1. left \in [1 .. Len(groups) -> Group]
    <3>1. \A i \in 1 .. Len(groups) : left[i] \in Group
      BY <1>2, <1>4
    <3> QED
      BY <1>2, <3>1
  <2> HIDE DEF left
  <2> QED
    BY <1>2, <2>1, FunctionIsSeq, Zenon
<1> HIDE DEF left
<1>6. PreView(left) = PreView(groups)
  BY <1>3, <1>4, <1>5, PreViewSame
<1>7. P \in SUBSET DOMAIN left
  OBVIOUS
<1>8. \A i \in DOMAIN left \ P : Only(left[i].hooks, UserHooks) = <<>>
  <2> SUFFICES ASSUME NEW i \in DOMAIN left, left[i].hooks = <<>> PROVE Only(left[i].hooks, UserHooks) = <<>>
    OBVIOUS
  <2>1. left[i].hooks \in Seq(Hooks) /\ {k \in DOMAIN left[i].hooks : left[i].hooks[k] \in UserHooks} = {}
    OBVIOUS
  <2> QED
    BY <2>1, ThoseOfNone DEF Only
<1> HIDE DEF P
<1>9. PreView(new) = PreView(left)
  BY <1>5, <1>7, <1>8, PreViewThose
<1>10. /\ new \in Seq(Group)
       /\ \A n \in DOMAIN new : Nth(P, n) \in DOMAIN groups /\ new[n] = left[Nth(P, n)]
       /\ \A n, m \in DOMAIN new : Nth(P, n) = Nth(P, m) => n = m
  BY <1>3, <1>5, <1>7, ThosePlaces, ThoseOnce
<1> HIDE DEF new
<1>11. UniquePre(new)
  BY <1>4, <1>10 DEF UniquePre
<1>12. \A n \in DOMAIN new : OursAt(new, n) => new[n].matcher \in opaque /\ OursAt(groups, Nth(P, n))
  <2> SUFFICES ASSUME NEW n \in DOMAIN new, OursAt(new, n)
               PROVE  new[n].matcher \in opaque /\ OursAt(groups, Nth(P, n))
    OBVIOUS
  <2>1. OursAt(left, Nth(P, n))
    BY <1>10 DEF OursAt
  <2> QED
    BY <1>4, <1>10, <2>1
<1>13. OursInPlace(new)
  BY <1>4, <1>10, <1>12 DEF OursInPlace
<1> QED
  BY <1>1, <1>6, <1>9, <1>10, <1>11, <1>12, <1>13

(* PostCompact groups: each binary is in them once.                        *)
Once(groups) ==
    \A i, j \in DOMAIN groups : \A k \in DOMAIN groups[i], n \in DOMAIN groups[j] :
        groups[i][k] = groups[j][n] /\ groups[i][k] \in Binaries => i = j /\ k = n

(* Claude's install_post_compact_hook: of exactly this binary one is left. *)
LEMMA ClaudeInstalled ==
    ASSUME NEW groups \in Seq(Seq(Hooks)), NEW b \in Binaries, Once(groups)
    PROVE  LET new == InstallPostCompactClaude(groups, b)
           IN  /\ new \in Seq(Seq(Hooks)) /\ PostView(new) = PostView(groups)
               /\ Once(new) /\ Sole(new, {b}, b)
<1> DEFINE I == {i \in 1 .. Len(groups) : b \in ToSet(groups[i])}
           new == InstallPostCompactClaude(groups, b)
           place == SelectInSeq(groups, LAMBDA hs : b \in ToSet(hs))
<1>1. Len(groups) \in Nat /\ DOMAIN groups = 1 .. Len(groups) /\ \A i \in DOMAIN groups : groups[i] \in Seq(Hooks)
  BY LenProperties
<1>2. place = IF I # {} THEN Min(I) ELSE 0
  BY DEF SelectInSeq
<1>3. new = IF place = 0 THEN Append(groups, <<b>>) ELSE [groups EXCEPT ![place] = Append(Without(@, {b}), b)]
  BY DEF InstallPostCompactClaude
<1>4. b \in Hooks /\ b \in Binaries
  BY DEF Hooks
<1> HIDE DEF new, place
<1> DEFINE Shape(at, last) ==
              /\ \A i \in DOMAIN new \ {at} : i \in DOMAIN groups /\ new[i] = groups[i]
              /\ \A i \in DOMAIN groups \ {at} : b \notin ToSet(groups[i])
              /\ new[at][last] = b
              /\ \A k \in DOMAIN new[at] \ {last} :
                    /\ new[at][k] # b
                    /\ at \in DOMAIN groups /\ \E n \in DOMAIN groups[at] : groups[at][n] = new[at][k]
              /\ \A k, n \in DOMAIN new[at] : new[at][k] = new[at][n] /\ new[at][k] \in Binaries => k = n
<1>5. /\ new \in Seq(Seq(Hooks)) /\ PostView(new) = PostView(groups)
      /\ \E at \in DOMAIN new : \E last \in DOMAIN new[at] : Shape(at, last)
  <2>1. CASE I = {}
    <3> DEFINE g == <<b>>
               at == Len(groups) + 1
    <3>1. new = Append(groups, g)
      BY <1>2, <1>3, <2>1
    <3>2. g \in Seq(Hooks) /\ Only(g, UserHooks) = <<>>
      <4>1. <<>> \in Seq(Hooks)
        OBVIOUS
      <4> QED
        BY <4>1, UsersHooksKept
    <3>3. DOMAIN g = {1} /\ g[1] = b
      OBVIOUS
    <3> HIDE DEF g
    <3>4. /\ new \in Seq(Seq(Hooks)) /\ DOMAIN new = 1 .. Len(groups) + 1
          /\ \A i \in 1 .. Len(groups) : new[i] = groups[i]
          /\ new[at] = g
      BY <1>1, <3>1, <3>2, AppendProperties, LenProperties
    <3>5. PostView(new) = PostView(groups)
      BY <3>1, <3>2, PostViewAppend
    <3>6. at \in DOMAIN new /\ at \notin DOMAIN groups /\ DOMAIN new = DOMAIN groups \cup {at}
      BY <1>1, <3>4
    <3>7. \A i \in DOMAIN groups : b \notin ToSet(groups[i]) /\ new[i] = groups[i]
      BY <1>1, <2>1, <3>4
    <3> HIDE DEF at
    <3>8. DOMAIN new[at] = {1} /\ new[at][1] = b
      BY <3>3, <3>4
    <3>9. Shape(at, 1)
      BY <3>6, <3>7, <3>8
    <3> HIDE DEF Shape
    <3> QED
      BY <3>4, <3>5, <3>6, <3>8, <3>9
  <2>2. CASE I # {}
    <3> DEFINE at == Min(I)
               rest == Without(groups[at], {b})
               hs == Append(rest, b)
               Q == {k \in DOMAIN groups[at] : groups[at][k] \notin {b}}
    <3>1. at \in I
      <4>1. I \in SUBSET Nat
        BY <1>1
      <4> QED
        BY <2>2, <4>1, Firsts
    <3>2. at \in DOMAIN groups /\ at # 0 /\ place = at /\ groups[at] \in Seq(Hooks) /\ b \in ToSet(groups[at])
      BY <1>1, <1>2, <2>2, <3>1
    <3> HIDE DEF at, I
    <3>3. hs \in Seq(Hooks) /\ Only(hs, UserHooks) = Only(groups[at], UserHooks)
      BY <3>2, UsersHooksKept
    <3>4. /\ rest \in Seq(Hooks)
          /\ \A k \in DOMAIN rest : Nth(Q, k) \in DOMAIN groups[at] /\ rest[k] = groups[at][Nth(Q, k)] /\ rest[k] # b
          /\ \A k, n \in DOMAIN rest : Nth(Q, k) = Nth(Q, n) => k = n
      <4>1. Q \in SUBSET DOMAIN groups[at]
        OBVIOUS
      <4>2. rest = Those(groups[at], Q)
        BY DEF Without
      <4>3. \A k \in Q : groups[at][k] # b
        OBVIOUS
      <4> HIDE DEF Q, rest
      <4>4. \A k \in DOMAIN rest : Nth(Q, k) \in Q /\ rest[k] = groups[at][Nth(Q, k)]
        BY <3>2, <4>1, <4>2, ThosePlaces
      <4>5. rest \in Seq(Hooks)
        BY <3>2, <4>1, <4>2, ThosePlaces
      <4>6. \A k, n \in DOMAIN rest : Nth(Q, k) = Nth(Q, n) => k = n
        BY <3>2, <4>1, <4>2, ThoseOnce
      <4> QED
        BY <4>1, <4>3, <4>4, <4>5, <4>6
    <3> HIDE DEF Q, rest
    <3> DEFINE last == Len(rest) + 1
    <3>5. /\ DOMAIN rest = 1 .. Len(rest) /\ Len(rest) \in Nat /\ DOMAIN hs = 1 .. last
          /\ \A k \in DOMAIN rest : hs[k] = rest[k]
          /\ hs[last] = b
      BY <1>4, <3>4, AppendProperties, LenProperties
    <3>6. last \in DOMAIN hs /\ \A k \in DOMAIN hs \ {last} : k \in DOMAIN rest
      BY <3>5
    <3> HIDE DEF hs, last
    <3>7. /\ DOMAIN new = DOMAIN groups /\ new = [groups EXCEPT ![at] = hs]
          /\ \A i \in DOMAIN groups \ {at} : new[i] = groups[i]
          /\ new[at] = hs
      BY <1>3, <3>2 DEF hs, rest
    <3>8. new \in Seq(Seq(Hooks))
      <4>1. \A i \in DOMAIN groups : new[i] \in Seq(Hooks)
        BY <1>1, <3>3, <3>7
      <4>2. new \in [1 .. Len(groups) -> Seq(Hooks)]
        BY <1>1, <3>7, <4>1
      <4> QED
        BY <1>1, <4>2, FunctionIsSeq, Zenon
    <3>9. PostView(new) = PostView(groups)
      BY <3>3, <3>7, <3>8, PostViewSame
    <3>10. \A i \in DOMAIN groups \ {at} : b \notin ToSet(groups[i])
      <4> SUFFICES ASSUME NEW i \in DOMAIN groups, i # at, b \in ToSet(groups[i]) PROVE FALSE
        OBVIOUS
      <4>1. PICK k \in DOMAIN groups[i] : groups[i][k] = b
        BY DEF ToSet
      <4>2. PICK n \in DOMAIN groups[at] : groups[at][n] = b
        BY <3>2 DEF ToSet
      <4> QED
        BY <3>2, <4>1, <4>2 DEF Once
    <3>11. \A k \in DOMAIN new[at] \ {last} :
              new[at][k] # b /\ \E n \in DOMAIN groups[at] : groups[at][n] = new[at][k]
      BY <3>4, <3>5, <3>6, <3>7
    <3>12. \A k, n \in DOMAIN new[at] : new[at][k] = new[at][n] /\ new[at][k] \in Binaries => k = n
      <4> SUFFICES ASSUME NEW k \in DOMAIN hs, NEW n \in DOMAIN hs, hs[k] = hs[n], hs[k] \in Binaries PROVE k = n
        BY <3>7
      <4>1. CASE k = last \/ n = last
        BY <3>4, <3>5, <3>6, <4>1
      <4>2. CASE k # last /\ n # last
        <5>1. /\ k \in DOMAIN rest /\ n \in DOMAIN rest /\ hs[k] = rest[k] /\ hs[n] = rest[n]
          BY <3>5, <3>6, <4>2
        <5>2. /\ Nth(Q, k) \in DOMAIN groups[at] /\ Nth(Q, n) \in DOMAIN groups[at]
              /\ groups[at][Nth(Q, k)] = groups[at][Nth(Q, n)] /\ groups[at][Nth(Q, k)] \in Binaries
          BY <3>4, <5>1
        <5>3. Nth(Q, k) = Nth(Q, n)
          BY <3>2, <5>2 DEF Once
        <5> QED
          BY <3>4, <5>1, <5>3
      <4> QED
        BY <4>1, <4>2
    <3>13. last \in DOMAIN new[at] /\ new[at][last] = b /\ at \in DOMAIN new
      BY <3>2, <3>5, <3>6, <3>7
    <3>14. Shape(at, last)
      BY <3>2, <3>7, <3>10, <3>11, <3>12, <3>13
    <3> HIDE DEF Shape
    <3> QED
      BY <3>8, <3>9, <3>13, <3>14
  <2> QED
    BY <2>1, <2>2
<1>6. PICK at \in DOMAIN new : \E last \in DOMAIN new[at] : Shape(at, last)
  BY <1>5
<1>7. PICK last \in DOMAIN new[at] : Shape(at, last)
  BY <1>6
<1>8. \A i \in DOMAIN new : \A k \in DOMAIN new[i] : new[i][k] = b => i = at /\ k = last
  <2> SUFFICES ASSUME NEW i \in DOMAIN new, NEW k \in DOMAIN new[i], new[i][k] = b PROVE i = at /\ k = last
    OBVIOUS
  <2>1. CASE i = at
    BY <1>7, <2>1
  <2>2. CASE i # at
    BY <1>7, <2>2 DEF ToSet
  <2> QED
    BY <2>1, <2>2
<1>9. Sole(new, {b}, b)
  BY <1>8, <1>7 DEF Sole
<1>10. ASSUME NEW i \in DOMAIN new, NEW j \in DOMAIN new, NEW k \in DOMAIN new[i], NEW n \in DOMAIN new[j],
             new[i][k] = new[j][n], new[i][k] \in Binaries
      PROVE  i = j /\ k = n
  <2>1. CASE new[i][k] = b
    BY <1>8, <1>10, <2>1
  <2>2. CASE new[i][k] # b
    <3>1. ASSUME NEW l \in DOMAIN new, NEW q \in DOMAIN new[l], new[l][q] # b
          PROVE  /\ l \in DOMAIN groups /\ \E r \in DOMAIN groups[l] : groups[l][r] = new[l][q]
      <4>1. CASE l = at
        BY <1>7, <3>1, <4>1
      <4>2. CASE l # at
        BY <1>7, <4>2
      <4> QED
        BY <4>1, <4>2
    <3>2. PICK r \in DOMAIN groups[i] : i \in DOMAIN groups /\ groups[i][r] = new[i][k]
      BY <2>2, <3>1
    <3>3. PICK q \in DOMAIN groups[j] : j \in DOMAIN groups /\ groups[j][q] = new[j][n]
      BY <1>10, <2>2, <3>1
    <3>4. i = j
      BY <1>10, <3>2, <3>3 DEF Once
    <3>5. CASE i = at
      BY <1>10, <1>7, <3>4, <3>5
    <3>6. CASE i # at
      <4>1. new[i] = groups[i] /\ new[j] = groups[j]
        BY <1>7, <3>4, <3>6
      <4> QED
        BY <1>10, <3>2, <3>3, <4>1 DEF Once
    <3> QED
      BY <3>4, <3>5, <3>6
  <2> QED
    BY <2>1, <2>2
<1>11. Once(new)
  BY <1>10 DEF Once
<1> QED
  BY <1>5, <1>9, <1>11 DEF new

NoneOurs(hs) == \A k \in DOMAIN hs : hs[k] \notin Recognised

(* Groups without so-context's handlers show the same of the user's.       *)
LEMMA OthersOfGroups ==
    ASSUME NEW groups \in Seq(Seq(Hooks))
    PROVE  \A i \in DOMAIN groups :
              /\ groups[i] \in Seq(Hooks)
              /\ Others(groups[i]) \in Seq(Hooks) /\ NoneOurs(Others(groups[i]))
              /\ Only(Others(groups[i]), UserHooks) = Only(groups[i], UserHooks)
<1> TAKE i \in DOMAIN groups
<1>1. groups[i] \in Seq(Hooks)
  OBVIOUS
<1>2. UserHooks \cap Recognised = {}
  BY BinariesAssumption, HooksAssumption
<1>3. Only(Others(groups[i]), UserHooks) = Only(groups[i], UserHooks)
  BY <1>1, <1>2, OnlyOfWithout DEF Others
<1>4. Others(groups[i]) \in Seq(Hooks) /\ NoneOurs(Others(groups[i]))
  BY <1>1, OnlyHolds DEF Others, NoneOurs
<1> QED
  BY <1>1, <1>3, <1>4

(* Codex's install_post_compact_hook: of so-context's the new one is left. *)
LEMMA CodexInstalled ==
    ASSUME NEW groups \in Seq(Seq(Hooks)), NEW b \in Binaries
    PROVE  LET new == InstallPostCompactCodex(groups, b)
           IN  /\ new \in Seq(Seq(Hooks)) /\ PostView(new) = PostView(groups)
               /\ b \in Recognised => Sole(new, Recognised, b)
<1> DEFINE had(hs) == \E h \in ToSet(hs) : IsSoContext(h)
           I == {i \in 1 .. Len(groups) : had(groups[i])}
           new == InstallPostCompactCodex(groups, b)
           target == SelectInSeq(groups, had)
           left == [i \in DOMAIN groups |->
                       IF i = target THEN Append(Others(groups[i]), b) ELSE Others(groups[i])]
           P == {i \in DOMAIN left : had(groups[i]) => left[i] # <<>>}
<1>1. Len(groups) \in Nat /\ DOMAIN groups = 1 .. Len(groups) /\ \A i \in DOMAIN groups : groups[i] \in Seq(Hooks)
  BY LenProperties
<1>2. target = IF I # {} THEN Min(I) ELSE 0
  BY DEF SelectInSeq
<1>3. new = IF target = 0 THEN Append(groups, <<b>>) ELSE Those(left, P)
  BY DEF InstallPostCompactCodex
<1>4. b \in Hooks
  BY DEF Hooks
<1>5. \A i \in DOMAIN groups : ~ had(groups[i]) => NoneOurs(groups[i])
  BY DEF NoneOurs, ToSet, IsSoContext
<1>6. DOMAIN left = DOMAIN groups
      /\ \A i \in DOMAIN groups :
            left[i] = IF i = target THEN Append(Others(groups[i]), b) ELSE Others(groups[i])
  OBVIOUS
<1>7. /\ P \in SUBSET DOMAIN groups
      /\ \A i \in DOMAIN groups \ P : left[i] = <<>>
      /\ \A i \in DOMAIN groups : left[i] # <<>> => i \in P
  OBVIOUS
<1> HIDE DEF new, target, left, P
<1>8. CASE I = {}
  <2> DEFINE g == <<b>>
             at == Len(groups) + 1
  <2>1. new = Append(groups, g)
    BY <1>2, <1>3, <1>8
  <2>2. g \in Seq(Hooks) /\ Only(g, UserHooks) = <<>>
    <3>1. <<>> \in Seq(Hooks)
      OBVIOUS
    <3> QED
      BY <3>1, UsersHooksKept
  <2>3. DOMAIN g = {1} /\ g[1] = b
    OBVIOUS
  <2> HIDE DEF g
  <2>4. /\ new \in Seq(Seq(Hooks)) /\ DOMAIN new = 1 .. Len(groups) + 1
        /\ \A i \in 1 .. Len(groups) : new[i] = groups[i]
        /\ new[at] = g
    BY <1>1, <2>1, <2>2, AppendProperties, LenProperties
  <2>5. PostView(new) = PostView(groups)
    BY <2>1, <2>2, PostViewAppend
  <2>6. at \in DOMAIN new /\ DOMAIN new = DOMAIN groups \cup {at}
    BY <1>1, <2>4
  <2>7. \A i \in DOMAIN groups : NoneOurs(groups[i]) /\ new[i] = groups[i]
    BY <1>1, <1>5, <1>8, <2>4
  <2> HIDE DEF at
  <2>8. \A j \in DOMAIN new : \A n \in DOMAIN new[j] : new[j][n] \in Recognised => j = at /\ n = 1
    BY <2>3, <2>4, <2>6, <2>7 DEF NoneOurs
  <2>9. Sole(new, Recognised, b)
    BY <2>3, <2>4, <2>6, <2>8 DEF Sole
  <2> QED
    BY <2>4, <2>5, <2>9 DEF new
<1>9. CASE I # {}
  <2>1. target \in I
    <3>1. I \in SUBSET Nat
      BY <1>1
    <3> QED
      BY <1>2, <1>9, <3>1, Firsts
  <2>2. target \in DOMAIN groups /\ target # 0
    BY <1>1, <2>1
  <2> HIDE DEF I
  <2>3. \A i \in DOMAIN groups :
            /\ left[i] \in Seq(Hooks) /\ Only(left[i], UserHooks) = Only(groups[i], UserHooks)
            /\ i # target => NoneOurs(left[i])
    <3> TAKE i \in DOMAIN groups
    <3>1. CASE i = target
      <4>1. left[i] = Append(Others(groups[i]), b) /\ groups[i] \in Seq(Hooks)
        BY <1>1, <1>6, <3>1
      <4> QED
        BY <3>1, <4>1, UsersHooksKept
    <3>2. CASE i # target
      <4>1. left[i] = Others(groups[i])
        BY <1>6, <3>2
      <4> QED
        BY <4>1, OthersOfGroups
    <3> QED
      BY <3>1, <3>2
  <2>4. left[target] # <<>> /\ \E k \in DOMAIN left[target] :
            left[target][k] = b /\ \A n \in DOMAIN left[target] : left[target][n] \in Recognised => n = k
    <3>1. groups[target] \in Seq(Hooks) /\ left[target] = Append(Others(groups[target]), b)
      BY <1>1, <1>6, <2>2
    <3> QED
      BY <3>1, BinaryLast
  <2>5. left \in Seq(Seq(Hooks))
    <3>1. left \in [1 .. Len(groups) -> Seq(Hooks)]
      BY <1>1, <1>6, <2>3 DEF left
    <3> QED
      BY <1>1, <3>1, FunctionIsSeq, Zenon
  <2>6. PostView(left) = PostView(groups)
    BY <1>6, <2>3, <2>5, PostViewSame
  <2>7. \A i \in DOMAIN left \ P : Only(left[i], UserHooks) = <<>>
    <3> SUFFICES ASSUME NEW i \in DOMAIN left \ P PROVE Only(left[i], UserHooks) = <<>>
      OBVIOUS
    <3>1. left[i] = <<>> /\ left[i] \in Seq(Hooks)
      BY <1>6, <1>7, <2>3
    <3>2. {k \in DOMAIN left[i] : left[i][k] \in UserHooks} = {}
      BY <3>1
    <3> QED
      BY <3>1, <3>2, ThoseOfNone DEF Only
  <2>8. new = Those(left, P) /\ P \in SUBSET DOMAIN left
    BY <1>3, <1>6, <1>7, <2>2
  <2>9. PostView(new) = PostView(groups)
    BY <2>5, <2>6, <2>7, <2>8, PostViewThose
  <2>10. /\ new \in Seq(Seq(Hooks))
         /\ \A n \in DOMAIN new : Nth(P, n) \in P /\ new[n] = left[Nth(P, n)]
    BY <2>5, <2>8, ThosePlaces
  <2>11. /\ \A n, m \in DOMAIN new : Nth(P, n) = Nth(P, m) => n = m
         /\ \A i \in P : \E n \in DOMAIN new : Nth(P, n) = i
    BY <2>5, <2>8, ThoseOnce
  <2>12. PICK at \in DOMAIN new : Nth(P, at) = target
    BY <1>7, <2>2, <2>4, <2>11
  <2>13. PICK k \in DOMAIN left[target] :
            left[target][k] = b /\ \A n \in DOMAIN left[target] : left[target][n] \in Recognised => n = k
    BY <2>4
  <2>14. new[at] = left[target]
    BY <2>10, <2>12
  <2>15. \A j \in DOMAIN new : j # at => NoneOurs(new[j])
    BY <1>7, <2>3, <2>10, <2>11, <2>12
  <2>16. \A j \in DOMAIN new : \A n \in DOMAIN new[j] : new[j][n] \in Recognised => j = at /\ n = k
    BY <2>13, <2>14, <2>15 DEF NoneOurs
  <2>17. Sole(new, Recognised, b)
    BY <2>13, <2>14, <2>16 DEF Sole
  <2> QED
    BY <2>9, <2>10, <2>17 DEF new
<1> QED
  BY <1>8, <1>9

(* remove_post_compact_hook: nothing of so-context's is left.              *)
LEMMA PostRemoved ==
    ASSUME NEW groups \in Seq(Seq(Hooks))
    PROVE  LET new == RemovePostCompact(groups)
           IN  /\ new \in Seq(Seq(Hooks)) /\ PostView(new) = PostView(groups)
               /\ \A i \in DOMAIN new : NoneOurs(new[i])
               /\ Once(groups) => Once(new)
<1> DEFINE left == [i \in DOMAIN groups |-> Others(groups[i])]
           P == {i \in DOMAIN left : left[i] \notin {<<>>}}
           new == Those(left, P)
           Q(i) == {k \in DOMAIN groups[i] : groups[i][k] \notin Recognised}
<1>1. Len(groups) \in Nat /\ DOMAIN groups = 1 .. Len(groups)
  BY LenProperties
<1>2. RemovePostCompact(groups) = new
  BY DEF RemovePostCompact, Without
<1>3. /\ P \in SUBSET DOMAIN left /\ \A i \in DOMAIN left \ P : left[i] = <<>>
      /\ DOMAIN left = DOMAIN groups /\ \A i \in DOMAIN groups : left[i] = Others(groups[i])
  OBVIOUS
<1> HIDE DEF left, P, Q
<1>4. \A i \in DOMAIN groups : /\ left[i] \in Seq(Hooks) /\ NoneOurs(left[i])
                               /\ Only(left[i], UserHooks) = Only(groups[i], UserHooks)
  BY <1>3, OthersOfGroups
<1>5. left \in Seq(Seq(Hooks))
  <2>1. left \in [1 .. Len(groups) -> Seq(Hooks)]
    BY <1>1, <1>3, <1>4 DEF left
  <2> QED
    BY <1>1, <2>1, FunctionIsSeq, Zenon
<1>6. PostView(left) = PostView(groups)
  BY <1>3, <1>4, <1>5, PostViewSame
<1>7. \A i \in DOMAIN left \ P : Only(left[i], UserHooks) = <<>>
  <2> SUFFICES ASSUME NEW i \in DOMAIN left \ P PROVE Only(left[i], UserHooks) = <<>>
    OBVIOUS
  <2>1. left[i] = <<>> /\ left[i] \in Seq(Hooks)
    BY <1>3, <1>4
  <2>2. {k \in DOMAIN left[i] : left[i][k] \in UserHooks} = {}
    BY <2>1
  <2> QED
    BY <2>1, <2>2, ThoseOfNone DEF Only
<1>8. PostView(new) = PostView(left)
  BY <1>3, <1>5, <1>7, PostViewThose
<1>9. /\ new \in Seq(Seq(Hooks))
      /\ \A n \in DOMAIN new : Nth(P, n) \in P /\ new[n] = left[Nth(P, n)]
  BY <1>3, <1>5, ThosePlaces
<1>10. \A n, m \in DOMAIN new : Nth(P, n) = Nth(P, m) => n = m
  BY <1>3, <1>5, ThoseOnce
<1> HIDE DEF new
<1>11. \A n \in DOMAIN new : NoneOurs(new[n])
  BY <1>3, <1>4, <1>9
<1>12. \A i \in DOMAIN groups : \A k, n \in DOMAIN left[i] :
          /\ Nth(Q(i), k) \in DOMAIN groups[i] /\ left[i][k] = groups[i][Nth(Q(i), k)]
          /\ Nth(Q(i), k) = Nth(Q(i), n) => k = n
  <2> TAKE i \in DOMAIN groups
  <2> DEFINE s == groups[i]
             q == Q(i)
  <2>1. s \in Seq(Hooks) /\ q \in SUBSET DOMAIN s /\ left[i] = Those(s, q)
    BY <1>3 DEF Others, Without, Q
  <2> HIDE DEF s, q
  <2>2. \A k \in DOMAIN left[i] : Nth(q, k) \in q /\ left[i][k] = s[Nth(q, k)]
    BY <2>1, ThosePlaces
  <2>3. \A k, n \in DOMAIN left[i] : Nth(q, k) = Nth(q, n) => k = n
    BY <2>1, ThoseOnce
  <2> QED
    BY <2>1, <2>2, <2>3 DEF s, q
<1>13. ASSUME Once(groups) PROVE Once(new)
  <2> SUFFICES ASSUME NEW i \in DOMAIN new, NEW j \in DOMAIN new, NEW k \in DOMAIN new[i], NEW n \in DOMAIN new[j],
                      new[i][k] = new[j][n], new[i][k] \in Binaries
               PROVE  i = j /\ k = n
    BY DEF Once
  <2> DEFINE x == Nth(P, i)
             y == Nth(P, j)
  <2>1. x \in DOMAIN groups /\ y \in DOMAIN groups /\ new[i] = left[x] /\ new[j] = left[y] /\ (x = y => i = j)
    BY <1>3, <1>9, <1>10
  <2> HIDE DEF x, y
  <2> DEFINE f == Nth(Q(x), k)
             g == Nth(Q(y), n)
  <2>2. /\ f \in DOMAIN groups[x] /\ g \in DOMAIN groups[y]
        /\ groups[x][f] = new[i][k] /\ groups[y][g] = new[j][n]
    BY <1>12, <2>1
  <2> HIDE DEF f, g
  <2>3. x = y /\ f = g
    BY <1>13, <2>1, <2>2 DEF Once
  <2> QED
    BY <1>12, <2>1, <2>3 DEF f, g
<1> QED
  BY <1>2, <1>6, <1>8, <1>9, <1>11, <1>13

-----------------------------------------------------------------------------
(* A config                                                                *)

(* What commands and edits keep of a config: a matcher has one group, the  *)
(* handlers of so-context are in its groups and, where they can be found,  *)
(* have the server with them, and Claude's PostCompact has a binary once.  *)
ConfigShape(file) ==
    /\ UniquePre(file.pre) /\ OursInPlace(file.pre)
    /\ \A i \in DOMAIN file.pre :
          OursAt(file.pre, i) /\ file.pre[i].matcher \notin file.opaque => file.server # NoBinary
    /\ client = "claude" => Once(file.post)
    /\ client = "opencode" => file.pre = <<>> /\ file.post = <<>>

(* A file that is read as a config is one, of that shape.                  *)
LEMMA ParsedIs ==
    /\ EmptyConfig \in Config /\ ConfigShape(EmptyConfig) /\ Bare(EmptyConfig)
    /\ \A file \in {Absent, Unparsable} \cup Config :
          Parsed(file) \in Config /\ (Readable(file) => Parsed(file) = file)
    /\ \A file \in Config : Readable(file) /\ Parsed(file) = file
<1>1. EmptyConfig \in Config
  BY DEF EmptyConfig, Config
<1>2. ConfigShape(EmptyConfig) /\ Bare(EmptyConfig)
  BY DEF EmptyConfig, ConfigShape, Bare, UniquePre, OursInPlace, Once
<1>3. \A file \in Config : Readable(file)
  BY FilesAssumption DEF Readable
<1>4. \A file \in {Absent, Unparsable} \cup Config :
          Parsed(file) \in Config /\ (Readable(file) => Parsed(file) = file)
  BY <1>1 DEF Readable, Parsed
<1> QED
  BY <1>1, <1>2, <1>3, <1>4 DEF Parsed

(* A group of a matcher of its own that holds the binary is the only one.  *)
LEMMA HeldIsSole ==
    ASSUME NEW file, NEW m, NEW b, UniquePre(file.pre), Held(file.pre, m, b)
    PROVE  Sole(PreHooks(file, m), Recognised, b)
<1> DEFINE g == PreHooks(file, m)
<1>1. DOMAIN g = DOMAIN file.pre
  BY DEF PreHooks
<1>2. \A i \in DOMAIN file.pre : g[i] = IF file.pre[i].matcher = m THEN file.pre[i].hooks ELSE <<>>
  BY DEF PreHooks
<1>3. PICK i \in DOMAIN file.pre :
          /\ file.pre[i].matcher = m
          /\ \E k \in DOMAIN file.pre[i].hooks :
                /\ file.pre[i].hooks[k] = b
                /\ \A n \in DOMAIN file.pre[i].hooks : file.pre[i].hooks[n] \in Recognised => n = k
  BY DEF Held
<1>4. PICK k \in DOMAIN file.pre[i].hooks :
          /\ file.pre[i].hooks[k] = b
          /\ \A n \in DOMAIN file.pre[i].hooks : file.pre[i].hooks[n] \in Recognised => n = k
  BY <1>3
<1>5. g[i] = file.pre[i].hooks
  BY <1>2, <1>3
<1>6. \A j \in DOMAIN file.pre : j # i => g[j] = <<>>
  BY <1>2, <1>3 DEF UniquePre
<1>7. DOMAIN <<>> = {}
  OBVIOUS
<1> HIDE DEF g
<1>8. \A j \in DOMAIN g : \A n \in DOMAIN g[j] : g[j][n] \in Recognised => j = i /\ n = k
  BY <1>1, <1>4, <1>5, <1>6, <1>7
<1>9. i \in DOMAIN g /\ k \in DOMAIN g[i] /\ g[i][k] = b
  BY <1>1, <1>4, <1>5
<1>10. Sole(g, Recognised, b)
  BY <1>8, <1>9 DEF Sole
<1> QED
  BY <1>10 DEF g

(* What a setup writes: a whole config, with what the user had.            *)
LEMMA InstalledIs ==
    ASSUME client \in Clients, NEW file \in {Absent, Unparsable} \cup Config, NEW b \in Binaries,
           ConfigShape(Parsed(file))
    PROVE  LET new == Installed(file, b)
           IN  /\ new \in Config /\ UserView(new) = UserView(Parsed(file))
               /\ ConfigShape(new) /\ Whole(new)
<1> DEFINE old == Parsed(file)
           new == Installed(file, b)
<1>1. old \in Config /\ ConfigShape(old)
  BY ParsedIs
<1> HIDE DEF old
<1>2. old.pre \in Seq(Group) /\ old.post \in Seq(Seq(Hooks)) /\ b # NoBinary
  BY <1>1, BinariesAssumption DEF Config, Hooks
<1> DEFINE pre == InstallPreToolUse(old.pre, b, old.opaque)
<1>3. /\ pre \in Seq(Group) /\ PreView(pre) = PreView(old.pre) /\ UniquePre(pre) /\ OursInPlace(pre)
      /\ \A m \in ToSet(Matchers) \ old.opaque : Held(pre, m, b)
  BY <1>1, <1>2, PreInstalled DEF ConfigShape
<1> HIDE DEF pre
<1>4. ASSUME NEW post, post \in Seq(Seq(Hooks)), PostView(post) = PostView(old.post),
             new = [server |-> b, pre |-> pre, post |-> post, opaque |-> old.opaque], client # "opencode",
             client = "claude" => Once(post) /\ Sole(post, {b}, b),
             client = "codex" /\ PostCompact \notin old.opaque =>
                (b \in Recognised => Sole(post, Recognised, b))
      PROVE  new \in Config /\ UserView(new) = UserView(old) /\ ConfigShape(new) /\ Whole(new)
  <2>1. new.server = b /\ new.pre = pre /\ new.post = post /\ new.opaque = old.opaque /\ new \in Config
    BY <1>1, <1>2, <1>3, <1>4 DEF Config, Hooks
  <2> HIDE DEF new
  <2>2. UserView(new) = UserView(old)
    BY <1>3, <1>4, <2>1, UserViewOf
  <2>3. ConfigShape(new)
    BY <1>1, <1>2, <1>3, <1>4, <2>1 DEF ConfigShape
  <2>4. \A m \in ToSet(Matchers) \ new.opaque : Sole(PreHooks(new, m), Recognised, b)
    BY <1>3, <2>1, HeldIsSole
  <2>5. Whole(new)
    BY <1>2, <1>4, <2>1, <2>4 DEF Whole, Clients
  <2> QED
    BY <2>1, <2>2, <2>3, <2>5
<1>5. CASE client = "claude"
  <2> DEFINE post == InstallPostCompactClaude(old.post, b)
  <2>1. new = [server |-> b, pre |-> pre, post |-> post, opaque |-> old.opaque]
    BY <1>5 DEF Installed, InstalledClaude, old, pre
  <2>2. post \in Seq(Seq(Hooks)) /\ PostView(post) = PostView(old.post) /\ Once(post) /\ Sole(post, {b}, b)
    BY <1>1, <1>2, <1>5, ClaudeInstalled DEF ConfigShape
  <2> HIDE DEF post
  <2> QED
    BY <1>4, <1>5, <2>1, <2>2 DEF old
<1>6. CASE client = "codex"
  <2> DEFINE post == IF PostCompact \in old.opaque THEN old.post ELSE InstallPostCompactCodex(old.post, b)
  <2>1. new = [server |-> b, pre |-> pre, post |-> post, opaque |-> old.opaque]
    BY <1>6 DEF Installed, InstalledCodex, old, pre
  <2>2. /\ post \in Seq(Seq(Hooks)) /\ PostView(post) = PostView(old.post)
        /\ PostCompact \notin old.opaque => (b \in Recognised => Sole(post, Recognised, b))
    BY <1>2, CodexInstalled
  <2> HIDE DEF post
  <2> QED
    BY <1>4, <1>6, <2>1, <2>2 DEF old
<1>7. CASE client = "opencode"
  <2>1. new = [old EXCEPT !.server = b]
    BY <1>7 DEF Installed, InstalledOpenCode, old
  <2>2. new.server = b /\ new.pre = old.pre /\ new.post = old.post /\ new.opaque = old.opaque /\ new \in Config
    BY <1>1, <2>1 DEF Config
  <2> HIDE DEF new
  <2>3. UserView(new) = UserView(old)
    BY <2>2, UserViewOf
  <2>4. ConfigShape(new) /\ Whole(new)
    BY <1>1, <1>2, <1>7, <2>2 DEF ConfigShape, Whole
  <2> QED
    BY <2>2, <2>3, <2>4 DEF new, old
<1> QED
  BY <1>5, <1>6, <1>7 DEF Clients

(* What an uninstall writes: a bare config, with what the user had.        *)
LEMMA UninstalledIs ==
    ASSUME client \in Clients, NEW file \in {Absent, Unparsable} \cup Config, ConfigShape(Parsed(file))
    PROVE  LET new == Uninstalled(file)
           IN  /\ new \in Config /\ UserView(new) = UserView(Parsed(file))
               /\ ConfigShape(new) /\ Bare(new)
<1> DEFINE old == Parsed(file)
           new == Uninstalled(file)
<1>1. old \in Config /\ ConfigShape(old)
  BY ParsedIs
<1> HIDE DEF old
<1>2. old.pre \in Seq(Group) /\ old.post \in Seq(Seq(Hooks))
  BY <1>1 DEF Config, Hooks
<1>3. CASE client = "opencode"
  <2>1. new = [old EXCEPT !.server = NoBinary]
    BY <1>3 DEF Uninstalled, UninstalledOpenCode, old
  <2>2. /\ new.server = NoBinary /\ new.pre = old.pre /\ new.post = old.post /\ new.opaque = old.opaque
        /\ new \in Config
        /\ old.pre = <<>> /\ old.post = <<>>
    BY <1>1, <1>3, <2>1 DEF Config, ConfigShape
  <2> HIDE DEF new
  <2>3. UserView(new) = UserView(old)
    BY <2>2, UserViewOf
  <2>4. ConfigShape(new) /\ Bare(new)
    BY <1>1, <1>3, <2>2 DEF ConfigShape, Bare, OursAt
  <2> QED
    BY <2>2, <2>3, <2>4 DEF new, old
<1>4. CASE client # "opencode"
  <2> DEFINE pre == RemovePreToolUse(old.pre, old.opaque)
             post == IF PostCompact \in old.opaque THEN old.post ELSE RemovePostCompact(old.post)
  <2>1. new = [server |-> NoBinary, pre |-> pre, post |-> post, opaque |-> old.opaque]
    BY <1>4 DEF Uninstalled, UninstalledHooked, old
  <2>2. /\ pre \in Seq(Group) /\ PreView(pre) = PreView(old.pre) /\ UniquePre(pre) /\ OursInPlace(pre)
        /\ \A i \in DOMAIN pre : OursAt(pre, i) => pre[i].matcher \in old.opaque
    BY <1>1, <1>2, PreRemoved DEF ConfigShape
  <2>3. /\ post \in Seq(Seq(Hooks)) /\ PostView(post) = PostView(old.post)
        /\ PostCompact \notin old.opaque => \A i \in DOMAIN post : NoneOurs(post[i])
        /\ Once(old.post) => Once(post)
    BY <1>2, PostRemoved
  <2> HIDE DEF pre, post
  <2>4. new.server = NoBinary /\ new.pre = pre /\ new.post = post /\ new.opaque = old.opaque /\ new \in Config
    BY <1>1, <2>1, <2>2, <2>3 DEF Config, Hooks
  <2> HIDE DEF new
  <2>5. UserView(new) = UserView(old)
    BY <2>2, <2>3, <2>4, UserViewOf
  <2>6. ConfigShape(new)
    BY <1>1, <1>4, <2>2, <2>3, <2>4 DEF ConfigShape
  <2>7. Bare(new)
    <3>1. \A i \in DOMAIN pre : pre[i].matcher \notin old.opaque => ToSet(pre[i].hooks) \cap Recognised = {}
      BY <2>2 DEF OursAt, ToSet
    <3>2. PostCompact \notin old.opaque => \A i \in DOMAIN post : ToSet(post[i]) \cap Recognised = {}
      BY <2>3 DEF NoneOurs, ToSet
    <3> QED
      BY <2>4, <3>1, <3>2 DEF Bare
  <2> QED
    BY <2>4, <2>5, <2>6, <2>7 DEF new, old
<1> QED
  BY <1>3, <1>4

-----------------------------------------------------------------------------
(* The document                                                            *)

Cut(lines, s, e) == SubSeq(lines, 1, s - 1) \o SubSeq(lines, e + 1, Len(lines))

(* What commands and edits keep of the document: an end marker closes a    *)
(* whole block, and there is at most one.                                  *)
DocShape(lines) ==
    /\ \A j \in DOMAIN lines : lines[j] = End => j > 2 /\ lines[j - 2] = Start /\ lines[j - 1] = Include
    /\ \A j \in DOMAIN lines : lines[j] = Include => j > 1 /\ lines[j - 1] = Start
    /\ \A i, j \in DOMAIN lines : lines[i] = End /\ lines[j] = End => i = j

Ending(lines) == \E j \in DOMAIN lines : lines[j] = End

(* The lines of the block are not the user's.                              *)
LEMMA Marks ==
    /\ Start # End /\ Start # Include /\ Include # End
    /\ Start \notin UserLines /\ Include \notin UserLines /\ End \notin UserLines
    /\ Text = Seq(UserLines \cup {Start, Include, End})
    /\ Block \in Text /\ Len(Block) = 3 /\ Block[1] = Start /\ Block[2] = Include /\ Block[3] = End
<1>1. ToSet(Block) = {Start, Include, End}
  <2>1. DOMAIN Block = {1, 2, 3} /\ Block[1] = Start /\ Block[2] = Include /\ Block[3] = End
    BY DEF Block
  <2> QED
    BY <2>1 DEF ToSet
<1>2. Start # End /\ Start # Include /\ Include # End
  BY DEF Start, End, Include
<1>3. Start \notin UserLines /\ Include \notin UserLines /\ End \notin UserLines
  BY <1>1, LinesAssumption
<1>4. Text = Seq(UserLines \cup {Start, Include, End})
  BY <1>1 DEF Text
<1>5. Block \in Text /\ Len(Block) = 3 /\ Block[1] = Start /\ Block[2] = Include /\ Block[3] = End
  <2> HIDE DEF Start, End, Include
  <2> QED
    BY <1>4 DEF Block
<1> QED
  BY <1>2, <1>3, <1>4, <1>5

(* Lines without those from one place to another.                          *)
LEMMA CutOf ==
    ASSUME NEW S, NEW lines \in Seq(S), NEW s \in DOMAIN lines, NEW e \in DOMAIN lines, s <= e
    PROVE  /\ Cut(lines, s, e) \in Seq(S)
           /\ DOMAIN Cut(lines, s, e) = 1 .. Len(lines) - (e - s + 1)
           /\ \A k \in DOMAIN Cut(lines, s, e) :
                 Cut(lines, s, e)[k] = IF k < s THEN lines[k] ELSE lines[k + (e - s + 1)]
<1> DEFINE a == SubSeq(lines, 1, s - 1)
           c == SubSeq(lines, e + 1, Len(lines))
<1>1. Len(lines) \in Nat /\ DOMAIN lines = 1 .. Len(lines) /\ \A k \in 1 .. Len(lines) : lines[k] \in S
  BY LenProperties
<1>2. a \in Seq(S) /\ Len(a) = s - 1 /\ \A k \in 1 .. s - 1 : a[k] = lines[k]
  <2>1. \A k \in 1 .. s - 1 : lines[k] \in S
    BY <1>1
  <2> QED
    BY <1>1, <2>1, SubSeqProperties
<1>3. c \in Seq(S) /\ Len(c) = Len(lines) - e /\ \A k \in 1 .. Len(lines) - e : c[k] = lines[k + e]
  <2>1. \A k \in e + 1 .. Len(lines) : lines[k] \in S
    BY <1>1
  <2> QED
    BY <1>1, <2>1, SubSeqProperties
<1> HIDE DEF a, c
<1> DEFINE new == a \o c
<1>4. /\ new \in Seq(S) /\ Len(new) = Len(a) + Len(c)
      /\ \A k \in 1 .. Len(a) + Len(c) : new[k] = IF k <= Len(a) THEN a[k] ELSE c[k - Len(a)]
  BY <1>2, <1>3, ConcatProperties
<1> HIDE DEF new
<1>5. DOMAIN new = 1 .. Len(a) + Len(c) /\ DOMAIN new = 1 .. Len(lines) - (e - s + 1)
  BY <1>1, <1>2, <1>3, <1>4, LenProperties
<1>6. \A k \in DOMAIN new : new[k] = IF k < s THEN lines[k] ELSE lines[k + (e - s + 1)]
  <2> SUFFICES ASSUME NEW k \in DOMAIN new PROVE new[k] = IF k < s THEN lines[k] ELSE lines[k + (e - s + 1)]
    OBVIOUS
  <2>1. new[k] = IF k <= s - 1 THEN a[k] ELSE c[k - (s - 1)]
    BY <1>2, <1>4, <1>5
  <2>2. CASE k < s
    BY <1>1, <1>2, <1>5, <2>1, <2>2
  <2>3. CASE ~ (k < s)
    <3> DEFINE q == k - (s - 1)
    <3>1. q \in 1 .. Len(lines) - e /\ q + e = k + (e - s + 1) /\ ~ (k <= s - 1)
      BY <1>1, <1>5, <2>3
    <3>2. new[k] = c[q]
      BY <2>1, <3>1
    <3> HIDE DEF q
    <3> QED
      BY <1>3, <2>3, <3>1, <3>2
  <2> QED
    BY <2>2, <2>3
<1> QED
  BY <1>4, <1>5, <1>6 DEF Cut, new, a, c

(* A cut up to the end marker leaves none, and no block without a start.   *)
LEMMA CutShape ==
    ASSUME NEW lines \in Text, DocShape(lines), NEW s \in DOMAIN lines, NEW e \in DOMAIN lines,
           s <= e, lines[e] = End
    PROVE  Cut(lines, s, e) \in Text /\ DocShape(Cut(lines, s, e)) /\ ~ Ending(Cut(lines, s, e))
<1> DEFINE S == UserLines \cup {Start, Include, End}
           new == Cut(lines, s, e)
           d == e - s + 1
<1>1. Len(lines) \in Nat /\ DOMAIN lines = 1 .. Len(lines) /\ lines \in Seq(S)
  BY LenProperties, Marks
<1> HIDE DEF S
<1>2. /\ new \in Seq(S) /\ DOMAIN new = 1 .. Len(lines) - d
      /\ \A k \in DOMAIN new : new[k] = IF k < s THEN lines[k] ELSE lines[k + d]
  BY <1>1, CutOf
<1> HIDE DEF new
<1>3. \A k \in DOMAIN new : new[k] # End
  <2> SUFFICES ASSUME NEW k \in DOMAIN new, new[k] = End PROVE FALSE
    OBVIOUS
  <2>1. CASE k < s
    BY <1>1, <1>2, <2>1 DEF DocShape
  <2>2. CASE ~ (k < s)
    <3>1. k + d \in DOMAIN lines /\ k + d > e
      BY <1>1, <1>2, <2>2
    <3>2. lines[k + d] = End
      BY <1>2, <2>2
    <3> QED
      BY <1>1, <3>1, <3>2 DEF DocShape
  <2> QED
    BY <2>1, <2>2
<1>4. ASSUME NEW k \in DOMAIN new, new[k] = Include PROVE k > 1 /\ new[k - 1] = Start
  <2>1. CASE k < s
    <3>1. k > 1 /\ lines[k - 1] = Start
      BY <1>1, <1>2, <1>4, <2>1 DEF DocShape
    <3>2. k - 1 \in DOMAIN new /\ k - 1 < s
      BY <1>1, <1>2, <2>1, <3>1
    <3> QED
      BY <1>2, <3>1, <3>2
  <2>2. CASE ~ (k < s)
    <3> DEFINE o == k + d
    <3>1. o \in DOMAIN lines /\ o > e /\ lines[o] = Include
      BY <1>1, <1>2, <1>4, <2>2
    <3> HIDE DEF o
    <3>2. lines[o - 1] = Start
      BY <3>1 DEF DocShape
    <3>3. o - 1 # e
      BY <3>2, Marks
    <3>4. k > s
      BY <1>1, <1>2, <2>2, <3>3 DEF o
    <3>5. k - 1 \in DOMAIN new /\ ~ (k - 1 < s) /\ k > 1 /\ (k - 1) + d = o - 1
      BY <1>1, <1>2, <3>4 DEF o
    <3> QED
      BY <1>2, <3>2, <3>5
  <2> QED
    BY <2>1, <2>2
<1>5. new \in Text
  BY <1>2, Marks DEF S
<1>6. DocShape(new)
  BY <1>3, <1>4 DEF DocShape
<1>7. ~ Ending(new)
  BY <1>3 DEF Ending
<1> QED
  BY <1>5, <1>6, <1>7 DEF new

(* A cut of lines that are none of the user's leaves the user's.           *)
LEMMA CutText ==
    ASSUME NEW lines \in Text, NEW s \in DOMAIN lines, NEW e \in DOMAIN lines, s <= e,
           \A k \in s .. e : lines[k] \notin UserLines
    PROVE  Only(Cut(lines, s, e), UserLines) = Only(lines, UserLines)
<1> DEFINE S == UserLines \cup {Start, Include, End}
           len == Len(lines)
           a == SubSeq(lines, 1, s - 1)
           b == SubSeq(lines, s, e)
           c == SubSeq(lines, e + 1, len)
<1>1. len \in Nat /\ DOMAIN lines = 1 .. len /\ lines \in Seq(S) /\ \A k \in 1 .. len : lines[k] \in S
  BY LenProperties, Marks
<1> HIDE DEF S
<1>2. a \in Seq(S)
  <2>1. \A k \in 1 .. s - 1 : lines[k] \in S
    BY <1>1
  <2> QED
    BY <1>1, <2>1, SubSeqProperties
<1>3. c \in Seq(S)
  <2>1. \A k \in e + 1 .. len : lines[k] \in S
    BY <1>1
  <2> QED
    BY <1>1, <2>1, SubSeqProperties
<1>4. b \in Seq(S) /\ \A k \in DOMAIN b : b[k] \notin UserLines
  <2>1. \A k \in s .. e : lines[k] \in S
    BY <1>1
  <2>2. b \in Seq(S) /\ Len(b) = e - s + 1 /\ \A k \in 1 .. e - s + 1 : b[k] = lines[s + k - 1]
    BY <1>1, <2>1, SubSeqProperties
  <2>3. DOMAIN b = 1 .. e - s + 1
    BY <2>2, LenProperties
  <2>4. \A k \in 1 .. e - s + 1 : s + k - 1 \in s .. e
    BY <1>1
  <2> QED
    BY <2>2, <2>3, <2>4
<1>5. SubSeq(lines, 1, e) = a \o b
  <2> DEFINE t == s - 1
  <2>1. t \in 1 - 1 .. len /\ e \in t .. len /\ t + 1 = s /\ 1 \in 1 .. len + 1
    BY <1>1
  <2> HIDE DEF t
  <2>2. SubSeq(lines, 1, t) \o SubSeq(lines, t + 1, e) = SubSeq(lines, 1, e)
    BY <1>1, <2>1, ConcatAdjacentSubSeq
  <2> QED
    BY <2>1, <2>2 DEF t
<1>6. lines = SubSeq(lines, 1, e) \o c
  <2>1. SubSeq(lines, 1, e) \o c = SubSeq(lines, 1, len)
    <3>1. 1 \in 1 .. len + 1 /\ e \in 1 - 1 .. len /\ len \in e .. len
      BY <1>1
    <3> QED
      BY <1>1, <3>1, ConcatAdjacentSubSeq
  <2>2. SubSeq(lines, 1, len) = lines
    BY <1>1, SubSeqFull
  <2> QED
    BY <2>1, <2>2
<1>7. Cut(lines, s, e) = a \o c
  BY DEF Cut
<1> HIDE DEF a, b, c
<1>8. Only(b, UserLines) = <<>>
  <2>1. {k \in DOMAIN b : b[k] \in UserLines} = {}
    BY <1>4
  <2> QED
    BY <1>4, <2>1, ThoseOfNone DEF Only
<1>9. Only(a \o b, UserLines) = Only(a, UserLines)
  <2>1. Only(a \o b, UserLines) = Only(a, UserLines) \o Only(b, UserLines)
    BY <1>2, <1>4, OnlyOfConcat
  <2>2. Only(a, UserLines) \in Seq(S)
    BY <1>2, OnlyHolds
  <2> QED
    BY <1>8, <2>1, <2>2, ConcatEmptySeq
<1>10. Only(lines, UserLines) = Only(a, UserLines) \o Only(c, UserLines)
  <2> DEFINE ab == a \o b
  <2>1. ab \in Seq(S)
    BY <1>2, <1>4, ConcatProperties
  <2>2. lines = ab \o c /\ Only(ab, UserLines) = Only(a, UserLines)
    BY <1>5, <1>6, <1>9
  <2> HIDE DEF ab
  <2>3. Only(ab \o c, UserLines) = Only(ab, UserLines) \o Only(c, UserLines)
    BY <1>3, <2>1, OnlyOfConcat
  <2> QED
    BY <2>2, <2>3
<1> QED
  BY <1>2, <1>3, <1>7, <1>10, OnlyOfConcat

(* RemoveBlock takes lines out from the first start to the end, if both    *)
(* are there.                                                              *)
LEMMA RemoveBlockIs ==
    ASSUME NEW lines \in Text, DocShape(lines)
    PROVE  LET new == RemoveBlock(lines)
           IN  \/ new = lines /\ ~ Ending(lines)
               \/ \E s, e \in DOMAIN lines :
                     /\ s <= e /\ lines[s] = Start /\ lines[e] = End /\ new = Cut(lines, s, e)
                     /\ \A k \in DOMAIN lines : lines[k] = Start => s <= k
<1> DEFINE len == Len(lines)
           starts == {i \in 1 .. len : lines[i] = Start}
           s == SelectInSeq(lines, LAMBDA l : l = Start)
           ends == {i \in s .. len : lines[i] = End}
           e == SelectInSubSeq(lines, s, len, LAMBDA l : l = End)
           new == RemoveBlock(lines)
<1>1. len \in Nat /\ DOMAIN lines = 1 .. len
  BY LenProperties DEF Text
<1>2. s = IF starts # {} THEN Min(starts) ELSE 0
  BY DEF SelectInSeq
<1>3. e = IF ends # {} THEN Min(ends) ELSE 0
  BY DEF SelectInSubSeq
<1>4. new = IF s = 0 \/ e = 0 THEN lines ELSE Cut(lines, s, e)
  BY DEF RemoveBlock, Cut
<1> HIDE DEF s, e, new
<1>5. CASE starts = {}
  <2>1. \A k \in DOMAIN lines : lines[k] # Start
    BY <1>1, <1>5
  <2>2. ~ Ending(lines)
    <3> SUFFICES ASSUME NEW j \in DOMAIN lines, lines[j] = End PROVE FALSE
      BY DEF Ending
    <3>1. j > 2 /\ lines[j - 2] = Start
      BY DEF DocShape
    <3>2. j - 2 \in DOMAIN lines
      BY <1>1, <3>1
    <3> QED
      BY <2>1, <3>1, <3>2
  <2> QED
    BY <1>2, <1>4, <1>5, <2>2 DEF new
<1>6. CASE starts # {}
  <2>1. s \in starts /\ \A k \in starts : s <= k
    <3>1. starts \in SUBSET Nat
      BY <1>1
    <3> HIDE DEF starts
    <3> QED
      BY <1>2, <1>6, <3>1, Firsts
  <2>2. s \in DOMAIN lines /\ s # 0 /\ lines[s] = Start /\ \A k \in DOMAIN lines : lines[k] = Start => s <= k
    BY <1>1, <2>1
  <2>3. CASE ends = {}
    <3>1. ~ Ending(lines)
      <4> SUFFICES ASSUME NEW j \in DOMAIN lines, lines[j] = End PROVE FALSE
        BY DEF Ending
      <4>1. j > 2 /\ lines[j - 2] = Start
        BY DEF DocShape
      <4>2. j - 2 \in DOMAIN lines
        BY <1>1, <4>1
      <4>3. s <= j - 2
        BY <2>2, <4>1, <4>2
      <4>4. j \in ends
        BY <1>1, <2>2, <4>3
      <4> QED
        BY <2>3, <4>4
    <3> QED
      BY <1>3, <1>4, <2>3, <3>1 DEF new
  <2>4. CASE ends # {}
    <3>1. e \in ends
      <4>1. ends \in SUBSET Nat
        BY <1>1, <2>2
      <4> HIDE DEF ends
      <4> QED
        BY <1>3, <2>4, <4>1, Firsts
    <3>2. e \in DOMAIN lines /\ e # 0 /\ s <= e /\ lines[e] = End
      BY <1>1, <2>2, <3>1
    <3> QED
      BY <1>4, <2>2, <3>2 DEF new
  <2> QED
    BY <2>3, <2>4
<1> QED
  BY <1>5, <1>6

(* Of balanced lines the start of the block is the only one before its     *)
(* end, and all between is the block.                                      *)
LEMMA BlockIs ==
    ASSUME NEW lines \in Text, lines # Absent, DocShape(lines), Balanced(lines),
           NEW s \in DOMAIN lines, lines[s] = Start
    PROVE  /\ s + 2 \in DOMAIN lines /\ lines[s + 2] = End /\ lines[s + 1] = Include
           /\ \A j \in DOMAIN lines : lines[j] = Start => j = s
<1>1. Len(lines) \in Nat /\ DOMAIN lines = 1 .. Len(lines)
  BY LenProperties DEF Text
<1>2. ASSUME NEW i \in DOMAIN lines, lines[i] = Start
      PROVE  i + 2 \in DOMAIN lines /\ lines[i + 2] = End /\ lines[i + 1] = Include
  <2>1. PICK j \in DOMAIN lines : /\ i < j /\ lines[j] = End
                                  /\ \A k \in i + 1 .. j - 1 : lines[k] \notin {Start, End}
    BY <1>2 DEF Balanced, LinesOf
  <2>2. j > 2 /\ lines[j - 2] = Start /\ lines[j - 1] = Include
    BY <2>1 DEF DocShape
  <2>3. j = i + 1 \/ j = i + 2
    <3> SUFFICES ASSUME j > i + 2 PROVE FALSE
      BY <1>1, <2>1
    <3>1. j - 2 \in i + 1 .. j - 1
      BY <1>1
    <3> QED
      BY <2>1, <2>2, <3>1
  <2>4. j # i + 1
    BY <1>1, <1>2, <2>2, Marks
  <2>5. j = i + 2 /\ j - 1 = i + 1
    BY <1>1, <2>3, <2>4
  <2> QED
    BY <2>1, <2>2, <2>5
<1>3. s + 2 \in DOMAIN lines /\ lines[s + 2] = End /\ lines[s + 1] = Include
  BY <1>2
<1>4. ASSUME NEW j \in DOMAIN lines, lines[j] = Start PROVE j = s
  <2>1. j + 2 \in DOMAIN lines /\ lines[j + 2] = End
    BY <1>2, <1>4
  <2>2. j + 2 = s + 2
    BY <1>3, <2>1 DEF DocShape
  <2> QED
    BY <1>1, <2>2
<1> QED
  BY <1>3, <1>4

(* What of balanced lines is left without the block.                       *)
LEMMA RemovedIs ==
    ASSUME NEW lines \in Text, DocShape(lines)
    PROVE  LET new == RemoveBlock(lines)
           IN  /\ new \in Text /\ DocShape(new) /\ ~ Ending(new)
               /\ Balanced(lines) => Only(new, UserLines) = Only(lines, UserLines)
<1> DEFINE new == RemoveBlock(lines)
<1>1. lines # Absent
  BY FilesAssumption
<1>2. CASE new = lines /\ ~ Ending(lines)
  BY <1>2
<1>3. ASSUME NEW s \in DOMAIN lines, NEW e \in DOMAIN lines,
             s <= e, lines[s] = Start, lines[e] = End, new = Cut(lines, s, e),
             \A k \in DOMAIN lines : lines[k] = Start => s <= k
      PROVE  /\ new \in Text /\ DocShape(new) /\ ~ Ending(new)
             /\ Balanced(lines) => Only(new, UserLines) = Only(lines, UserLines)
  <2>1. new \in Text /\ DocShape(new) /\ ~ Ending(new)
    BY <1>3, CutShape
  <2>2. ASSUME Balanced(lines) PROVE Only(new, UserLines) = Only(lines, UserLines)
    <3>1. Len(lines) \in Nat /\ DOMAIN lines = 1 .. Len(lines)
      BY LenProperties DEF Text
    <3>2. s + 2 \in DOMAIN lines /\ lines[s + 2] = End /\ lines[s + 1] = Include
      BY <1>1, <1>3, <2>2, BlockIs
    <3>3. e = s + 2
      BY <1>3, <3>2 DEF DocShape
    <3>4. \A k \in s .. e : k = s \/ k = s + 1 \/ k = s + 2
      BY <3>1, <3>3
    <3>5. \A k \in s .. e : lines[k] \notin UserLines
      BY <1>3, <3>2, <3>4, Marks
    <3> QED
      BY <1>3, <3>5, CutText
  <2> QED
    BY <2>1, <2>2
<1> QED
  BY <1>2, <1>3, RemoveBlockIs

(* What of lines is left with a new block at the end.                      *)
LEMMA UpsertedIs ==
    ASSUME NEW lines \in Text, DocShape(lines)
    PROVE  LET new == UpsertBlock(lines)
           IN  /\ new \in Text /\ DocShape(new) /\ Ending(new)
               /\ Balanced(lines) => Only(new, UserLines) = Only(lines, UserLines)
<1> DEFINE old == RemoveBlock(lines)
           new == UpsertBlock(lines)
           S == UserLines \cup {Start, Include, End}
           n == Len(old)
<1>1. old \in Text /\ DocShape(old) /\ ~ Ending(old) /\ (Balanced(lines) => Only(old, UserLines) = Only(lines, UserLines))
  BY RemovedIs
<1>2. new = old \o Block
  BY DEF UpsertBlock
<1> HIDE DEF old
<1>3. Text = Seq(S) /\ old \in Seq(S) /\ n \in Nat /\ DOMAIN old = 1 .. n
  BY <1>1, Marks, LenProperties
<1> HIDE DEF S
<1>4. /\ new \in Seq(S) /\ DOMAIN new = 1 .. n + 3
      /\ \A k \in 1 .. n + 3 : new[k] = IF k <= n THEN old[k] ELSE Block[k - n]
  <2>1. Block \in Seq(S) /\ Len(Block) = 3
    BY <1>3, Marks
  <2> DEFINE w == old \o Block
  <2>2. /\ w \in Seq(S) /\ Len(w) = Len(old) + Len(Block)
        /\ \A k \in 1 .. Len(old) + Len(Block) : w[k] = IF k <= Len(old) THEN old[k] ELSE Block[k - Len(old)]
    BY <1>3, <2>1, ConcatProperties
  <2>3. w = new
    BY <1>2
  <2> HIDE DEF w
  <2> QED
    BY <2>1, <2>2, <2>3, LenProperties
<1>5. Only(new, UserLines) = Only(old, UserLines)
  <2>1. Only(old \o Block, UserLines) = Only(old, UserLines) \o Only(Block, UserLines)
    BY <1>3, Marks, OnlyOfConcat
  <2>2. Only(Block, UserLines) = <<>>
    <3>1. DOMAIN Block = {1, 2, 3}
      BY DEF Block
    <3>2. {k \in DOMAIN Block : Block[k] \in UserLines} = {}
      BY <3>1, Marks
    <3> QED
      BY <1>3, <3>2, Marks, ThoseOfNone DEF Only
  <2>3. Only(old, UserLines) \in Seq(S)
    BY <1>3, OnlyHolds
  <2> QED
    BY <1>2, <2>1, <2>2, <2>3, ConcatEmptySeq
<1> HIDE DEF new
<1> HIDE DEF n
<1>6. /\ \A k \in 1 .. n : new[k] = old[k]
      /\ new[n + 1] = Start /\ new[n + 2] = Include /\ new[n + 3] = End
  <2>1. n \in Nat
    BY <1>3
  <2>2. Block[1] = Start /\ Block[2] = Include /\ Block[3] = End
    BY Marks
  <2>3. (n + 1) - n = 1 /\ (n + 2) - n = 2 /\ (n + 3) - n = 3
    BY <2>1
  <2>4. \A k \in 1 .. n : k \in 1 .. n + 3 /\ k <= n
    BY <2>1
  <2>5. /\ n + 1 \in 1 .. n + 3 /\ n + 2 \in 1 .. n + 3 /\ n + 3 \in 1 .. n + 3
        /\ ~ (n + 1 <= n) /\ ~ (n + 2 <= n) /\ ~ (n + 3 <= n)
    BY <2>1
  <2> QED
    BY <1>4, <2>2, <2>3, <2>4, <2>5
<1>7. \A j \in DOMAIN new : j \in 1 .. n \/ j = n + 1 \/ j = n + 2 \/ j = n + 3
  <2>1. n \in Nat
    BY <1>3
  <2> QED
    BY <1>4, <2>1
<1>8. \A j \in DOMAIN new : new[j] = End => j = n + 3
  BY <1>1, <1>3, <1>6, <1>7, Marks DEF Ending
<1>9. ASSUME NEW j \in DOMAIN new, new[j] = Include PROVE j > 1 /\ new[j - 1] = Start
  <2>1. CASE j \in 1 .. n
    <3>1. old[j] = Include
      BY <1>6, <1>9, <2>1
    <3>2. j > 1 /\ old[j - 1] = Start
      BY <1>1, <1>3, <2>1, <3>1 DEF DocShape
    <3>3. j - 1 \in 1 .. n
      BY <1>3, <2>1, <3>2
    <3> QED
      BY <1>6, <3>2, <3>3
  <2>2. CASE j = n + 2
    <3>1. j - 1 = n + 1 /\ j > 1
      BY <1>3, <2>2
    <3> QED
      BY <1>6, <3>1
  <2> QED
    BY <1>6, <1>7, <1>9, <2>1, <2>2, Marks
<1>10. n + 3 > 2 /\ (n + 3) - 2 = n + 1 /\ (n + 3) - 1 = n + 2 /\ n + 3 \in DOMAIN new
  BY <1>3, <1>4
<1>11. DocShape(new)
  <2>1. \A j \in DOMAIN new : new[j] = End => j > 2 /\ new[j - 2] = Start /\ new[j - 1] = Include
    BY <1>6, <1>8, <1>10
  <2> QED
    BY <1>8, <1>9, <2>1 DEF DocShape
<1>12. Ending(new)
  BY <1>6, <1>10 DEF Ending
<1> QED
  BY <1>1, <1>3, <1>4, <1>5, <1>11, <1>12 DEF new

(* The user's edits keep that shape.                                       *)
LEMMA DocEdited ==
    ASSUME NEW lines \in Text, DocShape(lines)
    PROVE  /\ \A l \in UserLines : Append(lines, l) \in Text /\ DocShape(Append(lines, l))
           /\ \A i \in DOMAIN lines : lines[i] = End => RemoveAt(lines, i) \in Text /\ DocShape(RemoveAt(lines, i))
<1> DEFINE S == UserLines \cup {Start, Include, End}
           n == Len(lines)
<1>1. Text = Seq(S) /\ lines \in Seq(S) /\ n \in Nat /\ DOMAIN lines = 1 .. n /\ UserLines \subseteq S
  BY Marks, LenProperties
<1> HIDE DEF S
<1>2. ASSUME NEW l \in UserLines PROVE Append(lines, l) \in Text /\ DocShape(Append(lines, l))
  <2> DEFINE new == Append(lines, l)
  <2>1. new \in Seq(S) /\ DOMAIN new = 1 .. n + 1 /\ (\A k \in 1 .. n : new[k] = lines[k]) /\ new[n + 1] = l
    BY <1>1, AppendProperties, LenProperties
  <2> HIDE DEF new
  <2>2. \A j \in DOMAIN new : new[j] \in {Start, Include, End} => j \in 1 .. n /\ new[j] = lines[j]
    BY <1>1, <2>1, Marks
  <2>3. \A j \in 1 .. n : /\ j > 1 => j - 1 \in 1 .. n /\ new[j - 1] = lines[j - 1]
                          /\ j > 2 => j - 2 \in 1 .. n /\ new[j - 2] = lines[j - 2]
    BY <1>1, <2>1
  <2>4. \A j \in DOMAIN new : new[j] = End => j > 2 /\ new[j - 2] = Start /\ new[j - 1] = Include
    <3> SUFFICES ASSUME NEW j \in DOMAIN new, new[j] = End PROVE j > 2 /\ new[j - 2] = Start /\ new[j - 1] = Include
      OBVIOUS
    <3>1. j \in DOMAIN lines /\ lines[j] = End
      BY <1>1, <2>2
    <3>2. j > 2 /\ lines[j - 2] = Start /\ lines[j - 1] = Include
      BY <3>1 DEF DocShape
    <3> QED
      BY <1>1, <2>3, <3>1, <3>2
  <2>5. \A j \in DOMAIN new : new[j] = Include => j > 1 /\ new[j - 1] = Start
    BY <1>1, <2>2, <2>3 DEF DocShape
  <2>6. \A i, j \in DOMAIN new : new[i] = End /\ new[j] = End => i = j
    BY <1>1, <2>2 DEF DocShape
  <2>7. DocShape(new)
    BY <2>4, <2>5, <2>6 DEF DocShape
  <2> QED
    BY <1>1, <2>1, <2>7 DEF new
<1>3. ASSUME NEW i \in DOMAIN lines, lines[i] = End PROVE RemoveAt(lines, i) \in Text /\ DocShape(RemoveAt(lines, i))
  <2>1. RemoveAt(lines, i) = Cut(lines, i, i)
    BY DEF RemoveAt, Cut
  <2>2. i <= i
    BY <1>1
  <2> QED
    BY <1>3, <2>1, <2>2, CutShape
<1> QED
  BY <1>2, <1>3

(* What the block is in a document that a command has ended with.          *)
LEMMA DocEnds ==
    ASSUME NEW lines \in Text, DocShape(lines), Balanced(lines)
    PROVE  /\ Ending(lines) => \E i \in DOMAIN lines : \A j \in DOMAIN lines : lines[j] = Start <=> j = i
           /\ ~ Ending(lines) => ToSet(lines) \subseteq UserLines
<1>1. lines # Absent /\ Len(lines) \in Nat /\ DOMAIN lines = 1 .. Len(lines)
  BY FilesAssumption, LenProperties DEF Text
<1>2. ASSUME Ending(lines)
      PROVE  \E i \in DOMAIN lines : \A j \in DOMAIN lines : lines[j] = Start <=> j = i
  <2>1. PICK j \in DOMAIN lines : lines[j] = End
    BY <1>2 DEF Ending
  <2>2. j > 2 /\ lines[j - 2] = Start
    BY <2>1 DEF DocShape
  <2> DEFINE i == j - 2
  <2>3. i \in DOMAIN lines /\ lines[i] = Start
    BY <1>1, <2>2
  <2> HIDE DEF i
  <2> QED
    BY <1>1, <2>3, BlockIs
<1>3. ASSUME ~ Ending(lines), NEW i \in DOMAIN lines PROVE lines[i] \in UserLines
  <2>1. lines[i] # End
    BY <1>3 DEF Ending
  <2>2. \A k \in DOMAIN lines : lines[k] # Start
    BY <1>1, <1>3, BlockIs DEF Ending
  <2>3. lines[i] # Include
    <3> SUFFICES ASSUME lines[i] = Include PROVE FALSE
      OBVIOUS
    <3>1. i > 1 /\ lines[i - 1] = Start
      BY DEF DocShape
    <3>2. i - 1 \in DOMAIN lines
      BY <1>1, <3>1
    <3> QED
      BY <2>2, <3>1, <3>2
  <2>4. lines[i] \in UserLines \cup {Start, Include, End}
    BY <1>1, Marks
  <2> QED
    BY <2>1, <2>2, <2>3, <2>4
<1> QED
  BY <1>2, <1>3 DEF ToSet

(* A hook that the user or the client adds keeps a config's shape.         *)
LEMMA PreHookAdded ==
    ASSUME client \in Clients, client # "opencode", NEW file \in Config, ConfigShape(file),
           NEW h \in UserHooks, NEW i \in DOMAIN file.pre
    PROVE  LET new == [file EXCEPT !.pre[i].hooks = Append(@, h)]
           IN  new \in Config /\ ConfigShape(new)
<1> DEFINE old == file.pre
           g == [matcher |-> old[i].matcher, hooks |-> Append(old[i].hooks, h)]
           new == [file EXCEPT !.pre[i].hooks = Append(@, h)]
           pre == [j \in DOMAIN old |-> IF j = i THEN g ELSE old[j]]
<1>1. old \in Seq(Group) /\ file.server \in Binaries \cup {NoBinary} /\ file.post \in Seq(Seq(Hooks))
  BY DEF Config, Hooks
<1>2. Len(old) \in Nat /\ DOMAIN old = 1 .. Len(old) /\ \A j \in DOMAIN old : old[j] \in Group
  BY <1>1, LenProperties
<1>3. h \in Hooks /\ h \notin Recognised
  BY BinariesAssumption, HooksAssumption DEF Hooks
<1>4. old[i].hooks \in Seq(Hooks) /\ old[i].matcher \in ToSet(Matchers) \cup {"other"}
  BY <1>2 DEF Group, Hooks
<1>5. Append(old[i].hooks, h) \in Seq(Hooks)
      /\ \A k \in DOMAIN Append(old[i].hooks, h) :
            Append(old[i].hooks, h)[k] \in Recognised => k \in DOMAIN old[i].hooks /\ old[i].hooks[k] \in Recognised
  <2> DEFINE hs == old[i].hooks
             more == Append(hs, h)
  <2>1. hs \in Seq(Hooks)
    BY <1>4
  <2> HIDE DEF hs
  <2>2. Len(hs) \in Nat /\ DOMAIN hs = 1 .. Len(hs)
    BY <2>1, LenProperties
  <2>3. /\ more \in Seq(Hooks) /\ Len(more) = Len(hs) + 1
        /\ \A k \in 1 .. Len(hs) : more[k] = hs[k]
        /\ more[Len(hs) + 1] = h
    BY <1>3, <2>1, AppendProperties
  <2>4. DOMAIN more = 1 .. Len(hs) + 1
    BY <2>3, LenProperties
  <2> HIDE DEF more
  <2>5. \A k \in DOMAIN more : more[k] \in Recognised => k \in DOMAIN hs /\ hs[k] \in Recognised
    <3> SUFFICES ASSUME NEW k \in DOMAIN more, more[k] \in Recognised PROVE k \in DOMAIN hs /\ hs[k] \in Recognised
      OBVIOUS
    <3>1. k # Len(hs) + 1
      BY <1>3, <2>3
    <3>2. k \in 1 .. Len(hs)
      BY <2>2, <2>4, <3>1
    <3> QED
      BY <2>2, <2>3, <3>2
  <2> QED
    BY <2>3, <2>5 DEF hs, more
<1>6. g \in Group
  BY <1>4, <1>5 DEF Group, Hooks
<1>7. new.server = file.server /\ new.post = file.post /\ new.pre = pre
      /\ new.opaque = file.opaque
      /\ new = [server |-> file.server, pre |-> pre, post |-> file.post, opaque |-> file.opaque]
  <2>1. file = [server |-> file.server, pre |-> file.pre, post |-> file.post, opaque |-> file.opaque]
    BY DEF Config
  <2>2. [old EXCEPT ![i].hooks = Append(@, h)] = pre
    <3>1. [old[i] EXCEPT !.hooks = Append(@, h)] = g
      BY <1>2 DEF Group
    <3> QED
      BY <3>1
  <2>3. new = [file EXCEPT !.pre = pre]
    BY <2>1, <2>2
  <2> HIDE DEF pre, new
  <2> QED
    BY <2>1, <2>3
<1> HIDE DEF new
<1>8. pre \in Seq(Group)
  <2>1. pre \in [1 .. Len(old) -> Group]
    BY <1>2, <1>6
  <2> QED
    BY <1>2, <2>1, FunctionIsSeq, Zenon
<1>9. DOMAIN pre = DOMAIN old /\ (\A j \in DOMAIN old : j # i => pre[j] = old[j]) /\ pre[i] = g
  OBVIOUS
<1> HIDE DEF pre
<1>10. \A j \in DOMAIN old : pre[j].matcher = old[j].matcher
  BY <1>9
<1>11. \A j \in DOMAIN old : OursAt(pre, j) => OursAt(old, j)
  <2> SUFFICES ASSUME NEW j \in DOMAIN old, OursAt(pre, j) PROVE OursAt(old, j)
    OBVIOUS
  <2>1. CASE j = i
    <3>1. pre[j].hooks = Append(old[i].hooks, h)
      BY <1>9, <2>1
    <3>2. PICK k \in DOMAIN Append(old[i].hooks, h) : Append(old[i].hooks, h)[k] \in Recognised
      BY <3>1 DEF OursAt
    <3> QED
      BY <1>5, <2>1, <3>2 DEF OursAt
  <2>2. CASE j # i
    BY <1>9, <2>2 DEF OursAt
  <2> QED
    BY <2>1, <2>2
<1>12. UniquePre(pre) /\ OursInPlace(pre)
  BY <1>9, <1>10, <1>11 DEF UniquePre, OursInPlace, ConfigShape
<1>13. ConfigShape(new)
  BY <1>7, <1>9, <1>11, <1>12 DEF ConfigShape
<1>14. new \in Config
  BY <1>1, <1>7, <1>8 DEF Config, Hooks
<1> QED
  BY <1>13, <1>14 DEF new

(* A user's hook put before the others of a PostCompact group keeps the    *)
(* shape.                                                                  *)
LEMMA PostHookAdded ==
    ASSUME client \in Clients, client # "opencode", NEW file \in Config, ConfigShape(file),
           NEW h \in UserHooks, NEW i \in DOMAIN file.post
    PROVE  LET new == [file EXCEPT !.post[i] = <<h>> \o @]
           IN  new \in Config /\ ConfigShape(new)
<1> DEFINE old == file.post
           g == <<h>> \o old[i]
           new == [file EXCEPT !.post[i] = <<h>> \o @]
           post == [j \in DOMAIN old |-> IF j = i THEN g ELSE old[j]]
<1>1. old \in Seq(Seq(Hooks)) /\ file.server \in Binaries \cup {NoBinary} /\ file.pre \in Seq(Group)
  BY DEF Config, Hooks
<1>2. Len(old) \in Nat /\ DOMAIN old = 1 .. Len(old) /\ \A j \in DOMAIN old : old[j] \in Seq(Hooks)
  BY <1>1, LenProperties
<1>3. h \in Hooks /\ h \notin Binaries
  BY HooksAssumption DEF Hooks
<1>4. /\ g \in Seq(Hooks)
      /\ \A k \in DOMAIN g : g[k] \in Binaries => k \in Nat /\ k - 1 \in DOMAIN old[i] /\ old[i][k - 1] = g[k]
  <2> DEFINE hs == old[i]
             one == <<h>>
             more == one \o hs
  <2>1. hs \in Seq(Hooks) /\ one \in Seq(Hooks) /\ Len(one) = 1 /\ one[1] = h
    BY <1>2, <1>3
  <2> HIDE DEF hs, one
  <2>2. Len(hs) \in Nat /\ DOMAIN hs = 1 .. Len(hs)
    BY <2>1, LenProperties
  <2>3. /\ more \in Seq(Hooks) /\ Len(more) = Len(one) + Len(hs)
        /\ \A k \in 1 .. Len(one) + Len(hs) : more[k] = IF k <= Len(one) THEN one[k] ELSE hs[k - Len(one)]
    BY <2>1, ConcatProperties
  <2> HIDE DEF more
  <2>4. DOMAIN more = 1 .. 1 + Len(hs) /\ \A k \in 1 .. 1 + Len(hs) : more[k] = IF k <= 1 THEN one[k] ELSE hs[k - 1]
    BY <2>1, <2>3, LenProperties
  <2>5. \A k \in DOMAIN more : more[k] \in Binaries => k \in Nat /\ k - 1 \in DOMAIN hs /\ hs[k - 1] = more[k]
    <3> SUFFICES ASSUME NEW k \in DOMAIN more, more[k] \in Binaries
                 PROVE  k \in Nat /\ k - 1 \in DOMAIN hs /\ hs[k - 1] = more[k]
      OBVIOUS
    <3>1. k # 1
      BY <1>3, <2>1, <2>2, <2>4
    <3> QED
      BY <2>2, <2>4, <3>1
  <2> QED
    BY <2>3, <2>5 DEF hs, one, more
<1> HIDE DEF g
<1>5. new.server = file.server /\ new.pre = file.pre /\ new.post = post
      /\ new.opaque = file.opaque
      /\ new = [server |-> file.server, pre |-> file.pre, post |-> post, opaque |-> file.opaque]
  <2>1. file = [server |-> file.server, pre |-> file.pre, post |-> file.post, opaque |-> file.opaque]
    BY DEF Config
  <2>2. [old EXCEPT ![i] = <<h>> \o @] = post
    BY DEF g
  <2>3. new = [file EXCEPT !.post = post]
    BY <2>1, <2>2
  <2> HIDE DEF post, new
  <2> QED
    BY <2>1, <2>3
<1> HIDE DEF new
<1>6. post \in Seq(Seq(Hooks))
  <2>1. post \in [1 .. Len(old) -> Seq(Hooks)]
    BY <1>2, <1>4
  <2> QED
    BY <1>2, <2>1, FunctionIsSeq, Zenon
<1>7. DOMAIN post = DOMAIN old /\ (\A j \in DOMAIN old : j # i => post[j] = old[j]) /\ post[i] = g
  OBVIOUS
<1> HIDE DEF post
<1>8. \A j \in DOMAIN post : \A k \in DOMAIN post[j] : post[j][k] \in Binaries =>
          \E m \in DOMAIN old[j] : old[j][m] = post[j][k] /\ (j # i => m = k) /\ (j = i => k \in Nat /\ m = k - 1)
  <2> SUFFICES ASSUME NEW j \in DOMAIN post, NEW k \in DOMAIN post[j], post[j][k] \in Binaries
               PROVE  \E m \in DOMAIN old[j] :
                          old[j][m] = post[j][k] /\ (j # i => m = k) /\ (j = i => k \in Nat /\ m = k - 1)
    OBVIOUS
  <2>1. CASE j = i
    BY <1>4, <1>7, <2>1
  <2>2. CASE j # i
    BY <1>7, <2>2
  <2> QED
    BY <2>1, <2>2
<1>9. ASSUME Once(old) PROVE Once(post)
  <2> SUFFICES ASSUME NEW j \in DOMAIN post, NEW l \in DOMAIN post, NEW k \in DOMAIN post[j], NEW n \in DOMAIN post[l],
                      post[j][k] = post[l][n], post[j][k] \in Binaries
               PROVE  j = l /\ k = n
    BY DEF Once
  <2>1. PICK a \in DOMAIN old[j] : old[j][a] = post[j][k] /\ (j # i => a = k) /\ (j = i => k \in Nat /\ a = k - 1)
    BY <1>8
  <2>2. PICK b \in DOMAIN old[l] : old[l][b] = post[l][n] /\ (l # i => b = n) /\ (l = i => n \in Nat /\ b = n - 1)
    BY <1>8
  <2>3. j = l /\ a = b
    BY <1>7, <1>9, <2>1, <2>2 DEF Once
  <2> QED
    BY <2>1, <2>2, <2>3
<1>10. ConfigShape(new)
  BY <1>5, <1>9 DEF ConfigShape
<1>11. new \in Config
  BY <1>1, <1>5, <1>6 DEF Config, Hooks
<1> QED
  BY <1>10, <1>11 DEF new

-----------------------------------------------------------------------------
(* The inductive invariant                                                 *)

(* The steps that a command of a client can have left.                     *)
Todo(op, todo) ==
    CASE client = "opencode" ->
            todo \in {<<"read", "write", "companion">>, <<"write", "companion">>, <<"companion">>}
      [] client # "opencode" /\ op = "setup" ->
            todo \in {<<"read", "write", "companion", "doc">>,
                      <<"write", "companion", "doc">>, <<"companion", "doc">>, <<"doc">>}
      [] OTHER ->
            todo \in {<<"read", "write", "doc", "companion">>,
                      <<"write", "doc", "companion">>, <<"doc", "companion">>, <<"companion">>}

Files == {Absent, Unparsable} \cup Config
Documents == {Absent} \cup Text
Served == Readable(config) /\ config.server # NoBinary

FilesOK ==
    /\ config \in Files /\ ConfigShape(Parsed(config))
    /\ doc \in Documents /\ DocShape(LinesOf(doc))
    /\ client = "opencode" => doc = Absent
    /\ kept = [view |-> UserView(Parsed(config)), text |-> UserText(doc)]

(* What a command has done by the step it is at.                           *)
CommandOK ==
    Running =>
        /\ outcome = "none" /\ Todo(command.op, command.todo)
        /\ Step = "write" => command.read \in Files /\ ConfigShape(Parsed(command.read))
        /\ ~ command.edited /\ Step \in {"companion", "doc"} =>
              /\ Removing => (Readable(config) => Bare(config))
              /\ ~ Removing => Readable(config) /\ Whole(config)
        /\ ~ command.edited /\ ~ Removing /\ Step = "doc" => companion
        /\ ~ command.edited /\ Removing /\ Step = "companion" => ~ Ending(LinesOf(doc))
        /\ client = "opencode" /\ ~ Removing /\ Step = "companion" => Served \/ torn

OutcomeOK ==
    /\ outcome = "installed" =>
          Readable(config) /\ Whole(config) /\ companion /\ (client # "opencode" => Ending(LinesOf(doc)))
    /\ outcome = "uninstalled" =>
          (Readable(config) => Bare(config)) /\ ~ companion /\ ~ Ending(LinesOf(doc))

PluginOK == client = "opencode" /\ companion => Served \/ torn \/ (Running /\ Removing)

IInv == SetupTypeOK /\ FilesOK /\ CommandOK /\ OutcomeOK /\ PluginOK

(* A behaviour follows one client.                                         *)
LEMMA SameClient ==
    ASSUME client' = client
    PROVE  /\ \A file : (Whole(file)' <=> Whole(file)) /\ (ConfigShape(file)' <=> ConfigShape(file))
           /\ \A op, todo : Todo(op, todo)' <=> Todo(op, todo)
<1>1. \A file : Whole(file)' <=> Whole(file)
  BY DEF Whole
<1>2. \A file : ConfigShape(file)' <=> ConfigShape(file)
  BY DEF ConfigShape
<1>3. \A op, todo : Todo(op, todo)' <=> Todo(op, todo)
  BY DEF Todo
<1> QED
  BY <1>1, <1>2, <1>3

(* The order of a command's steps, and the last.                           *)
LEMMA TodoIs ==
    ASSUME client \in Clients, NEW op \in {"setup", "uninstall"}, NEW todo, Todo(op, todo)
    PROVE  /\ todo \in Seq(Steps) \ {<<>>} /\ todo[1] \in Steps
           /\ todo[1] = "read" =>
                 Tail(todo) # <<>> /\ Todo(op, Tail(todo)) /\ Tail(todo)[1] = "write"
           /\ todo[1] = "write" =>
                 /\ Tail(todo) # <<>> /\ Todo(op, Tail(todo))
                 /\ Tail(todo)[1] = IF client = "opencode" \/ op = "setup" THEN "companion" ELSE "doc"
           /\ todo[1] = "companion" =>
                 IF client # "opencode" /\ op = "setup"
                 THEN Tail(todo) # <<>> /\ Todo(op, Tail(todo)) /\ Tail(todo)[1] = "doc"
                 ELSE Tail(todo) = <<>>
           /\ todo[1] = "doc" =>
                 /\ client # "opencode"
                 /\ IF op = "setup" THEN Tail(todo) = <<>>
                    ELSE Tail(todo) # <<>> /\ Todo(op, Tail(todo)) /\ Tail(todo)[1] = "companion"
<1>1. CASE client = "opencode"
  <2>1. todo \in {<<"read", "write", "companion">>,
                  <<"write", "companion">>,
                  <<"companion">>}
    BY <1>1 DEF Todo
  <2>2. CASE todo = <<"read", "write", "companion">>
    <3>1. todo \in Seq(Steps) /\ todo # <<>> /\ todo[1] = "read" /\ todo[1] \in Steps
      BY <2>2 DEF Steps
    <3> DEFINE rest == Tail(todo)
    <3>2. rest = <<"write", "companion">>
      BY <2>2
    <3> HIDE DEF rest
    <3>3. rest # <<>> /\ rest[1] = "write"
      BY <3>2
    <3>4. Todo(op, rest)
      BY <1>1, <3>2 DEF Todo
    <3> QED
      BY <1>1, <3>1, <3>3, <3>4 DEF rest
  <2>3. CASE todo = <<"write", "companion">>
    <3>1. todo \in Seq(Steps) /\ todo # <<>> /\ todo[1] = "write" /\ todo[1] \in Steps
      BY <2>3 DEF Steps
    <3> DEFINE rest == Tail(todo)
    <3>2. rest = <<"companion">>
      BY <2>3
    <3> HIDE DEF rest
    <3>3. rest # <<>> /\ rest[1] = "companion"
      BY <3>2
    <3>4. Todo(op, rest)
      BY <1>1, <3>2 DEF Todo
    <3> QED
      BY <1>1, <3>1, <3>3, <3>4 DEF rest
  <2>4. CASE todo = <<"companion">>
    <3>1. todo \in Seq(Steps) /\ todo # <<>> /\ todo[1] = "companion" /\ todo[1] \in Steps
      BY <2>4 DEF Steps
    <3>2. Tail(todo) = <<>>
      BY <2>4
    <3> QED
      BY <1>1, <3>1, <3>2
  <2> QED
    BY <2>1, <2>2, <2>3, <2>4
<1>2. CASE client # "opencode" /\ op = "setup"
  <2>1. todo \in {<<"read", "write", "companion", "doc">>,
                  <<"write", "companion", "doc">>,
                  <<"companion", "doc">>,
                  <<"doc">>}
    BY <1>2 DEF Todo
  <2>2. CASE todo = <<"read", "write", "companion", "doc">>
    <3>1. todo \in Seq(Steps) /\ todo # <<>> /\ todo[1] = "read" /\ todo[1] \in Steps
      BY <2>2 DEF Steps
    <3> DEFINE rest == Tail(todo)
    <3>2. rest = <<"write", "companion", "doc">>
      BY <2>2
    <3> HIDE DEF rest
    <3>3. rest # <<>> /\ rest[1] = "write"
      BY <3>2
    <3>4. Todo(op, rest)
      BY <1>2, <3>2 DEF Todo
    <3> QED
      BY <1>2, <3>1, <3>3, <3>4 DEF rest
  <2>3. CASE todo = <<"write", "companion", "doc">>
    <3>1. todo \in Seq(Steps) /\ todo # <<>> /\ todo[1] = "write" /\ todo[1] \in Steps
      BY <2>3 DEF Steps
    <3> DEFINE rest == Tail(todo)
    <3>2. rest = <<"companion", "doc">>
      BY <2>3
    <3> HIDE DEF rest
    <3>3. rest # <<>> /\ rest[1] = "companion"
      BY <3>2
    <3>4. Todo(op, rest)
      BY <1>2, <3>2 DEF Todo
    <3> QED
      BY <1>2, <3>1, <3>3, <3>4 DEF rest
  <2>4. CASE todo = <<"companion", "doc">>
    <3>1. todo \in Seq(Steps) /\ todo # <<>> /\ todo[1] = "companion" /\ todo[1] \in Steps
      BY <2>4 DEF Steps
    <3> DEFINE rest == Tail(todo)
    <3>2. rest = <<"doc">>
      BY <2>4
    <3> HIDE DEF rest
    <3>3. rest # <<>> /\ rest[1] = "doc"
      BY <3>2
    <3>4. Todo(op, rest)
      BY <1>2, <3>2 DEF Todo
    <3> QED
      BY <1>2, <3>1, <3>3, <3>4 DEF rest
  <2>5. CASE todo = <<"doc">>
    <3>1. todo \in Seq(Steps) /\ todo # <<>> /\ todo[1] = "doc" /\ todo[1] \in Steps
      BY <2>5 DEF Steps
    <3>2. Tail(todo) = <<>>
      BY <2>5
    <3> QED
      BY <1>2, <3>1, <3>2
  <2> QED
    BY <2>1, <2>2, <2>3, <2>4, <2>5
<1>3. CASE client # "opencode" /\ op = "uninstall"
  <2>1. todo \in {<<"read", "write", "doc", "companion">>,
                  <<"write", "doc", "companion">>,
                  <<"doc", "companion">>,
                  <<"companion">>}
    BY <1>3 DEF Todo
  <2>2. CASE todo = <<"read", "write", "doc", "companion">>
    <3>1. todo \in Seq(Steps) /\ todo # <<>> /\ todo[1] = "read" /\ todo[1] \in Steps
      BY <2>2 DEF Steps
    <3> DEFINE rest == Tail(todo)
    <3>2. rest = <<"write", "doc", "companion">>
      BY <2>2
    <3> HIDE DEF rest
    <3>3. rest # <<>> /\ rest[1] = "write"
      BY <3>2
    <3>4. Todo(op, rest)
      BY <1>3, <3>2 DEF Todo
    <3> QED
      BY <1>3, <3>1, <3>3, <3>4 DEF rest
  <2>3. CASE todo = <<"write", "doc", "companion">>
    <3>1. todo \in Seq(Steps) /\ todo # <<>> /\ todo[1] = "write" /\ todo[1] \in Steps
      BY <2>3 DEF Steps
    <3> DEFINE rest == Tail(todo)
    <3>2. rest = <<"doc", "companion">>
      BY <2>3
    <3> HIDE DEF rest
    <3>3. rest # <<>> /\ rest[1] = "doc"
      BY <3>2
    <3>4. Todo(op, rest)
      BY <1>3, <3>2 DEF Todo
    <3> QED
      BY <1>3, <3>1, <3>3, <3>4 DEF rest
  <2>4. CASE todo = <<"doc", "companion">>
    <3>1. todo \in Seq(Steps) /\ todo # <<>> /\ todo[1] = "doc" /\ todo[1] \in Steps
      BY <2>4 DEF Steps
    <3> DEFINE rest == Tail(todo)
    <3>2. rest = <<"companion">>
      BY <2>4
    <3> HIDE DEF rest
    <3>3. rest # <<>> /\ rest[1] = "companion"
      BY <3>2
    <3>4. Todo(op, rest)
      BY <1>3, <3>2 DEF Todo
    <3> QED
      BY <1>3, <3>1, <3>3, <3>4 DEF rest
  <2>5. CASE todo = <<"companion">>
    <3>1. todo \in Seq(Steps) /\ todo # <<>> /\ todo[1] = "companion" /\ todo[1] \in Steps
      BY <2>5 DEF Steps
    <3>2. Tail(todo) = <<>>
      BY <2>5
    <3> QED
      BY <1>3, <3>1, <3>2
  <2> QED
    BY <2>1, <2>2, <2>3, <2>4, <2>5
<1> QED
  BY <1>1, <1>2, <1>3

(* A command begins with all of its steps, the reading first.              *)
LEMMA FirstSteps ==
    /\ Todo("setup", InstallSteps) /\ Todo("uninstall", UninstallSteps)
    /\ InstallSteps[1] = "read" /\ UninstallSteps[1] = "read"
    /\ client = "opencode" => \A op : Todo(op, <<"companion">>)
<1>1. Todo("setup", InstallSteps) /\ InstallSteps[1] = "read"
  BY DEF Todo, InstallSteps
<1>2. Todo("uninstall", UninstallSteps) /\ UninstallSteps[1] = "read"
  BY DEF Todo, UninstallSteps
<1>3. client = "opencode" => \A op : Todo(op, <<"companion">>)
  BY DEF Todo
<1> QED
  BY <1>1, <1>2, <1>3

(* What the installers pass over is of the matchers and the events.        *)
LEMMA FormsAre ==
    ASSUME NEW matchers, NEW form \in Forms(matchers)
    PROVE  form \in SUBSET (ToSet(Matchers) \cup {PostCompact})
BY DEF Forms

(* The files before the first command.                                     *)
LEMMA OwnFiles ==
    ASSUME client \in Clients
    PROVE  /\ client # "opencode" => \A file \in OwnConfigs : file \in Config /\ ConfigShape(file)
           /\ \A l \in UserLines : <<l>> \in Text /\ DocShape(<<l>>)
           /\ <<>> \in Text /\ DocShape(<<>>) /\ ~ Ending(<<>>) /\ Only(<<>>, UserLines) = <<>>
           /\ LinesOf(Absent) = <<>> /\ \A lines \in Text : lines # Absent /\ LinesOf(lines) = lines
<1>1. ASSUME client # "opencode", NEW m \in {Matchers[1], "other"}, NEW h \in UserHooks,
             NEW o \in {{}} \cup Forms({m})
      PROVE  LET file == [server |-> NoBinary, pre |-> <<[matcher |-> m, hooks |-> <<h>>]>>, post |-> <<<<h>>>>,
                          opaque |-> o]
             IN  file \in Config /\ ConfigShape(file)
  <2> DEFINE hs == <<h>>
             g == [matcher |-> m, hooks |-> hs]
             pre == <<g>>
             post == <<hs>>
             file == [server |-> NoBinary, pre |-> pre, post |-> post, opaque |-> o]
  <2>1. h \in Hooks /\ h \notin Recognised /\ h \notin Binaries
    BY BinariesAssumption, HooksAssumption DEF Hooks
  <2>2. hs \in Seq(Hooks) /\ DOMAIN hs = {1} /\ hs[1] = h
    BY <2>1
  <2> HIDE DEF hs
  <2>3. m \in ToSet(Matchers) \cup {"other"}
    <3>1. 1 \in DOMAIN Matchers
      BY MatchersAssumption
    <3> QED
      BY <3>1 DEF ToSet
  <2>4. g \in Group /\ g.hooks = hs
    BY <2>2, <2>3 DEF Group, Hooks
  <2> HIDE DEF g
  <2>5. /\ pre \in Seq(Group) /\ DOMAIN pre = {1} /\ pre[1] = g
        /\ post \in Seq(Seq(Hooks)) /\ DOMAIN post = {1} /\ post[1] = hs
    BY <2>2, <2>4
  <2>6. file = [server |-> NoBinary, pre |-> pre, post |-> post, opaque |-> o]
    OBVIOUS
  <2> HIDE DEF pre, post
  <2>7. file.server = NoBinary /\ file.pre = pre /\ file.post = post /\ file.opaque = o /\ file \in Config
    BY <2>5, <2>6, FormsAre DEF Config, Hooks
  <2> HIDE DEF file
  <2>8. UniquePre(pre) /\ \A i \in DOMAIN pre : ~ OursAt(pre, i)
    BY <2>1, <2>2, <2>4, <2>5 DEF UniquePre, OursAt
  <2>9. Once(post)
    BY <2>1, <2>2, <2>5 DEF Once
  <2>10. ConfigShape(file)
    BY <1>1, <2>7, <2>8, <2>9 DEF ConfigShape, OursInPlace
  <2> QED
    BY <2>7, <2>10 DEF file, pre, post, g, hs
<1>2. ASSUME NEW l \in UserLines PROVE <<l>> \in Text /\ DocShape(<<l>>)
  <2>1. <<l>> \in Text /\ l \notin {Start, Include, End}
    BY Marks DEF Text
  <2> QED
    BY <2>1 DEF DocShape
<1>3. <<>> \in Text /\ DocShape(<<>>) /\ ~ Ending(<<>>)
  BY DEF Text, DocShape, Ending
<1>4. Only(<<>>, UserLines) = <<>>
  <2>1. <<>> \in Seq(UserLines) /\ {i \in DOMAIN <<>> : <<>>[i] \in UserLines} = {}
    OBVIOUS
  <2> QED
    BY <2>1, ThoseOfNone DEF Only
<1>5. LinesOf(Absent) = <<>> /\ \A lines \in Text : lines # Absent /\ LinesOf(lines) = lines
  BY FilesAssumption DEF LinesOf
<1>6. client # "opencode" => \A file \in OwnConfigs : file \in Config /\ ConfigShape(file)
  <2> SUFFICES ASSUME client # "opencode", NEW file \in OwnConfigs PROVE file \in Config /\ ConfigShape(file)
    OBVIOUS
  <2>1. PICK m \in {Matchers[1], "other"} : \E o \in {{}} \cup Forms({m}), h \in UserHooks :
            file = [server |-> NoBinary, pre |-> <<[matcher |-> m, hooks |-> <<h>>]>>, post |-> <<<<h>>>>,
                    opaque |-> o]
    BY DEF OwnConfigs
  <2> QED
    BY <1>1, <2>1
<1> QED
  BY <1>2, <1>3, <1>4, <1>5, <1>6

(* A command that goes on has the steps left that GoOn was given.          *)
LEMMA GoneOn ==
    ASSUME command \in Command, NEW todo, GoOn(todo)
    PROVE  /\ todo = <<>> => command' = NoCommand /\ outcome' = Ended
           /\ todo \in Seq(Steps) \ {<<>>} =>
                 /\ command' \in Command /\ command' # NoCommand /\ outcome' = outcome
                 /\ command'.todo = todo /\ command'.op = command.op /\ command'.edited = command.edited
                 /\ command'.read = command.read
<1>1. todo = <<>> => command' = NoCommand /\ outcome' = Ended
  BY DEF GoOn
<1>2. ASSUME todo \in Seq(Steps) \ {<<>>}
      PROVE  /\ command' \in Command /\ command' # NoCommand /\ outcome' = outcome
             /\ command'.todo = todo /\ command'.op = command.op /\ command'.edited = command.edited
             /\ command'.read = command.read
  <2>1. command' = [command EXCEPT !.todo = todo] /\ outcome' = outcome
    BY <1>2 DEF GoOn
  <2>2. /\ command' \in Command
        /\ command'.todo = todo /\ command'.op = command.op /\ command'.edited = command.edited
        /\ command'.read = command.read
    BY <1>2, <2>1 DEF Command
  <2> QED
    BY <2>1, <2>2, FilesAssumption
<1> QED
  BY <1>1, <1>2

(* Initially a file is absent, or the user's alone.                        *)
LEMMA InitIInv ==
    ASSUME SetupInit
    PROVE  IInv
<1>1. client \in Clients /\ command = NoCommand /\ outcome = "none" /\ torn = FALSE /\ companion = FALSE
  BY DEF SetupInit
<1>2. config \in Files /\ ConfigShape(Parsed(config))
  <2>1. CASE config = Absent
    BY <2>1, ParsedIs DEF Files, Parsed, Readable
  <2>2. CASE config = EmptyConfig
    BY <2>2, ParsedIs DEF Files
  <2>3. CASE client # "opencode" /\ config \in OwnConfigs
    BY <1>1, <2>3, OwnFiles, ParsedIs DEF Files
  <2> QED
    BY <2>1, <2>2, <2>3 DEF SetupInit
<1>3. doc \in Documents /\ DocShape(LinesOf(doc)) /\ (client = "opencode" => doc = Absent)
  <2>1. CASE doc = Absent
    BY <1>1, <2>1, OwnFiles DEF Documents
  <2>2. CASE client # "opencode" /\ \E l \in UserLines : doc = <<l>>
    BY <1>1, <2>2, OwnFiles DEF Documents
  <2> QED
    BY <2>1, <2>2 DEF SetupInit
<1>4. FilesOK
  BY <1>2, <1>3 DEF FilesOK, SetupInit
<1>5. SetupTypeOK
  BY <1>1, <1>2, <1>3 DEF SetupTypeOK, Files, Documents, Readable, Running
<1> QED
  BY <1>1, <1>4, <1>5 DEF IInv, CommandOK, OutcomeOK, PluginOK, Running

(* A command begins with nothing read.                                     *)
LEMMA BeginIInv ==
    ASSUME IInv, Begin
    PROVE  IInv'
<1>1. /\ client \in Clients /\ UNCHANGED <<client, config, companion, doc, torn, kept>>
      /\ command = NoCommand /\ outcome' = "none"
  BY DEF IInv, SetupTypeOK, Begin, Running
<1>2. PICK op \in {"setup", "uninstall"}, binary \in Binaries :
          command' = [op |-> op, binary |-> binary, read |-> NoCommand, edited |-> FALSE,
                      todo |-> IF op = "setup" THEN InstallSteps ELSE UninstallSteps]
  BY DEF Begin
<1> DEFINE todo == IF op = "setup" THEN InstallSteps ELSE UninstallSteps
<1>3. Todo(op, todo) /\ todo[1] = "read"
  BY FirstSteps
<1>4. todo \in Seq(Steps) \ {<<>>}
  BY <1>1, <1>3, TodoIs
<1> HIDE DEF todo
<1>5. command' = [op |-> op, binary |-> binary, read |-> NoCommand, edited |-> FALSE, todo |-> todo]
  BY <1>2 DEF todo
<1>6. command' \in Command /\ command'.op = op /\ command'.todo = todo
  BY <1>4, <1>5 DEF Command
<1>7. command' # NoCommand
  BY <1>6, FilesAssumption
<1>8. SetupTypeOK'
  BY <1>1, <1>6 DEF IInv, SetupTypeOK, Readable
<1>9. FilesOK'
  BY <1>1, SameClient DEF IInv, FilesOK
<1>10. Todo(command.op, command.todo)'
  BY <1>1, <1>3, <1>6, SameClient
<1>11. CommandOK'
  BY <1>1, <1>3, <1>6, <1>10 DEF CommandOK, Step
<1>12. OutcomeOK'
  BY <1>1 DEF OutcomeOK
<1>13. PluginOK'
  BY <1>1 DEF IInv, PluginOK, Served, Readable, Running
<1> QED
  BY <1>8, <1>9, <1>11, <1>12, <1>13 DEF IInv

(* What a command reads is of the shape of the file.                       *)
LEMMA ReadConfigIInv ==
    ASSUME IInv, ReadConfig
    PROVE  IInv'
<1>1. /\ client \in Clients /\ UNCHANGED <<client, config, companion, doc, torn, kept>>
      /\ Running /\ Step = "read" /\ command \in Command /\ CommandOK
  BY DEF IInv, SetupTypeOK, ReadConfig
<1>2. FilesOK'
  BY <1>1, SameClient DEF IInv, FilesOK
<1>3. command.op \in {"setup", "uninstall"} /\ outcome = "none" /\ Todo(command.op, command.todo)
  BY <1>1 DEF Command, CommandOK
<1>4. CASE Removing /\ config = Absent /\ client = "opencode"
  <2> DEFINE todo == <<"companion">>
  <2>1. GoOn(todo)
    BY <1>4 DEF ReadConfig
  <2>2. Todo(command.op, todo) /\ todo[1] = "companion"
    BY <1>4, FirstSteps
  <2>3. todo \in Seq(Steps) \ {<<>>}
    BY <1>1, <1>3, <2>2, TodoIs
  <2> HIDE DEF todo
  <2>4. /\ command' \in Command /\ command' # NoCommand /\ outcome' = outcome
        /\ command'.todo = todo /\ command'.op = command.op /\ command'.edited = command.edited
    BY <1>1, <2>1, <2>3, GoneOn
  <2>5. SetupTypeOK'
    BY <1>1, <1>3, <2>4 DEF IInv, SetupTypeOK, Readable
  <2>6. Todo(command.op, command.todo)' /\ Step' = "companion" /\ Removing'
    BY <1>1, <1>4, <2>2, <2>4, SameClient DEF Step, Removing
  <2>7. doc = Absent /\ ~ Ending(LinesOf(doc)) /\ ~ Readable(config)
    BY <1>1, <1>4, OwnFiles DEF IInv, FilesOK, Readable
  <2>8. CommandOK'
    BY <1>1, <1>3, <2>4, <2>6, <2>7 DEF CommandOK, Readable
  <2>9. OutcomeOK' /\ PluginOK'
    BY <1>3, <2>4, <2>6 DEF OutcomeOK, PluginOK, Running
  <2> QED
    BY <1>2, <2>5, <2>8, <2>9 DEF IInv
<1>5. CASE Removing /\ config = Absent /\ client # "opencode"
  <2>1. command' = NoCommand /\ outcome' = "nothing"
    BY <1>5 DEF ReadConfig
  <2> QED
    BY <1>1, <1>2, <1>5, <2>1 DEF IInv, SetupTypeOK, Readable, CommandOK, OutcomeOK, PluginOK, Running
<1>6. CASE ~ (Removing /\ config = Absent)
  <2> DEFINE todo == Tail(command.todo)
  <2>1. command' = [command EXCEPT !.read = config, !.todo = todo] /\ outcome' = outcome
    BY <1>6 DEF ReadConfig
  <2>2. todo # <<>> /\ Todo(command.op, todo) /\ todo[1] = "write"
    BY <1>1, <1>3, TodoIs DEF Step
  <2> HIDE DEF todo
  <2>3. todo \in Seq(Steps) \ {<<>>}
    BY <1>1, <1>3, <2>2, TodoIs
  <2>4. config \in {Absent, Unparsable} \cup Config
    BY DEF IInv, FilesOK, Files
  <2>5. command' \in Command /\ command'.read = config /\ command'.todo = todo /\ command'.op = command.op
    BY <1>1, <2>1, <2>3, <2>4 DEF Command
  <2>6. command' # NoCommand
    BY <2>5, FilesAssumption
  <2>7. SetupTypeOK'
    BY <1>1, <1>3, <2>1, <2>5 DEF IInv, SetupTypeOK, Readable
  <2>8. Todo(command.op, command.todo)' /\ Step' = "write"
    BY <1>1, <2>2, <2>5, SameClient DEF Step
  <2>9. (command.read \in Files /\ ConfigShape(Parsed(command.read)))'
    BY <1>1, <2>5, SameClient DEF IInv, FilesOK
  <2>10. CommandOK'
    BY <1>3, <2>1, <2>8, <2>9 DEF CommandOK
  <2>11. OutcomeOK' /\ PluginOK'
    BY <1>1, <1>3, <2>1, <2>5, <2>6 DEF IInv, OutcomeOK, PluginOK, Running, Removing, Served, Readable
  <2> QED
    BY <1>2, <2>7, <2>10, <2>11 DEF IInv
<1> QED
  BY <1>4, <1>5, <1>6

(* The write makes the config whole or bare, and keeps the user's part of  *)
(* what was read.                                                          *)
LEMMA WriteConfigIInv ==
    ASSUME IInv, WriteConfig
    PROVE  IInv'
<1> DEFINE new == IF Removing THEN Uninstalled(command.read) ELSE Installed(command.read, command.binary)
           todo == Tail(command.todo)
<1>1. /\ client \in Clients /\ UNCHANGED <<client, companion, doc>>
      /\ Running /\ Step = "write" /\ command \in Command /\ CommandOK
      /\ config' = new /\ torn' = (torn /\ Removing) /\ GoOn(todo)
      /\ kept' = IF command.read = Unparsable \/ command.read # config
                 THEN [kept EXCEPT !.view = UserView(new)] ELSE kept
  BY DEF IInv, SetupTypeOK, WriteConfig
<1>2. /\ command.op \in {"setup", "uninstall"} /\ command.binary \in Binaries
      /\ outcome = "none" /\ Todo(command.op, command.todo)
      /\ command.read \in Files /\ ConfigShape(Parsed(command.read))
  BY <1>1 DEF Command, CommandOK
<1>3. /\ new \in Config /\ UserView(new) = UserView(Parsed(command.read)) /\ ConfigShape(new)
      /\ Removing => Bare(new)
      /\ ~ Removing => Whole(new)
  <2>1. CASE Removing
    BY <1>1, <1>2, <2>1, UninstalledIs DEF Files
  <2>2. CASE ~ Removing
    BY <1>1, <1>2, <2>2, InstalledIs DEF Files
  <2> QED
    BY <2>1, <2>2
<1> HIDE DEF new
<1>4. Readable(new) /\ Parsed(new) = new /\ Readable(config)' /\ Parsed(config)' = new
  BY <1>1, <1>3, ParsedIs
<1>5. kept' = [view |-> UserView(new), text |-> UserText(doc)]
  <2>1. kept = [view |-> UserView(Parsed(config)), text |-> UserText(doc)]
    BY DEF IInv, FilesOK
  <2> QED
    BY <1>1, <1>3, <2>1
<1>6. FilesOK'
  <2>1. (config \in Files /\ ConfigShape(Parsed(config)))'
    BY <1>1, <1>3, <1>4, SameClient DEF Files
  <2>2. (kept = [view |-> UserView(Parsed(config)), text |-> UserText(doc)])'
    BY <1>1, <1>4, <1>5
  <2> QED
    BY <1>1, <2>1, <2>2 DEF IInv, FilesOK
<1>7. /\ todo # <<>> /\ Todo(command.op, todo)
      /\ todo[1] = IF client = "opencode" \/ command.op = "setup" THEN "companion" ELSE "doc"
  BY <1>1, <1>2, TodoIs DEF Step
<1> HIDE DEF todo
<1>8. todo \in Seq(Steps) \ {<<>>}
  BY <1>1, <1>2, <1>7, TodoIs
<1>9. /\ command' \in Command /\ command' # NoCommand /\ outcome' = outcome
      /\ command'.todo = todo /\ command'.op = command.op /\ command'.edited = command.edited
  BY <1>1, <1>8, GoneOn
<1>10. SetupTypeOK'
  BY <1>1, <1>2, <1>3, <1>9 DEF IInv, SetupTypeOK
<1>11. /\ Todo(command.op, command.todo)' /\ (Removing' <=> Removing)
       /\ Step' = IF client = "opencode" \/ ~ Removing THEN "companion" ELSE "doc"
  <2>1. Todo(command.op, command.todo)'
    BY <1>1, <1>7, <1>9, SameClient
  <2>2. Step' = todo[1] /\ (Removing' <=> Removing) /\ (command.op = "setup" <=> ~ Removing)
    BY <1>2, <1>9 DEF Step, Removing
  <2> QED
    BY <1>7, <2>1, <2>2
<1>12. ~ Removing => Served' /\ Whole(config)'
  <2> SUFFICES ASSUME ~ Removing PROVE Served' /\ Whole(config)'
    OBVIOUS
  <2>1. Whole(new) /\ new.server # NoBinary
    BY <1>3 DEF Whole
  <2> QED
    BY <1>1, <1>4, <2>1, SameClient DEF Served
<1>13. Removing => Bare(config)'
  BY <1>1, <1>3
<1>14. client = "opencode" => ~ Ending(LinesOf(doc))
  BY <1>1, OwnFiles DEF IInv, FilesOK
<1>15. CommandOK'
  BY <1>1, <1>2, <1>4, <1>9, <1>11, <1>12, <1>13, <1>14 DEF CommandOK
<1>16. OutcomeOK' /\ PluginOK'
  BY <1>2, <1>9, <1>11, <1>12 DEF OutcomeOK, PluginOK, Running
<1> QED
  BY <1>6, <1>10, <1>15, <1>16 DEF IInv

(* The companion is written after the server of a setup, and removed after *)
(* that of an uninstall.                                                   *)
LEMMA WriteCompanionIInv ==
    ASSUME IInv, WriteCompanion
    PROVE  IInv'
<1> DEFINE todo == Tail(command.todo)
<1>1. /\ client \in Clients /\ UNCHANGED <<client, config, doc, torn, kept>>
      /\ Running /\ Step = "companion" /\ command \in Command /\ CommandOK
      /\ companion' = ~ Removing /\ GoOn(todo)
  BY DEF IInv, SetupTypeOK, WriteCompanion
<1>2. /\ command.op \in {"setup", "uninstall"} /\ command.edited \in BOOLEAN
      /\ outcome = "none" /\ Todo(command.op, command.todo)
      /\ ~ Removing <=> command.op = "setup"
  BY <1>1 DEF Command, CommandOK, Removing
<1>3. FilesOK'
  BY <1>1, SameClient DEF IInv, FilesOK
<1>4. IF client # "opencode" /\ ~ Removing
      THEN todo # <<>> /\ Todo(command.op, todo) /\ todo[1] = "doc"
      ELSE todo = <<>>
  BY <1>1, <1>2, TodoIs DEF Step
<1>5. /\ ~ command.edited /\ Removing => (Readable(config) => Bare(config)) /\ ~ Ending(LinesOf(doc))
      /\ ~ command.edited /\ ~ Removing => Readable(config) /\ Whole(config)
      /\ client = "opencode" /\ ~ Removing => Served \/ torn
  BY <1>1, <1>2 DEF CommandOK
<1> HIDE DEF todo
<1>6. companion' \in BOOLEAN /\ (companion' <=> ~ Removing)
  BY <1>1
<1>7. /\ (Readable(config)' <=> Readable(config)) /\ (Bare(config)' <=> Bare(config))
      /\ (Whole(config)' <=> Whole(config)) /\ (Served' <=> Served)
      /\ (Ending(LinesOf(doc))' <=> Ending(LinesOf(doc)))
  BY <1>1, SameClient DEF Served, Readable
<1>8. CASE client # "opencode" /\ ~ Removing
  <2>1. todo \in Seq(Steps) \ {<<>>} /\ todo[1] = "doc" /\ Todo(command.op, todo)
    BY <1>1, <1>2, <1>4, <1>8, TodoIs
  <2>2. /\ command' \in Command /\ command' # NoCommand /\ outcome' = outcome
        /\ command'.todo = todo /\ command'.op = command.op /\ command'.edited = command.edited
    BY <1>1, <2>1, GoneOn
  <2>3. SetupTypeOK'
    BY <1>1, <1>2, <1>6, <2>2 DEF IInv, SetupTypeOK, Readable
  <2>4. Todo(command.op, command.todo)' /\ Step' = "doc" /\ ~ Removing'
    BY <1>1, <1>8, <2>1, <2>2, SameClient DEF Step, Removing
  <2>5. CommandOK'
    BY <1>2, <1>5, <1>6, <1>7, <1>8, <2>2, <2>4 DEF CommandOK
  <2>6. OutcomeOK' /\ PluginOK'
    BY <1>1, <1>2, <1>8, <2>2 DEF OutcomeOK, PluginOK
  <2> QED
    BY <1>3, <2>3, <2>5, <2>6 DEF IInv
<1>9. CASE ~ (client # "opencode" /\ ~ Removing)
  <2>1. command' = NoCommand /\ outcome' = Ended
    BY <1>1, <1>4, <1>9, GoneOn
  <2>2. outcome' = IF command.edited THEN "none" ELSE IF Removing THEN "uninstalled" ELSE "installed"
    BY <2>1 DEF Ended
  <2>3. outcome' \in {"none", "installed", "uninstalled", "nothing", "stopped"}
    BY <2>2
  <2>4. SetupTypeOK'
    BY <1>1, <1>6, <2>1, <2>3 DEF IInv, SetupTypeOK, Readable, Running
  <2>5. CommandOK'
    BY <2>1 DEF CommandOK, Running
  <2>6. OutcomeOK'
    <3>1. CASE command.edited
      BY <2>2, <3>1 DEF OutcomeOK
    <3>2. CASE ~ command.edited /\ Removing
      BY <1>5, <1>6, <1>7, <2>2, <3>2 DEF OutcomeOK
    <3>3. CASE ~ command.edited /\ ~ Removing
      BY <1>1, <1>5, <1>6, <1>7, <1>9, <2>2, <3>3 DEF OutcomeOK
    <3> QED
      BY <3>1, <3>2, <3>3
  <2>7. PluginOK'
    BY <1>1, <1>5, <1>6, <1>7, <2>1 DEF PluginOK
  <2> QED
    BY <1>3, <2>4, <2>5, <2>6, <2>7 DEF IInv
<1> QED
  BY <1>8, <1>9

(* The document is edited between its markers only.                        *)
LEMMA WriteDocIInv ==
    ASSUME IInv, WriteDoc
    PROVE  IInv'
<1> DEFINE new == IF Removing THEN IF doc = Absent THEN Absent ELSE RemoveBlock(doc)
                  ELSE UpsertBlock(LinesOf(doc))
           todo == Tail(command.todo)
<1>1. /\ client \in Clients /\ UNCHANGED <<client, config, companion, torn>>
      /\ Running /\ Step = "doc" /\ command \in Command /\ CommandOK /\ GoOn(todo)
      /\ doc' = new /\ kept' = IF Balanced(doc) THEN kept ELSE [kept EXCEPT !.text = UserText(new)]
  BY DEF IInv, SetupTypeOK, WriteDoc
<1>2. /\ command.op \in {"setup", "uninstall"} /\ command.edited \in BOOLEAN
      /\ outcome = "none" /\ Todo(command.op, command.todo)
      /\ ~ Removing <=> command.op = "setup"
  BY <1>1 DEF Command, CommandOK, Removing
<1>3. /\ client # "opencode"
      /\ ~ Removing => todo = <<>>
      /\ Removing => todo # <<>> /\ Todo(command.op, todo) /\ todo[1] = "companion"
  BY <1>1, <1>2, TodoIs DEF Step
<1> HIDE DEF todo
<1>4. LinesOf(doc) \in Text /\ DocShape(LinesOf(doc)) /\ (doc # Absent => LinesOf(doc) = doc)
  BY OwnFiles, <1>1 DEF IInv, FilesOK, Documents
<1>5. /\ new \in Documents /\ DocShape(LinesOf(new))
      /\ Removing => ~ Ending(LinesOf(new))
      /\ ~ Removing => Ending(LinesOf(new))
      /\ Balanced(doc) => UserText(new) = UserText(doc)
  <2> DEFINE lines == LinesOf(doc)
  <2>1. Balanced(doc) => Balanced(lines)
    <3>1. LinesOf(LinesOf(doc)) = LinesOf(doc)
      BY <1>1, <1>4, OwnFiles
    <3> QED
      BY <3>1 DEF Balanced
  <2>2. CASE ~ Removing
    <3>1. new = UpsertBlock(lines)
      BY <2>2
    <3>2. new \in Text /\ DocShape(new) /\ Ending(new) /\ (Balanced(lines) => Only(new, UserLines) = Only(lines, UserLines))
      BY <1>4, <3>1, UpsertedIs
    <3>3. LinesOf(new) = new
      BY <1>1, <3>2, OwnFiles
    <3> HIDE DEF new, lines
    <3> QED
      BY <2>1, <2>2, <3>2, <3>3 DEF Documents, UserText, lines
  <2>3. CASE Removing /\ doc = Absent
    <3>1. new = Absent /\ ~ Ending(LinesOf(doc))
      BY <1>1, <2>3, OwnFiles
    <3> HIDE DEF new
    <3> QED
      BY <1>4, <2>3, <3>1 DEF Documents
  <2>4. CASE Removing /\ doc # Absent
    <3>1. new = RemoveBlock(lines)
      BY <1>4, <2>4
    <3>2. new \in Text /\ DocShape(new) /\ ~ Ending(new) /\ (Balanced(lines) => Only(new, UserLines) = Only(lines, UserLines))
      BY <1>4, <3>1, RemovedIs
    <3>3. LinesOf(new) = new
      BY <1>1, <3>2, OwnFiles
    <3> HIDE DEF new, lines
    <3> QED
      BY <2>1, <2>4, <3>2, <3>3 DEF Documents, UserText, lines
  <2> QED
    BY <2>2, <2>3, <2>4
<1> HIDE DEF new
<1>6. kept' = [view |-> UserView(Parsed(config)), text |-> UserText(new)]
  <2>1. kept = [view |-> UserView(Parsed(config)), text |-> UserText(doc)]
    BY DEF IInv, FilesOK
  <2> QED
    BY <1>1, <1>5, <2>1
<1>7. FilesOK'
  <2>1. (config \in Files /\ ConfigShape(Parsed(config)))'
    BY <1>1, SameClient DEF IInv, FilesOK
  <2>2. (doc \in Documents /\ DocShape(LinesOf(doc)) /\ (client = "opencode" => doc = Absent))'
    BY <1>1, <1>3, <1>5
  <2>3. (kept = [view |-> UserView(Parsed(config)), text |-> UserText(doc)])'
    BY <1>1, <1>6
  <2> QED
    BY <2>1, <2>2, <2>3 DEF FilesOK
<1>8. /\ ~ command.edited /\ Removing => (Readable(config) => Bare(config))
      /\ ~ command.edited /\ ~ Removing => Readable(config) /\ Whole(config) /\ companion
  BY <1>1, <1>2 DEF CommandOK
<1>9. /\ (Readable(config)' <=> Readable(config)) /\ (Bare(config)' <=> Bare(config))
      /\ (Whole(config)' <=> Whole(config)) /\ (companion' <=> companion)
      /\ (Ending(LinesOf(doc))' <=> Ending(LinesOf(new)))
  BY <1>1, SameClient DEF Readable
<1>10. PluginOK'
  BY <1>1, <1>3 DEF PluginOK
<1>11. (doc # Absent => doc \in Text)'
  BY <1>1, <1>5 DEF Documents
<1>12. CASE Removing
  <2>1. todo \in Seq(Steps) \ {<<>>} /\ todo[1] = "companion" /\ Todo(command.op, todo)
    BY <1>1, <1>2, <1>3, <1>12, TodoIs
  <2>2. /\ command' \in Command /\ command' # NoCommand /\ outcome' = outcome
        /\ command'.todo = todo /\ command'.op = command.op /\ command'.edited = command.edited
    BY <1>1, <2>1, GoneOn
  <2>3. SetupTypeOK'
    BY <1>1, <1>2, <1>11, <2>2 DEF IInv, SetupTypeOK, Readable
  <2>4. Todo(command.op, command.todo)' /\ Step' = "companion" /\ Removing'
    BY <1>1, <1>12, <2>1, <2>2, SameClient DEF Step, Removing
  <2>5. CommandOK'
    BY <1>2, <1>5, <1>8, <1>9, <1>12, <2>2, <2>4 DEF CommandOK
  <2>6. OutcomeOK'
    BY <1>2, <2>2 DEF OutcomeOK
  <2> QED
    BY <1>7, <1>10, <2>3, <2>5, <2>6 DEF IInv
<1>13. CASE ~ Removing
  <2>1. command' = NoCommand /\ outcome' = Ended
    BY <1>1, <1>3, <1>13, GoneOn
  <2>2. outcome' = IF command.edited THEN "none" ELSE "installed"
    BY <1>13, <2>1 DEF Ended
  <2>3. outcome' \in {"none", "installed", "uninstalled", "nothing", "stopped"}
    BY <2>2
  <2>4. SetupTypeOK'
    BY <1>1, <1>11, <2>1, <2>3 DEF IInv, SetupTypeOK, Readable, Running
  <2>5. CommandOK'
    BY <2>1 DEF CommandOK, Running
  <2>6. OutcomeOK'
    BY <1>2, <1>5, <1>8, <1>9, <1>13, <2>2 DEF OutcomeOK
  <2> QED
    BY <1>7, <1>10, <2>4, <2>5, <2>6 DEF IInv
<1> QED
  BY <1>12, <1>13

(* A command that stops leaves its files as they are, or one of them cut.  *)
LEMMA StopIInv ==
    ASSUME IInv, Stop
    PROVE  IInv'
<1>1. /\ client \in Clients /\ UNCHANGED <<client, companion>>
      /\ Running /\ command \in Command /\ CommandOK
      /\ command' = NoCommand /\ outcome' = "stopped"
      /\ kept = [view |-> UserView(Parsed(config)), text |-> UserText(doc)]
      /\ torn \in BOOLEAN /\ companion \in BOOLEAN /\ Removing \in BOOLEAN
  BY DEF IInv, SetupTypeOK, FilesOK, Stop, Removing
<1>2. Todo(command.op, command.todo) /\ command.op \in {"setup", "uninstall"}
  BY <1>1 DEF CommandOK, Command
<1>3. ASSUME FilesOK', torn' \in BOOLEAN, PluginOK' PROVE IInv'
  <2>1. SetupTypeOK'
    <3>1. (Readable(config) => config \in Config)' /\ (doc # Absent => doc \in Text)'
      BY <1>3 DEF FilesOK, Files, Documents, Readable
    <3> QED
      BY <1>1, <1>3, <3>1 DEF SetupTypeOK, Running
  <2> QED
    BY <1>1, <1>3, <2>1 DEF IInv, CommandOK, OutcomeOK, Running
<1>4. CASE torn' = (torn \/ Removing) /\ UNCHANGED <<config, doc, kept>>
  <2>1. FilesOK'
    BY <1>1, <1>4, SameClient DEF IInv, FilesOK
  <2>2. PluginOK'
    BY <1>1, <1>4 DEF IInv, PluginOK, Served, Readable
  <2> QED
    BY <1>1, <1>3, <1>4, <2>1, <2>2
<1>5. CASE /\ Step = "write"
           /\ config' \in {Unparsable} \cup (IF client = "codex" THEN {EmptyConfig} ELSE {})
           /\ kept' = [kept EXCEPT !.view = UserView(EmptyConfig)]
           /\ torn' = TRUE /\ UNCHANGED doc
  <2>1. config' \in Files /\ Parsed(config') = EmptyConfig
    <3>1. Parsed(Unparsable) = EmptyConfig /\ Parsed(EmptyConfig) = EmptyConfig
      BY ParsedIs DEF Parsed, Readable
    <3> QED
      BY <1>5, <3>1, ParsedIs DEF Files
  <2>2. kept' = [view |-> UserView(EmptyConfig), text |-> UserText(doc)]
    BY <1>1, <1>5
  <2>3. ConfigShape(EmptyConfig)'
    BY <1>1, ParsedIs, SameClient
  <2>4. FilesOK'
    BY <1>1, <1>5, <2>1, <2>2, <2>3 DEF IInv, FilesOK
  <2>5. PluginOK'
    BY <1>5 DEF PluginOK
  <2> QED
    BY <1>3, <1>5, <2>4, <2>5
<1>6. CASE /\ Step = "doc" /\ doc' = <<>> /\ kept' = [kept EXCEPT !.text = <<>>]
           /\ torn' = (torn \/ Removing) /\ UNCHANGED config
  <2>1. client # "opencode"
    BY <1>1, <1>2, <1>6, TodoIs DEF Step
  <2> DEFINE none == <<>>
  <2>2. none \in Documents /\ LinesOf(none) = none /\ DocShape(none) /\ UserText(none) = none
    BY <1>1, OwnFiles DEF Documents, UserText
  <2> HIDE DEF none
  <2>3. doc' = none /\ kept' = [kept EXCEPT !.text = none]
    BY <1>6 DEF none
  <2>4. kept' = [view |-> UserView(Parsed(config)), text |-> UserText(none)]
    BY <1>1, <2>2, <2>3
  <2>5. FilesOK'
    BY <1>1, <1>6, <2>1, <2>2, <2>3, <2>4, SameClient DEF IInv, FilesOK
  <2>6. PluginOK'
    BY <1>1, <2>1 DEF PluginOK
  <2> QED
    BY <1>1, <1>3, <1>6, <2>5, <2>6
<1> QED
  BY <1>4, <1>5, <1>6 DEF Stop

(* An edit that leaves the files in their shape.                           *)
LEMMA EditIInv ==
    ASSUME IInv, NEW file \in Files, NEW text \in Documents, Edit(file, text),
           ConfigShape(Parsed(file)), DocShape(LinesOf(text)),
           client = "opencode" => text = Absent /\ (Readable(file) => file = config)
    PROVE  IInv'
<1>1. /\ client \in Clients /\ UNCHANGED <<client, companion>>
      /\ (Running => command \in Command) /\ CommandOK /\ PluginOK
      /\ config' = file /\ doc' = text /\ outcome' = "none" /\ torn' = (torn \/ ~ Readable(file))
      /\ command' = IF Running THEN [command EXCEPT !.edited = TRUE] ELSE command
      /\ kept' = [view |-> UserView(Parsed(file)), text |-> UserText(text)]
      /\ torn \in BOOLEAN
  BY DEF IInv, SetupTypeOK, Edit
<1>2. FilesOK'
  <2>1. ConfigShape(Parsed(config))'
    BY <1>1, SameClient
  <2>2. (doc \in Documents /\ DocShape(LinesOf(doc)) /\ (client = "opencode" => doc = Absent))'
    BY <1>1
  <2>3. (kept = [view |-> UserView(Parsed(config)), text |-> UserText(doc)])'
    BY <1>1
  <2> QED
    BY <1>1, <2>1, <2>2, <2>3 DEF FilesOK
<1>3. OutcomeOK'
  BY <1>1 DEF OutcomeOK
<1>4. (Served \/ torn)' \/ ~ (Served \/ torn) \/ client # "opencode"
  BY <1>1 DEF Served, Readable
<1>5. torn' \in BOOLEAN /\ (Readable(config) => config \in Config)' /\ (doc # Absent => doc \in Text)'
  BY <1>1 DEF Files, Documents, Readable
<1>6. CASE ~ Running
  <2>1. ~ Running'
    BY <1>1, <1>6 DEF Running
  <2>2. SetupTypeOK'
    BY <1>1, <1>5, <2>1 DEF IInv, SetupTypeOK
  <2>3. CommandOK' /\ PluginOK'
    BY <1>1, <1>4, <1>6, <2>1 DEF CommandOK, PluginOK
  <2> QED
    BY <1>2, <1>3, <2>2, <2>3 DEF IInv
<1>7. CASE Running
  <2>1. /\ command' \in Command /\ command'.edited = TRUE /\ command'.op = command.op
        /\ command'.todo = command.todo /\ command'.read = command.read
    BY <1>1, <1>7 DEF Command
  <2>2. Running'
    BY <2>1, FilesAssumption DEF Running
  <2>3. SetupTypeOK'
    BY <1>1, <1>5, <2>1 DEF IInv, SetupTypeOK
  <2>4. Todo(command.op, command.todo)' /\ Step' = Step /\ (Removing' <=> Removing)
    BY <1>1, <1>7, <2>1, SameClient DEF CommandOK, Step, Removing
  <2>5. (Step = "write" => command.read \in Files /\ ConfigShape(Parsed(command.read)))'
    BY <1>1, <1>7, <2>1, <2>4, SameClient DEF CommandOK
  <2>6. client = "opencode" /\ ~ Removing /\ Step = "companion" => Served \/ torn
    BY <1>1, <1>7 DEF CommandOK
  <2>7. CommandOK'
    BY <1>1, <1>4, <2>1, <2>4, <2>5, <2>6 DEF CommandOK
  <2>8. PluginOK'
    BY <1>1, <1>4, <1>7, <2>2, <2>4 DEF PluginOK
  <2> QED
    BY <1>2, <1>3, <2>3, <2>7, <2>8 DEF IInv
<1> QED
  BY <1>6, <1>7

(* Every edit that a user makes keeps the shape of the files.              *)
LEMMA UserStepIInv ==
    ASSUME IInv, UserStep
    PROVE  IInv'
<1>1. /\ client \in Clients
      /\ config \in Files /\ ConfigShape(Parsed(config))
      /\ doc \in Documents /\ DocShape(LinesOf(doc)) /\ (client = "opencode" => doc = Absent)
  BY DEF IInv, SetupTypeOK, FilesOK
<1>2. CASE AddHook
  <2>1. /\ Readable(config) /\ client # "opencode"
        /\ config \in Config /\ ConfigShape(config)
    BY <1>1, <1>2, ParsedIs DEF AddHook, Files, Readable
  <2>2. ASSUME NEW file, file \in Config, ConfigShape(file), Edit(file, doc) PROVE IInv'
    <3>1. file \in Files /\ Parsed(file) = file
      BY <2>2, ParsedIs DEF Files
    <3> QED
      BY <1>1, <2>1, <2>2, <3>1, EditIInv
  <2>3. PICK h \in UserHooks :
            \/ \E i \in DOMAIN config.pre : Edit([config EXCEPT !.pre[i].hooks = Append(@, h)], doc)
            \/ \E i \in DOMAIN config.post : Edit([config EXCEPT !.post[i] = <<h>> \o @], doc)
    BY <1>2 DEF AddHook
  <2>4. ASSUME NEW i \in DOMAIN config.pre, Edit([config EXCEPT !.pre[i].hooks = Append(@, h)], doc)
        PROVE  IInv'
    <3> DEFINE new == [config EXCEPT !.pre[i].hooks = Append(@, h)]
    <3>1. new \in Config /\ ConfigShape(new)
      BY <1>1, <2>1, PreHookAdded
    <3>2. Edit(new, doc)
      BY <2>4
    <3> HIDE DEF new
    <3> QED
      BY <2>2, <3>1, <3>2
  <2>5. ASSUME NEW i \in DOMAIN config.post, Edit([config EXCEPT !.post[i] = <<h>> \o @], doc)
        PROVE  IInv'
    <3> DEFINE new == [config EXCEPT !.post[i] = <<h>> \o @]
    <3>1. new \in Config /\ ConfigShape(new)
      BY <1>1, <2>1, PostHookAdded
    <3>2. Edit(new, doc)
      BY <2>5
    <3> HIDE DEF new
    <3> QED
      BY <2>2, <3>1, <3>2
  <2> QED
    BY <2>3, <2>4, <2>5
<1>3. CASE InlineHooks
  <2>1. Readable(config) /\ client = "codex" /\ config \in Config /\ ConfigShape(config)
    BY <1>1, <1>3, ParsedIs DEF InlineHooks, Files, Readable
  <2>2. PICK form \in Forms({config.pre[i].matcher : i \in DOMAIN config.pre}) :
            Edit([config EXCEPT !.opaque = @ \cup form], doc)
    BY <1>3 DEF InlineHooks
  <2> DEFINE new == [config EXCEPT !.opaque = @ \cup form]
  <2>3. form \in SUBSET (ToSet(Matchers) \cup {PostCompact})
    BY FormsAre
  <2>4. /\ new.server = config.server /\ new.pre = config.pre /\ new.post = config.post
        /\ new.opaque = config.opaque \cup form /\ new \in Config
    BY <2>1, <2>3 DEF Config
  <2>5. Edit(new, doc)
    BY <2>2
  <2> HIDE DEF new
  <2>6. ConfigShape(new)
    BY <2>1, <2>4 DEF ConfigShape
  <2>7. new \in Files /\ Parsed(new) = new
    BY <2>4, ParsedIs DEF Files
  <2> QED
    BY <1>1, <2>1, <2>5, <2>6, <2>7, EditIInv
<1>4. Parsed(Unparsable) = EmptyConfig /\ Parsed(Absent) = EmptyConfig /\ ConfigShape(EmptyConfig)
      /\ ~ Readable(Unparsable) /\ ~ Readable(Absent) /\ Unparsable \in Files /\ Absent \in Files
  BY ParsedIs DEF Parsed, Readable, Files
<1>5. CASE BreakConfig
  BY <1>1, <1>4, <1>5, EditIInv DEF BreakConfig
<1>6. CASE DeleteConfig
  BY <1>1, <1>4, <1>6, EditIInv DEF DeleteConfig
<1>7. CASE EditDoc
  <2>1. doc # Absent /\ doc \in Text /\ LinesOf(doc) = doc /\ DocShape(doc) /\ client # "opencode"
    BY <1>1, <1>7, OwnFiles DEF EditDoc, Documents
  <2>2. ASSUME NEW text, text \in Text, DocShape(text), Edit(config, text) PROVE IInv'
    <3>1. text \in Documents /\ LinesOf(text) = text
      BY <1>1, <2>2, OwnFiles DEF Documents
    <3> QED
      BY <1>1, <2>1, <2>2, <3>1, EditIInv
  <2>3. CASE \E l \in UserLines : Edit(config, Append(doc, l))
    BY <2>1, <2>2, <2>3, DocEdited
  <2>4. CASE \E i \in DOMAIN doc : doc[i] = End /\ Edit(config, RemoveAt(doc, i))
    BY <2>1, <2>2, <2>4, DocEdited
  <2> QED
    BY <1>7, <2>3, <2>4 DEF EditDoc
<1> QED
  BY <1>2, <1>5, <1>6, <1>7, <1>3 DEF UserStep

(* A call reads the config and changes nothing of it.                      *)
LEMMA NextIInv ==
    ASSUME IInv, [Next]_vars
    PROVE  IInv'
<1>1. CASE UNCHANGED setupVars
  <2>1. UNCHANGED <<client, config, companion, doc, command, outcome, torn, kept, budget>>
    BY <1>1 DEF setupVars
  <2>2. SetupTypeOK'
    BY <2>1 DEF IInv, SetupTypeOK, Readable, Running
  <2>3. FilesOK'
    BY <2>1, SameClient DEF IInv, FilesOK
  <2>4. /\ (Readable(config)' <=> Readable(config)) /\ (Bare(config)' <=> Bare(config))
        /\ (Whole(config)' <=> Whole(config)) /\ (Served' <=> Served)
        /\ (Ending(LinesOf(doc))' <=> Ending(LinesOf(doc))) /\ (Running' <=> Running)
    BY <2>1, SameClient DEF Served, Readable, Running
  <2>5. Step' = Step /\ (Removing' <=> Removing)
    BY <2>1 DEF Step, Removing
  <2>6. /\ Todo(command.op, command.todo)' <=> Todo(command.op, command.todo)
        /\ ConfigShape(Parsed(command.read))' <=> ConfigShape(Parsed(command.read))
    BY <2>1, SameClient
  <2>7. CommandOK'
    BY <2>1, <2>4, <2>5, <2>6 DEF IInv, CommandOK
  <2>8. OutcomeOK' /\ PluginOK'
    BY <2>1, <2>4, <2>5 DEF IInv, OutcomeOK, PluginOK
  <2> QED
    BY <2>2, <2>3, <2>7, <2>8 DEF IInv
<1>2. CASE SetupNext
  BY <1>2, BeginIInv, ReadConfigIInv, WriteConfigIInv, WriteCompanionIInv, WriteDocIInv, StopIInv, UserStepIInv
  DEF SetupNext, SetupStep
<1> QED
  BY <1>1, <1>2 DEF Next, Ask, Done, vars

(* In every reachable state setup's files, commands and outcomes are what  *)
(* the invariant says.                                                     *)
THEOREM SetupInvariant == Spec => []IInv
<1>1. Init => IInv
  BY InitIInv DEF Init
<1>2. IInv /\ [Next]_vars => IInv'
  BY NextIInv
<1> QED
  BY <1>1, <1>2, PTL DEF Spec

-----------------------------------------------------------------------------
(* What setup promises                                                     *)

(* The files, the command and the call are of their kinds in every         *)
(* reachable state.                                                        *)
THEOREM AgentCallsTypeOK == Spec => []TypeOK
<1> DEFINE CallOK == call # NoCall => call \in Calls
<1>1. Init => CallOK
  BY DEF Init
<1>2. CallOK /\ [Next]_vars => CallOK'
  <2> SUFFICES ASSUME CallOK, [Next]_vars PROVE CallOK'
    OBVIOUS
  <2>1. Calls' = Calls
    BY DEF Calls
  <2> QED
    BY <2>1 DEF Next, Ask, Done, vars
<1>3. IInv /\ CallOK => TypeOK
  BY DEF IInv, TypeOK
<1> HIDE DEF CallOK
<1> QED
  BY <1>1, <1>2, <1>3, SetupInvariant, PTL DEF Spec

(* Setups and uninstalls, of whatever binaries and however often, leave    *)
(* the user's hooks and lines in the config and the document as they were, *)
(* but for the losses that UserEntriesSurvive names.                       *)
THEOREM SetupUserEntriesSurvive == Spec => []UserEntriesSurvive
<1>1. IInv => UserEntriesSurvive
  <2> SUFFICES ASSUME IInv PROVE UserEntriesSurvive
    OBVIOUS
  <2>1. kept.view = UserView(Parsed(config)) /\ kept.text = UserText(doc) /\ config \in Files
    BY DEF IInv, FilesOK
  <2>2. Readable(config) => Parsed(config) = config
    BY <2>1, ParsedIs DEF Files
  <2> QED
    BY <2>1, <2>2 DEF UserEntriesSurvive
<1> QED
  BY <1>1, SetupInvariant, PTL

(* A setup that says it is complete has written all that it should, once,  *)
(* and an uninstall that ends has left nothing of so-context's, wherever   *)
(* the installers could look: hooks in a form they pass over are excepted. *)
THEOREM SetupCommandsDoTheirWork == Spec => []CommandsDoTheirWork
<1>1. IInv => CommandsDoTheirWork
  <2> SUFFICES ASSUME IInv PROVE CommandsDoTheirWork
    OBVIOUS
  <2>1. client \in Clients /\ doc \in Documents /\ DocShape(LinesOf(doc)) /\ OutcomeOK
    BY DEF IInv, SetupTypeOK, FilesOK
  <2>2. doc # Absent => doc \in Text /\ LinesOf(doc) = doc
    BY <2>1, OwnFiles DEF Documents
  <2>3. LinesOf(Absent) = <<>> /\ ~ Ending(<<>>) /\ ToSet(<<>>) \subseteq UserLines
    BY <2>1, OwnFiles DEF ToSet
  <2>4. SetupIsWhole
    <3> SUFFICES ASSUME outcome = "installed"
                 PROVE  /\ Readable(config) /\ Whole(config) /\ companion
                        /\ client # "opencode" /\ Balanced(doc) =>
                              \E i \in DOMAIN doc : \A j \in DOMAIN doc : doc[j] = Start <=> j = i
      BY DEF SetupIsWhole
    <3>1. Readable(config) /\ Whole(config) /\ companion /\ (client # "opencode" => Ending(LinesOf(doc)))
      BY <2>1 DEF OutcomeOK
    <3>2. ASSUME client # "opencode", Balanced(doc)
          PROVE  \E i \in DOMAIN doc : \A j \in DOMAIN doc : doc[j] = Start <=> j = i
      <4>1. doc \in Text /\ LinesOf(doc) = doc /\ Ending(doc)
        BY <2>2, <2>3, <3>1, <3>2
      <4> QED
        BY <2>1, <3>2, <4>1, DocEnds
    <3> QED
      BY <3>1, <3>2
  <2>5. UninstallRemovesAll
    <3> SUFFICES ASSUME outcome = "uninstalled", Readable(config)
                 PROVE  Bare(config) /\ ~ companion /\ (Balanced(doc) => ToSet(LinesOf(doc)) \subseteq UserLines)
      BY DEF UninstallRemovesAll
    <3>1. Bare(config) /\ ~ companion /\ ~ Ending(LinesOf(doc))
      BY <2>1 DEF OutcomeOK
    <3>2. ASSUME Balanced(doc) PROVE ToSet(LinesOf(doc)) \subseteq UserLines
      <4>1. CASE doc = Absent
        BY <2>3, <4>1
      <4>2. CASE doc # Absent
        BY <2>1, <2>2, <3>1, <3>2, <4>2, DocEnds
      <4> QED
        BY <4>1, <4>2
    <3> QED
      BY <3>1, <3>2
  <2> QED
    BY <2>4, <2>5 DEF CommandsDoTheirWork
<1> QED
  BY <1>1, SetupInvariant, PTL

(* Whatever was stopped in between, a client that denies native tools has  *)
(* the server whose tools it points to, unless all that denies is out of   *)
(* uninstall's reach.                                                      *)
THEOREM SetupDenialsHaveATool == Spec => []DenialsHaveATool
<1>1. IInv => DenialsHaveATool
  <2> SUFFICES ASSUME IInv, Routed, client # "opencode" => config.server = NoBinary
               PROVE  \/ client = "opencode" /\ (Served \/ torn \/ (Running /\ Removing))
                      \/ client # "opencode" /\ OutOfReach(config)
    BY DEF DenialsHaveATool, Served, Routed
  <2>1. CASE client = "opencode"
    BY <2>1 DEF IInv, PluginOK, Routed
  <2>2. CASE client # "opencode"
    <3>1. Readable(config) /\ config.server = NoBinary
      BY <2>2 DEF Routed
    <3>2. ConfigShape(config)
      BY <3>1, ParsedIs DEF IInv, FilesOK, Files
    <3>3. \A i \in DOMAIN config.pre : OursAt(config.pre, i) => config.pre[i].matcher \in config.opaque
      BY <3>1, <3>2 DEF ConfigShape
    <3> QED
      BY <2>2, <3>3 DEF OutOfReach, OursAt, ToSet, IsSoContext
  <2> QED
    BY <2>1, <2>2
<1> QED
  BY <1>1, SetupInvariant, PTL

-----------------------------------------------------------------------------
(* A command line                                                          *)

Chunk == STRING \cup {Escape, "env"}    \* strings both: no backend knows that a literal is one
ParseStates ==
    [words : Seq(Seq(Chunk)), word : Seq(Chunk), quote : {Unquoted} \cup Quotes, escaped : BOOLEAN, simple : BOOLEAN]
ShellStates ==
    [words : Seq(Seq(Chunk)), word : Seq(Chunk), open : BOOLEAN, quote : {Unquoted} \cup Quotes,
     escaped : BOOLEAN, quoted : BOOLEAN, plain : BOOLEAN, kept : BOOLEAN]
Full(words) == \A i \in DOMAIN words : words[i] # <<>>

(* The special characters differ.                                          *)
LEMMA Characters ==
    /\ Quotes = {Single, Double} /\ Single # Unquoted /\ Double # Unquoted /\ Single # Double
    /\ Escape # Blank /\ Escape \notin Quotes /\ Escape # "env"
    /\ Blank \notin Quotes
    /\ \A ch : ch \in Expanding => ch \in Operators
    /\ EscapedInDouble = Expanding \cup {Double, Escape}
    /\ \A ch \in Operators \cup Breaks \cup Globbing : ch \notin Quotes /\ ch # Escape /\ ch # Blank
<1>1. Single # Unquoted /\ Double # Unquoted /\ Single # Double
  BY DEF Single, Double, Unquoted
<1>2. Escape # Blank /\ Escape # "env" /\ Escape # Single /\ Escape # Double /\ Blank # Single /\ Blank # Double
  BY DEF Escape, Blank, Single, Double
<1>3. \A ch : ch \in Expanding => ch \in Operators
  BY Zenon DEF Operators
<1>4. Quotes = {Single, Double} /\ EscapedInDouble = Expanding \cup {Double, Escape}
  BY Zenon DEF Quotes, EscapedInDouble
<1>5. \A ch \in Globbing : ch \notin Quotes /\ ch # Escape /\ ch # Blank
  BY CharactersAssumption, Zenon
<1>6. \A ch \in Operators \cup Breaks : ch # Single /\ ch # Double /\ ch # Escape /\ ch # Blank
  BY Zenon DEF Operators, Expanding, Breaks, Single, Double, Escape, Blank
<1> QED
  BY <1>1, <1>2, <1>3, <1>4, <1>5, <1>6

(* Words of which some are empty stay so with more.                        *)
LEMMA FullAppend ==
    ASSUME NEW words \in Seq(Seq(Chunk)), NEW word \in Seq(Chunk)
    PROVE  /\ Append(words, word) \in Seq(Seq(Chunk))
           /\ Full(Append(words, word)) => Full(words) /\ word # <<>>
<1> DEFINE W == Seq(Chunk)
           more == Append(words, word)
<1> HIDE DEF W
<1>1. words \in Seq(W) /\ word \in W
  BY DEF W
<1>2. /\ more \in Seq(W) /\ Len(more) = Len(words) + 1 /\ more[Len(words) + 1] = word
      /\ \A i \in 1 .. Len(words) : more[i] = words[i]
  BY <1>1, AppendProperties
<1>3. Len(words) \in Nat /\ DOMAIN words = 1 .. Len(words) /\ DOMAIN more = 1 .. Len(words) + 1
  BY <1>1, <1>2, LenProperties
<1> HIDE DEF more
<1>4. Len(words) + 1 \in DOMAIN more /\ \A i \in DOMAIN words : i \in DOMAIN more
  BY <1>3
<1> QED
  BY <1>2, <1>3, <1>4 DEF W, Full, more

(* What the shell's steps make of a state is a state: a character in a     *)
(* word,                                                                   *)
LEMMA WordIs ==
    ASSUME NEW s \in ShellStates, NEW ch \in Chunk, NEW quoted \in BOOLEAN
    PROVE  LET new == Word(s, ch, quoted)
           IN  /\ new \in ShellStates /\ new.words = s.words /\ new.word = Append(s.word, ch)
               /\ new.quote = s.quote /\ new.open /\ ~ new.escaped /\ new.kept = s.kept
               /\ new.plain => s.plain
<1> DEFINE more == Append(s.word, ch)
           any == s.quoted \/ quoted
           plain == s.plain /\ ~ ((quoted \/ s.quoted) /\ ch \in Assigning)
<1>1. more \in Seq(Chunk) /\ plain \in BOOLEAN /\ any \in BOOLEAN
  BY DEF ShellStates
<1>2. Word(s, ch, quoted) =
          [s EXCEPT !.word = more, !.open = TRUE, !.escaped = FALSE, !.quoted = any, !.plain = plain]
  BY DEF Word
<1> HIDE DEF more
<1>3. Word(s, ch, quoted) \in ShellStates
  BY <1>1, <1>2 DEF ShellStates
<1> QED
  BY <1>2, <1>3 DEF ShellStates, more

(* and the end of a word.                                                  *)
LEMMA EndWordIs ==
    ASSUME NEW s \in ShellStates
    PROVE  LET new == EndWord(s)
           IN  /\ new \in ShellStates
               /\ new.quote = s.quote /\ new.escaped = s.escaped /\ new.kept = s.kept /\ new.plain = s.plain
               /\ s.open => new.words = Append(s.words, s.word) /\ new.word = <<>> /\ ~ new.open
               /\ ~ s.open => new = s
               /\ Full(new.words) => Full(s.words) /\ (s.open => s.word # <<>>)
<1>1. CASE ~ s.open
  BY <1>1 DEF EndWord
<1>2. CASE s.open
  <2> DEFINE more == Append(s.words, s.word)
             none == <<>>
  <2>1. more \in Seq(Seq(Chunk)) /\ none \in Seq(Chunk) /\ (Full(more) => Full(s.words) /\ s.word # <<>>)
    BY FullAppend DEF ShellStates
  <2>2. EndWord(s) = [s EXCEPT !.words = more, !.word = none, !.open = FALSE, !.quoted = FALSE]
    BY <1>2 DEF EndWord
  <2> HIDE DEF more, none
  <2>3. EndWord(s) \in ShellStates
    BY <2>1, <2>2 DEF ShellStates
  <2> QED
    BY <1>2, <2>1, <2>2, <2>3 DEF ShellStates, more, none
<1> QED
  BY <1>1, <1>2

(* The same of the parser: a character in a word,                          *)
LEMMA PushIs ==
    ASSUME NEW p \in ParseStates, NEW ch \in Chunk
    PROVE  LET new == Push(p, ch)
           IN  /\ new \in ParseStates /\ new.words = p.words /\ new.word = Append(p.word, ch)
               /\ new.quote = p.quote /\ ~ new.escaped /\ new.simple = p.simple
<1> DEFINE more == Append(p.word, ch)
<1>1. more \in Seq(Chunk)
  BY DEF ParseStates
<1>2. Push(p, ch) = [p EXCEPT !.word = more, !.escaped = FALSE]
  BY DEF Push
<1> HIDE DEF more
<1> QED
  BY <1>1, <1>2 DEF ParseStates, more

(* the end of a word,                                                      *)
LEMMA FlushIs ==
    ASSUME NEW p \in ParseStates
    PROVE  LET new == Flush(p)
           IN  /\ new \in ParseStates
               /\ new.quote = p.quote /\ new.escaped = p.escaped /\ new.simple = p.simple
               /\ p.word # <<>> => new.words = Append(p.words, p.word) /\ new.word = <<>>
               /\ p.word = <<>> => new = p
<1>1. CASE p.word = <<>>
  BY <1>1 DEF Flush
<1>2. CASE p.word # <<>>
  <2> DEFINE more == Append(p.words, p.word)
             none == <<>>
  <2>1. more \in Seq(Seq(Chunk)) /\ none \in Seq(Chunk)
    BY FullAppend DEF ParseStates
  <2>2. Flush(p) = [p EXCEPT !.words = more, !.word = none]
    BY <1>2 DEF Flush
  <2> HIDE DEF more, none
  <2>3. Flush(p) \in ParseStates
    BY <2>1, <2>2 DEF ParseStates
  <2> QED
    BY <1>2, <2>1, <2>2, <2>3 DEF ParseStates, more, none
<1> QED
  BY <1>1, <1>2

(* A turn keeps what was read: a line that has once not been plain or      *)
(* simple, or has lost a backslash or a word, stays so.                    *)
LEMMA ShellCharIs ==
    ASSUME NEW s \in ShellStates, NEW ch \in Chunk
    PROVE  LET new == ShellChar(s, ch)
           IN  /\ new \in ShellStates
               /\ new.plain => s.plain
               /\ s.kept => new.kept
               /\ Full(new.words) => Full(s.words)
<1> DEFINE new == ShellChar(s, ch)
           Fine(t) == /\ t \in ShellStates /\ (t.plain => s.plain) /\ (s.kept => t.kept)
                      /\ (Full(t.words) => Full(s.words))
<1>1. /\ Escape \in Chunk /\ TRUE \in BOOLEAN /\ FALSE \in BOOLEAN
  BY DEF Chunk
<1>2. Fine(Word(s, ch, TRUE)) /\ Fine(Word(s, ch, FALSE)) /\ Fine(EndWord(s))
  <2>1. \A quoted \in BOOLEAN : Fine(Word(s, ch, quoted))
    <3> TAKE quoted \in BOOLEAN
    <3> DEFINE one == Word(s, ch, quoted)
    <3>1. one \in ShellStates /\ one.words = s.words /\ (one.plain => s.plain) /\ one.kept = s.kept
      BY WordIs
    <3> HIDE DEF one
    <3>2. Fine(one)
      BY <3>1
    <3> QED
      BY <3>2 DEF one
  <2>2. Fine(EndWord(s))
    <3> DEFINE one == EndWord(s)
    <3>1. one \in ShellStates /\ one.plain = s.plain /\ one.kept = s.kept /\ (Full(one.words) => Full(s.words))
      BY EndWordIs
    <3> HIDE DEF one
    <3>2. Fine(one)
      BY <3>1
    <3> QED
      BY <3>2 DEF one
  <2> HIDE DEF Fine
  <2> QED
    BY <1>1, <2>1, <2>2
<1>3. Fine([Word(Word(s, Escape, TRUE), ch, TRUE) EXCEPT !.kept = TRUE])
  <2> DEFINE one == Word(s, Escape, TRUE)
             two == Word(one, ch, TRUE)
             three == [two EXCEPT !.kept = TRUE]
  <2>1. one \in ShellStates /\ one.words = s.words /\ (one.plain => s.plain)
    BY <1>1, WordIs
  <2> HIDE DEF one
  <2>2. two \in ShellStates /\ two.words = one.words /\ (two.plain => one.plain)
    BY <1>1, <2>1, WordIs
  <2> HIDE DEF two
  <2>3. three \in ShellStates /\ three.words = two.words /\ three.plain = two.plain /\ three.kept
    BY <2>2 DEF ShellStates
  <2> HIDE DEF three
  <2>4. Fine(three)
    BY <2>1, <2>2, <2>3
  <2> QED
    BY <2>4 DEF three, two, one
<1>4. /\ Fine([s EXCEPT !.quote = Unquoted]) /\ Fine([s EXCEPT !.escaped = TRUE]) /\ Fine([s EXCEPT !.plain = FALSE])
      /\ ch \in Quotes => Fine([s EXCEPT !.quote = ch, !.open = TRUE, !.quoted = TRUE])
  BY DEF ShellStates
<1> HIDE DEF Fine
<1>5. Fine(new)
  BY <1>2, <1>3, <1>4 DEF ShellChar
<1> QED
  BY <1>5 DEF Fine

(* and any character.                                                      *)
LEMMA ParseCharIs ==
    ASSUME NEW p \in ParseStates, NEW ch \in Chunk
    PROVE  ParseChar(p, ch) \in ParseStates
<1>1. Push(p, ch) \in ParseStates /\ Flush(p) \in ParseStates
  BY PushIs, FlushIs
<1>2. /\ [p EXCEPT !.quote = Unquoted] \in ParseStates /\ [p EXCEPT !.escaped = TRUE] \in ParseStates
      /\ [p EXCEPT !.simple = FALSE] \in ParseStates
      /\ ch \in Quotes => [p EXCEPT !.quote = ch] \in ParseStates
  BY DEF ParseStates
<1> QED
  BY <1>1, <1>2 DEF ParseChar

(* What the parser has read is what the shell has.                         *)
Sim(s, p) ==
    /\ p.words = s.words /\ p.word = s.word /\ p.quote = s.quote /\ p.escaped = s.escaped
    /\ s.word # <<>> => s.open
    /\ s.escaped => s.quote # Single

(* As long as nothing that a shell expands is in the line, and no word is  *)
(* empty and no backslash kept, a turn of the parser reads what the shell  *)
(* does.                                                                   *)
LEMMA TurnsAlike ==
    ASSUME NEW s \in ShellStates, NEW p \in ParseStates, NEW ch \in Chunk, Sim(s, p),
           ShellChar(s, ch).plain, ~ ShellChar(s, ch).kept, Full(ShellChar(s, ch).words)
    PROVE  Sim(ShellChar(s, ch), ParseChar(p, ch))
<1> DEFINE t == ShellChar(s, ch)
           q == ParseChar(p, ch)
           Same(x, y) == x = y
<1>1. \A x : Same(x, x)
  OBVIOUS
<1> HIDE DEF Same
<1>2. /\ p.words = s.words /\ p.word = s.word /\ p.quote = s.quote /\ p.escaped = s.escaped
      /\ s.word # <<>> => s.open
      /\ s.escaped => s.quote # Single
      /\ s.quote \in {Unquoted, Single, Double} /\ s.escaped \in BOOLEAN
      /\ s.word \in Seq(Chunk) /\ s.open \in BOOLEAN
  BY Characters DEF Sim, ShellStates
<1>3. ASSUME NEW quoted \in BOOLEAN PROVE Sim(Word(s, ch, quoted), Push(p, ch))
  <2> DEFINE one == Word(s, ch, quoted)
             two == Push(p, ch)
  <2>1. /\ one.words = s.words /\ one.word = Append(s.word, ch) /\ one.quote = s.quote /\ one.open /\ ~ one.escaped
        /\ one \in ShellStates
    BY WordIs
  <2>2. /\ two.words = p.words /\ two.word = Append(p.word, ch) /\ two.quote = p.quote /\ ~ two.escaped
        /\ two \in ParseStates
    BY PushIs
  <2> HIDE DEF one, two
  <2>3. one.escaped = FALSE /\ two.escaped = FALSE
    BY <2>1, <2>2 DEF ShellStates, ParseStates
  <2>4. Sim(one, two)
    BY <1>2, <2>1, <2>2, <2>3 DEF Sim
  <2> QED
    BY <2>4 DEF one, two
<1>4. ASSUME Full(EndWord(s).words), ~ s.escaped PROVE Sim(EndWord(s), Flush(p))
  <2> DEFINE one == EndWord(s)
             two == Flush(p)
  <2>1. /\ one.quote = s.quote /\ one.escaped = s.escaped
        /\ s.open => one.words = Append(s.words, s.word) /\ one.word = <<>> /\ s.word # <<>>
        /\ ~ s.open => one = s
    BY <1>4, EndWordIs
  <2>2. /\ two.quote = p.quote /\ two.escaped = p.escaped
        /\ p.word # <<>> => two.words = Append(p.words, p.word) /\ two.word = <<>>
        /\ p.word = <<>> => two = p
    BY FlushIs
  <2> HIDE DEF one, two
  <2>3. CASE s.open
    <3>1. one.words = two.words /\ one.word = two.word /\ one.word = <<>>
      BY <1>2, <2>1, <2>2, <2>3
    <3>2. one.quote = two.quote /\ one.escaped = two.escaped /\ ~ one.escaped
      BY <1>2, <1>4, <2>1, <2>2
    <3>3. Sim(one, two)
      BY <3>1, <3>2 DEF Sim
    <3> QED
      BY <3>3 DEF one, two
  <2>4. CASE ~ s.open
    <3>1. one = s /\ two = p
      BY <1>2, <2>1, <2>2, <2>4
    <3>2. Sim(one, two)
      BY <1>2, <3>1 DEF Sim
    <3> QED
      BY <3>2 DEF one, two
  <2> QED
    BY <2>3, <2>4
<1>5. ASSUME NEW quote PROVE Sim([s EXCEPT !.quote = Unquoted], [p EXCEPT !.quote = Unquoted])
  BY <1>2, Characters DEF Sim, ShellStates, ParseStates
<1>6. ASSUME ~ s.escaped, ch \in Quotes PROVE Sim([s EXCEPT !.quote = ch, !.open = TRUE, !.quoted = TRUE], [p EXCEPT !.quote = ch])
  BY <1>2, <1>6 DEF Sim, ShellStates, ParseStates
<1>7. ASSUME s.quote # Single PROVE Sim([s EXCEPT !.escaped = TRUE], [p EXCEPT !.escaped = TRUE])
  BY <1>2, <1>7 DEF Sim, ShellStates, ParseStates
<1>8. ~ [s EXCEPT !.plain = FALSE].plain /\ [Word(Word(s, Escape, TRUE), ch, TRUE) EXCEPT !.kept = TRUE].kept
  <2> DEFINE one == Word(s, Escape, TRUE)
             two == Word(one, ch, TRUE)
  <2>1. Escape \in Chunk /\ TRUE \in BOOLEAN
    BY DEF Chunk
  <2>2. one \in ShellStates
    BY <2>1, WordIs
  <2> HIDE DEF one
  <2>3. two \in ShellStates
    BY <2>1, <2>2, WordIs
  <2> HIDE DEF two
  <2>4. [two EXCEPT !.kept = TRUE].kept
    BY <2>3 DEF ShellStates
  <2> QED
    BY <2>4 DEF ShellStates, one, two
<1>9. CASE s.escaped
  <2>1. CASE s.quote = Double /\ ch \notin EscapedInDouble
    <3>1. Same(t, [Word(Word(s, Escape, TRUE), ch, TRUE) EXCEPT !.kept = TRUE])
      BY <1>1, Characters, <1>9, <2>1 DEF ShellChar
    <3> QED
      BY <1>8, <3>1 DEF Same
  <2>2. CASE ~ (s.quote = Double /\ ch \notin EscapedInDouble)
    <3>1. s.quote = Unquoted \/ ch \in EscapedInDouble
      BY <1>2, <1>9, <2>2
    <3>2. Same(t, Word(s, ch, TRUE))
      BY <1>1, Characters, <1>9, <2>2, <3>1 DEF ShellChar
    <3>3. Same(q, Push(p, ch))
      BY <1>1, Characters, <1>2, <1>9 DEF ParseChar
    <3> QED
      BY <1>3, <3>2, <3>3 DEF Same
  <2> QED
    BY <2>1, <2>2
<1>10. CASE ~ s.escaped /\ s.quote # Unquoted
  <2>1. CASE ch = s.quote
    <3>1. Same(t, [s EXCEPT !.quote = Unquoted])
      BY <1>1, Characters, <1>2, <1>10, <2>1 DEF ShellChar
    <3>2. Same(q, [p EXCEPT !.quote = Unquoted])
      BY <1>1, Characters, <1>2, <1>10, <2>1 DEF ParseChar
    <3> QED
      BY <1>5, <3>1, <3>2 DEF Same
  <2>2. CASE ch # s.quote /\ s.quote = Double /\ ch = Escape
    <3>1. Same(t, [s EXCEPT !.escaped = TRUE])
      BY <1>1, Characters, <1>2, <1>10, <2>2 DEF ShellChar
    <3>2. Same(q, [p EXCEPT !.escaped = TRUE])
      BY <1>1, Characters, <1>2, <1>10, <2>2 DEF ParseChar
    <3> QED
      BY <1>7, <2>2, <3>1, <3>2, Characters DEF Same
  <2>3. CASE ch # s.quote /\ s.quote = Double /\ ch # Escape /\ ch \in Expanding
    <3>1. Same(t, [s EXCEPT !.plain = FALSE])
      BY <1>1, Characters, <1>10, <2>3 DEF ShellChar
    <3> QED
      BY <1>8, <3>1 DEF Same
  <2>4. CASE ch # s.quote /\ ~ (s.quote = Double /\ (ch = Escape \/ ch \in Expanding))
    <3>1. Same(t, Word(s, ch, TRUE))
      BY <1>1, Characters, <1>2, <1>10, <2>4 DEF ShellChar
    <3>2. Same(q, Push(p, ch))
      BY <1>1, Characters, <1>2, <1>10, <2>4 DEF ParseChar
    <3> QED
      BY <1>3, <3>1, <3>2 DEF Same
  <2> QED
    BY <2>1, <2>2, <2>3, <2>4
<1>11. CASE ~ s.escaped /\ s.quote = Unquoted
  <2>1. CASE ch \in Quotes
    <3>1. Same(t, [s EXCEPT !.quote = ch, !.open = TRUE, !.quoted = TRUE])
      BY <1>1, Characters, <1>2, <1>11, <2>1 DEF ShellChar
    <3>2. Same(q, [p EXCEPT !.quote = ch])
      BY <1>1, Characters, <1>2, <1>11, <2>1 DEF ParseChar
    <3> QED
      BY <1>6, <1>11, <2>1, <3>1, <3>2 DEF Same
  <2>2. CASE ch \notin Quotes /\ ch = Escape
    <3>1. Same(t, [s EXCEPT !.escaped = TRUE])
      BY <1>1, Characters, <1>2, <1>11, <2>2 DEF ShellChar
    <3>2. Same(q, [p EXCEPT !.escaped = TRUE])
      BY <1>1, Characters, <1>2, <1>11, <2>2 DEF ParseChar
    <3> QED
      BY <1>7, <1>11, <3>1, <3>2, Characters DEF Same
  <2>3. CASE ch \notin Quotes /\ ch # Escape /\ ch = Blank
    <3>1. Same(t, EndWord(s))
      BY <1>1, Characters, <1>2, <1>11, <2>3 DEF ShellChar
    <3>2. Same(q, Flush(p))
      BY <1>1, Characters, <1>2, <1>11, <2>3 DEF ParseChar
    <3> QED
      BY <1>4, <1>11, <3>1, <3>2 DEF Same
  <2>4. CASE ch \notin Quotes /\ ch # Escape /\ ch # Blank /\ ch \in Operators \cup Breaks \cup Globbing
    <3>1. Same(t, [s EXCEPT !.plain = FALSE])
      BY <1>1, Characters, <1>11, <2>4 DEF ShellChar
    <3> QED
      BY <1>8, <3>1 DEF Same
  <2>5. CASE ch \notin Quotes /\ ch # Escape /\ ch # Blank /\ ch \notin Operators \cup Breaks \cup Globbing
    <3>1. Same(t, Word(s, ch, FALSE))
      BY <1>1, Characters, <1>2, <1>11, <2>5 DEF ShellChar
    <3>2. Same(q, Push(p, ch))
      BY <1>1, Characters, <1>2, <1>11, <2>5 DEF ParseChar
    <3> QED
      BY <1>3, <3>1, <3>2 DEF Same
  <2> QED
    BY <2>1, <2>2, <2>3, <2>4, <2>5
<1> QED
  BY <1>9, <1>10, <1>11

(* The states a shell goes through along a line, and what it ends with.    *)
ShellStart ==
    [words |-> <<>>, word |-> <<>>, open |-> FALSE, quote |-> Unquoted,
     escaped |-> FALSE, quoted |-> FALSE, plain |-> TRUE, kept |-> FALSE]
ShellCourse(line, at) ==
    /\ \A i \in 0 .. Len(line) : at[i] \in ShellStates
    /\ at[0] = ShellStart
    /\ \A i \in 1 .. Len(line) : at[i] = ShellChar(at[i - 1], line[i])
ShellReadAs(line, end) ==
    /\ ShellReading(line).words = EndWord(end).words /\ ShellReading(line).kept = end.kept
    /\ ShellReading(line).plain <=> end.plain /\ end.quote = Unquoted /\ ~ end.escaped
ShellReads(line) ==
    \E at : ShellCourse(line, at) /\ ShellReadAs(line, at[Len(line)])

(* A shell gets through every line, one turn after the other.              *)
LEMMA ShellReadsOn ==
    ASSUME NEW line \in Seq(Chunk)
    PROVE  ShellReads(line)
<1> DEFINE S == ShellStates
           len == Len(line)
           step == [n \in 1 .. len |-> [s \in S |-> ShellChar(s, line[n])]]
           Course(g) == [n \in 0 .. len |-> IF n = 0 THEN ShellStart ELSE ShellChar(g[n - 1], line[n])]
           after == CHOOSE g : g = Course(g)
<1>1. len \in Nat /\ \A n \in 1 .. len : line[n] \in Chunk
  BY LenProperties
<1>2. \A n \in 1 .. len, s \in S : ShellChar(s, line[n]) \in S
  BY <1>1, ShellCharIs
<1>3. ShellStart \in S
  BY EmptySeq DEF ShellStart, ShellStates
<1> HIDE DEF S, len
<1>4. step \in [1 .. len -> [S -> S]] /\ \A n \in 1 .. len, s \in S : step[n][s] = ShellChar(s, line[n])
  BY <1>2
<1> HIDE DEF step
<1>5. PICK f \in [0 .. len -> S] : f[0] = ShellStart /\ \A i \in 1 .. len : f[i] = step[i][f[i - 1]]
  <2>1. HasCourse(S, ShellStart, len, step)
    BY <1>1, <1>3, <1>4, Recursion
  <2> QED
    BY <2>1 DEF HasCourse
<1>6. f = Course(f)
  <2>1. \A n \in 0 .. len : f[n] = IF n = 0 THEN ShellStart ELSE ShellChar(f[n - 1], line[n])
    <3> SUFFICES ASSUME NEW n \in 0 .. len, n # 0
                 PROVE  f[n] = ShellChar(f[n - 1], line[n])
      BY <1>5
    <3>1. n \in 1 .. len /\ n - 1 \in 0 .. len
      BY <1>1
    <3> QED
      BY <1>4, <1>5, <3>1
  <2> QED
    BY <2>1
<1>7. after = Course(after)
  <2> HIDE DEF Course
  <2> QED
    BY <1>6
<1> DEFINE end == after[len]
<1>8. ShellReading(line) = [words |-> EndWord(end).words, kept |-> end.kept,
                            plain |-> end.plain /\ end.quote = Unquoted /\ ~ end.escaped]
  BY Zenon DEF ShellReading, ShellStart, len
<1> HIDE DEF after
<1>9. \A n \in 0 .. len : after[n] = IF n = 0 THEN ShellStart ELSE ShellChar(after[n - 1], line[n])
  BY <1>7
<1> DEFINE All == {n \in Nat : n <= len => after[n] \in S}
<1>10. 0 \in All
  BY <1>1, <1>3, <1>9
<1>11. ASSUME NEW n \in Nat, n \in All PROVE n + 1 \in All
  <2> SUFFICES ASSUME n + 1 <= len PROVE after[n + 1] \in S
    OBVIOUS
  <2>1. n + 1 \in 1 .. len /\ after[n] \in S /\ after[n + 1] = ShellChar(after[n], line[n + 1])
    BY <1>1, <1>9, <1>11
  <2> QED
    BY <1>2, <2>1
<1> HIDE DEF All
<1>12. \A n \in Nat : n \in All
  BY <1>10, <1>11, Induction
<1>13. ShellCourse(line, after)
  BY <1>1, <1>9, <1>12 DEF All, S, len, ShellCourse
<1> DEFINE ended == end.plain /\ end.quote = Unquoted /\ ~ end.escaped
<1>14. ShellReading(line) = [words |-> EndWord(end).words, kept |-> end.kept, plain |-> ended]
  BY <1>8
<1> HIDE DEF end, ended
<1>15. /\ ShellReading(line).words = EndWord(end).words /\ ShellReading(line).kept = end.kept
       /\ ShellReading(line).plain = ended
  BY <1>14
<1>16. ShellReadAs(line, end)
  BY <1>15 DEF ShellReadAs, ended
<1> QED
  BY <1>13, <1>16 DEF ShellReads, end, len

(* The states the parser goes through, and what it ends with.              *)
ParseStart ==
    [words |-> <<>>, word |-> <<>>, quote |-> Unquoted, escaped |-> FALSE, simple |-> TRUE]
ParseCourse(line, at) ==
    /\ \A i \in 0 .. Len(line) : at[i] \in ParseStates
    /\ at[0] = ParseStart
    /\ \A i \in 1 .. Len(line) : at[i] = ParseChar(at[i - 1], line[i])
ParseReadAs(line, end) ==
    ParseSimpleShellCommand(line) =
        IF \/ \E i \in DOMAIN line : line[i] \in Breaks
           \/ ~end.simple \/ end.quote # Unquoted
        THEN <<>>
        ELSE Flush(end).words
ParseReads(line) ==
    \E at : ParseCourse(line, at) /\ ParseReadAs(line, at[Len(line)])

(* The parser gets through every line.                                     *)
LEMMA ParseReadsOn ==
    ASSUME NEW line \in Seq(Chunk)
    PROVE  ParseReads(line)
<1> DEFINE S == ParseStates
           len == Len(line)
           step == [n \in 1 .. len |-> [s \in S |-> ParseChar(s, line[n])]]
           Course(g) == [n \in 0 .. len |-> IF n = 0 THEN ParseStart ELSE ParseChar(g[n - 1], line[n])]
           after == CHOOSE g : g = Course(g)
<1>1. len \in Nat /\ \A n \in 1 .. len : line[n] \in Chunk
  BY LenProperties
<1>2. \A n \in 1 .. len, s \in S : ParseChar(s, line[n]) \in S
  BY <1>1, ParseCharIs
<1>3. ParseStart \in S
  BY EmptySeq DEF ParseStart, ParseStates
<1> HIDE DEF S, len
<1>4. step \in [1 .. len -> [S -> S]] /\ \A n \in 1 .. len, s \in S : step[n][s] = ParseChar(s, line[n])
  BY <1>2
<1> HIDE DEF step
<1>5. PICK f \in [0 .. len -> S] : f[0] = ParseStart /\ \A i \in 1 .. len : f[i] = step[i][f[i - 1]]
  <2>1. HasCourse(S, ParseStart, len, step)
    BY <1>1, <1>3, <1>4, Recursion
  <2> QED
    BY <2>1 DEF HasCourse
<1>6. f = Course(f)
  <2>1. \A n \in 0 .. len : f[n] = IF n = 0 THEN ParseStart ELSE ParseChar(f[n - 1], line[n])
    <3> SUFFICES ASSUME NEW n \in 0 .. len, n # 0
                 PROVE  f[n] = ParseChar(f[n - 1], line[n])
      BY <1>5
    <3>1. n \in 1 .. len /\ n - 1 \in 0 .. len
      BY <1>1
    <3> QED
      BY <1>4, <1>5, <3>1
  <2> QED
    BY <2>1
<1>7. after = Course(after)
  <2> HIDE DEF Course
  <2> QED
    BY <1>6
<1>8. ParseReadAs(line, after[len])
  BY Zenon DEF ParseSimpleShellCommand, ParseStart, ParseReadAs, len
<1> HIDE DEF after
<1>9. \A n \in 0 .. len : after[n] = IF n = 0 THEN ParseStart ELSE ParseChar(after[n - 1], line[n])
  BY <1>7
<1> DEFINE All == {n \in Nat : n <= len => after[n] \in S}
<1>10. 0 \in All
  BY <1>1, <1>3, <1>9
<1>11. ASSUME NEW n \in Nat, n \in All PROVE n + 1 \in All
  <2> SUFFICES ASSUME n + 1 <= len PROVE after[n + 1] \in S
    OBVIOUS
  <2>1. n + 1 \in 1 .. len /\ after[n] \in S /\ after[n + 1] = ParseChar(after[n], line[n + 1])
    BY <1>1, <1>9, <1>11
  <2> QED
    BY <1>2, <2>1
<1> HIDE DEF All
<1>12. \A n \in Nat : n \in All
  BY <1>10, <1>11, Induction
<1>13. ParseCourse(line, after)
  BY <1>1, <1>9, <1>12 DEF All, S, len, ParseCourse
<1> QED
  BY <1>8, <1>13 DEF ParseReads, len

(* The last of some places.                                                *)
LEMMA Lasts ==
    ASSUME NEW len \in Nat, NEW I \in SUBSET (1 .. len), I # {}
    PROVE  \E i \in I : \A j \in I : j <= i
<1> DEFINE back == {len - i : i \in I}
<1>1. back \in SUBSET Nat /\ back # {}
  <2>1. \A i \in I : len - i \in Nat
    OBVIOUS
  <2>2. \A k \in back : k \in Nat
    BY <2>1
  <2>3. PICK i \in I : TRUE
    OBVIOUS
  <2>4. len - i \in back
    OBVIOUS
  <2> HIDE DEF back
  <2> QED
    BY <2>2, <2>4
<1> HIDE DEF back
<1>2. Min(back) \in back /\ \A k \in back : Min(back) <= k
  BY <1>1, Firsts
<1>3. PICK i \in I : Min(back) = len - i
  BY <1>2 DEF back
<1>4. \A j \in I : len - i <= len - j
  BY <1>2, <1>3 DEF back
<1>5. \A j \in I : j <= i
  BY <1>4
<1> QED
  BY <1>5

(* What is left of a line that is not blank: all but the blanks and the    *)
(* line breaks around it.                                                  *)
Trimmed(line, a, b) ==
    /\ a \in 1 .. Len(line) /\ b \in a .. Len(line)
    /\ Trim(line) = SubSeq(line, a, b)
    /\ \A i \in 1 .. Len(line) : i < a \/ b < i => line[i] \in Breaks \cup {Blank}

(* A trimmed line is the line from its first to its last chunk that is no  *)
(* blank.                                                                  *)
LEMMA TrimIs ==
    ASSUME NEW line \in Seq(Chunk), Trim(line) # <<>>
    PROVE  \E a, b \in Nat : Trimmed(line, a, b)
<1> DEFINE len == Len(line)
           text == {i \in DOMAIN line : line[i] \notin Breaks \cup {Blank}}
           a == CHOOSE i \in text : \A j \in text : i <= j
           b == CHOOSE i \in text : \A j \in text : j <= i
<1>1. len \in Nat /\ DOMAIN line = 1 .. len
  BY LenProperties
<1>2. text # {} /\ Trim(line) = SubSeq(line, a, b)
  BY DEF Trim
<1>3. text \in SUBSET (1 .. len) /\ text \in SUBSET Nat /\ \A i \in 1 .. len : i \in text <=> line[i] \notin Breaks \cup {Blank}
  BY <1>1
<1> HIDE DEF text, len
<1>4. Min(text) \in text /\ \A j \in text : Min(text) <= j
  BY <1>2, <1>3, Firsts
<1>5. \E i \in text : \A j \in text : j <= i
  BY <1>1, <1>2, <1>3, Lasts
<1>6. a \in text /\ \A j \in text : a <= j
  BY <1>4
<1>7. b \in text /\ \A j \in text : j <= b
  BY <1>5
<1> HIDE DEF a, b
<1>8. a \in 1 .. len /\ b \in a .. len /\ a \in Nat /\ b \in Nat
  BY <1>1, <1>3, <1>6, <1>7
<1>9. ASSUME NEW i \in 1 .. len, i < a \/ b < i PROVE line[i] \in Breaks \cup {Blank}
  <2>1. i \notin text
    BY <1>6, <1>7, <1>8, <1>9
  <2> QED
    BY <1>3, <2>1
<1>10. Trimmed(line, a, b)
  BY <1>2, <1>8, <1>9 DEF Trimmed, len
<1> QED
  BY <1>8, <1>10

(* A blank outside quotes ends a word, and a line break a command.         *)
LEMMA BlankEnds ==
    ASSUME NEW s \in ShellStates, ~ s.escaped, s.quote = Unquoted
    PROVE  /\ ShellChar(s, Blank) = EndWord(s)
           /\ ~ EndWord(s).escaped /\ EndWord(s).quote = Unquoted
           /\ EndWord(EndWord(s)) = EndWord(s)
           /\ \A ch \in Breaks : ~ ShellChar(s, ch).plain
<1> DEFINE Same(x, y) == x = y
<1>1. \A x : Same(x, x)
  OBVIOUS
<1> HIDE DEF Same
<1>2. Same(ShellChar(s, Blank), EndWord(s))
  BY <1>1, Characters DEF ShellChar
<1> DEFINE one == EndWord(s)
<1>3. one \in ShellStates /\ one.quote = s.quote /\ one.escaped = s.escaped /\ (s.open => ~ one.open) /\ (~ s.open => one = s)
  BY EndWordIs
<1> HIDE DEF one
<1>4. ~ one.open
  BY <1>3
<1>5. EndWord(one) = one
  BY <1>3, <1>4, EndWordIs
<1>6. ASSUME NEW ch \in Breaks PROVE ~ ShellChar(s, ch).plain
  <2>1. ch \in Operators \cup Breaks \cup Globbing /\ ch \notin Quotes /\ ch # Escape /\ ch # Blank
    BY Characters
  <2>2. Same(ShellChar(s, ch), [s EXCEPT !.plain = FALSE])
    BY <1>1, <2>1, Characters DEF ShellChar
  <2> QED
    BY <2>2 DEF Same, ShellStates
<1> QED
  BY <1>2, <1>3, <1>5, <1>6 DEF Same, one

(* The blanks around a plain line change nothing but that its last word    *)
(* ends.                                                                   *)
LEMMA TrimmedCourse ==
    ASSUME NEW line \in Seq(Chunk), NEW a \in Nat, NEW b \in Nat, Trimmed(line, a, b),
           NEW at, ShellCourse(line, at), NEW st, ShellCourse(Trim(line), st),
           ~ st[Len(Trim(line))].escaped, st[Len(Trim(line))].quote = Unquoted, at[Len(line)].plain
    PROVE  at[Len(line)] = st[Len(Trim(line))] \/ at[Len(line)] = EndWord(st[Len(Trim(line))])
<1> DEFINE len == Len(line)
           t == Trim(line)
           n == Len(t)
           e == st[n]
<1>1. len \in Nat /\ \A i \in 1 .. len : line[i] \in Chunk
  BY LenProperties
<1>2. /\ a \in 1 .. len /\ b \in a .. len /\ t = SubSeq(line, a, b)
      /\ \A i \in 1 .. len : i < a \/ b < i => line[i] \in Breaks \cup {Blank}
  BY DEF Trimmed
<1> HIDE DEF t
<1>3. t \in Seq(Chunk) /\ n = b - a + 1 /\ \A k \in 1 .. n : t[k] = line[a - 1 + k]
  <2>1. /\ SubSeq(line, a, b) \in Seq(Chunk) /\ Len(SubSeq(line, a, b)) = b - a + 1
        /\ \A k \in 1 .. b - a + 1 : SubSeq(line, a, b)[k] = line[a + k - 1]
    BY <1>1, <1>2, SubSeqProperties
  <2>2. \A k \in 1 .. b - a + 1 : a + k - 1 = a - 1 + k
    BY <1>2
  <2> QED
    BY <1>2, <2>1, <2>2
<1>4. /\ \A i \in 0 .. len : at[i] \in ShellStates
      /\ at[0] = ShellStart
      /\ \A i \in 1 .. len : at[i] = ShellChar(at[i - 1], line[i])
  BY DEF ShellCourse
<1>5. /\ \A i \in 0 .. n : st[i] \in ShellStates
      /\ st[0] = ShellStart
      /\ \A i \in 1 .. n : st[i] = ShellChar(st[i - 1], t[i])
  BY DEF ShellCourse, t
<1>6. ~ e.escaped /\ e.quote = Unquoted
  BY DEF t
<1>7. at[len].plain
  OBVIOUS
<1> HIDE DEF len, n, e
<1>8. \A i \in 0 .. len : at[i].plain
  <2> DEFINE Back == {j \in Nat : j <= len => at[len - j].plain}
  <2>1. 0 \in Back
    BY <1>1, <1>7
  <2>2. ASSUME NEW j \in Nat, j \in Back PROVE j + 1 \in Back
    <3> SUFFICES ASSUME j + 1 <= len PROVE at[len - (j + 1)].plain
      OBVIOUS
    <3> DEFINE i == len - j
    <3>1. i \in 1 .. len /\ i - 1 = len - (j + 1) /\ i - 1 \in 0 .. len
      BY <1>1
    <3>2. at[i].plain
      BY <1>1, <2>2
    <3> HIDE DEF i
    <3>3. at[i] = ShellChar(at[i - 1], line[i]) /\ at[i - 1] \in ShellStates /\ line[i] \in Chunk
      BY <1>1, <1>4, <3>1
    <3>4. at[i - 1].plain
      BY <3>2, <3>3, ShellCharIs
    <3> QED
      BY <3>1, <3>4
  <2> HIDE DEF Back
  <2>3. \A j \in Nat : j \in Back
    BY <2>1, <2>2, Induction
  <2> TAKE i \in 0 .. len
  <2>4. len - i \in Nat /\ len - i <= len /\ len - (len - i) = i
    BY <1>1
  <2>5. len - i \in Back
    BY <2>3, <2>4
  <2> QED
    BY <2>4, <2>5 DEF Back
<1> DEFINE Before == {i \in Nat : i < a => at[i] = ShellStart}
<1>9. \A i \in Nat : i \in Before
  <2>1. 0 \in Before
    BY <1>4
  <2>2. ASSUME NEW i \in Nat, i \in Before PROVE i + 1 \in Before
    <3> SUFFICES ASSUME i + 1 < a PROVE at[i + 1] = ShellStart
      OBVIOUS
    <3>1. /\ i + 1 \in 1 .. len /\ i + 1 \in 0 .. len /\ at[i] = ShellStart
          /\ line[i + 1] \in Breaks \cup {Blank} /\ at[i + 1] = ShellChar(at[i], line[i + 1])
      BY <1>1, <1>2, <1>4, <2>2
    <3>2. ShellStart \in ShellStates /\ ~ ShellStart.escaped /\ ShellStart.quote = Unquoted /\ ~ ShellStart.open
      <4>1. ShellStart \in ShellStates
        BY <1>1, <1>4
      <4> QED
        BY <4>1 DEF ShellStart
    <3>3. ShellChar(ShellStart, Blank) = EndWord(ShellStart) /\ EndWord(ShellStart) = ShellStart
      BY <3>2, BlankEnds, EndWordIs
    <3>4. line[i + 1] = Blank
      BY <1>8, <3>1, <3>2, BlankEnds
    <3> QED
      BY <3>1, <3>3, <3>4
  <2> HIDE DEF Before
  <2> QED
    BY <2>1, <2>2, Induction
<1> DEFINE Within == {k \in Nat : k <= n => at[a - 1 + k] = st[k]}
<1>10. \A k \in Nat : k \in Within
  <2>1. 0 \in Within
    <3>1. a - 1 \in Nat /\ a - 1 < a /\ a - 1 + 0 = a - 1
      BY <1>2
    <3>2. at[a - 1] = ShellStart
      BY <1>9, <3>1
    <3> QED
      BY <1>5, <3>1, <3>2
  <2>2. ASSUME NEW k \in Nat, k \in Within PROVE k + 1 \in Within
    <3> SUFFICES ASSUME k + 1 <= n PROVE at[a - 1 + (k + 1)] = st[k + 1]
      OBVIOUS
    <3> DEFINE i == a - 1 + (k + 1)
    <3>1. i \in 1 .. len /\ i - 1 = a - 1 + k /\ k + 1 \in 1 .. n /\ (k + 1) - 1 = k
      BY <1>1, <1>2, <1>3
    <3>2. t[k + 1] = line[i] /\ at[i - 1] = st[k]
      BY <1>3, <2>2, <3>1
    <3> HIDE DEF i
    <3>3. at[i] = ShellChar(st[k], t[k + 1]) /\ st[k + 1] = ShellChar(st[k], t[k + 1])
      BY <1>4, <1>5, <3>1, <3>2
    <3> QED
      BY <3>3 DEF i
  <2> HIDE DEF Within
  <2> QED
    BY <2>1, <2>2, Induction
<1>11. n \in Nat /\ b + (len - b) = len /\ len - b \in Nat /\ at[b] = e
  <2>1. n \in Nat /\ a - 1 + n = b /\ len - b \in Nat /\ b + (len - b) = len
    BY <1>1, <1>2, <1>3
  <2>2. at[a - 1 + n] = st[n]
    BY <1>10, <2>1
  <2> QED
    BY <2>1, <2>2 DEF e
<1>12. /\ e \in ShellStates /\ EndWord(e) \in ShellStates
       /\ ShellChar(e, Blank) = EndWord(e) /\ ShellChar(EndWord(e), Blank) = EndWord(e)
       /\ \A ch \in Breaks : ~ ShellChar(e, ch).plain /\ ~ ShellChar(EndWord(e), ch).plain
  <2>1. e \in ShellStates
    BY <1>5, <1>11 DEF e
  <2>2. EndWord(e) \in ShellStates
    BY <2>1, EndWordIs
  <2> QED
    BY <1>6, <2>1, <2>2, BlankEnds
<1> DEFINE After == {i \in Nat : b + i <= len => at[b + i] = e \/ at[b + i] = EndWord(e)}
<1>13. \A i \in Nat : i \in After
  <2>1. 0 \in After
    BY <1>11
  <2>2. ASSUME NEW i \in Nat, i \in After PROVE i + 1 \in After
    <3> SUFFICES ASSUME b + (i + 1) <= len PROVE at[b + (i + 1)] = EndWord(e)
      OBVIOUS
    <3> DEFINE j == b + (i + 1)
    <3>1. j \in 1 .. len /\ j \in 0 .. len /\ b < j /\ j - 1 = b + i /\ b + i <= len
      BY <1>1, <1>2
    <3> HIDE DEF j
    <3>2. /\ line[j] \in Breaks \cup {Blank} /\ at[j] = ShellChar(at[j - 1], line[j])
          /\ at[j - 1] = e \/ at[j - 1] = EndWord(e)
      BY <1>2, <1>4, <2>2, <3>1
    <3>3. line[j] = Blank
      BY <1>12, <1>8, <3>1, <3>2
    <3>4. at[j] = EndWord(e)
      BY <1>12, <3>2, <3>3
    <3> QED
      BY <3>4 DEF j
  <2> HIDE DEF After
  <2> QED
    BY <2>1, <2>2, Induction
<1>14. at[len] = e \/ at[len] = EndWord(e)
  <2>1. len - b \in After /\ b + (len - b) = len /\ b + (len - b) <= len
    BY <1>1, <1>11, <1>13
  <2> QED
    BY <2>1
<1> QED
  BY <1>14 DEF len, e, n, t

Good(s) == s.plain /\ ~ s.kept /\ Full(s.words)

(* Whatever is good at the end of a line was good all along it, so that    *)
(* the parser has read what the shell has.                                 *)
LEMMA CoursesAlike ==
    ASSUME NEW t \in Seq(Chunk), NEW st, ShellCourse(t, st), NEW pt, ParseCourse(t, pt), Good(st[Len(t)])
    PROVE  Sim(st[Len(t)], pt[Len(t)])
<1> DEFINE n == Len(t)
<1>1. n \in Nat /\ \A k \in 1 .. n : t[k] \in Chunk
  BY LenProperties
<1>2. /\ \A i \in 0 .. n : st[i] \in ShellStates
      /\ st[0] = ShellStart
      /\ \A i \in 1 .. n : st[i] = ShellChar(st[i - 1], t[i])
  BY DEF ShellCourse
<1>3. /\ \A i \in 0 .. n : pt[i] \in ParseStates
      /\ pt[0] = ParseStart
      /\ \A i \in 1 .. n : pt[i] = ParseChar(pt[i - 1], t[i])
  BY DEF ParseCourse
<1>4. Good(st[n])
  OBVIOUS
<1> HIDE DEF n
<1>5. ASSUME NEW s \in ShellStates, NEW ch \in Chunk, Good(ShellChar(s, ch)) PROVE Good(s)
  <2>1. LET new == ShellChar(s, ch)
        IN  (new.plain => s.plain) /\ (s.kept => new.kept) /\ (Full(new.words) => Full(s.words))
    BY ShellCharIs
  <2> QED
    BY <1>5, <2>1 DEF Good
<1> DEFINE Back == {j \in Nat : j <= n => Good(st[n - j])}
<1>6. \A j \in Nat : j \in Back
  <2>1. 0 \in Back
    BY <1>1, <1>4
  <2>2. ASSUME NEW j \in Nat, j \in Back PROVE j + 1 \in Back
    <3> SUFFICES ASSUME j + 1 <= n PROVE Good(st[n - (j + 1)])
      OBVIOUS
    <3> DEFINE i == n - j
    <3>1. i \in 1 .. n /\ i - 1 = n - (j + 1) /\ i - 1 \in 0 .. n
      BY <1>1
    <3>2. Good(st[i])
      BY <1>1, <2>2
    <3> HIDE DEF i
    <3>3. st[i] = ShellChar(st[i - 1], t[i]) /\ st[i - 1] \in ShellStates /\ t[i] \in Chunk
      BY <1>1, <1>2, <3>1
    <3>4. Good(st[i - 1])
      BY <1>5, <3>2, <3>3
    <3> QED
      BY <3>1, <3>4
  <2> HIDE DEF Back
  <2> QED
    BY <2>1, <2>2, Induction
<1>7. \A i \in 0 .. n : Good(st[i])
  <2> TAKE i \in 0 .. n
  <2>1. n - i \in Nat /\ n - i <= n /\ n - (n - i) = i
    BY <1>1
  <2>2. n - i \in Back
    BY <1>6, <2>1
  <2> QED
    BY <2>1, <2>2
<1> DEFINE Alike == {i \in Nat : i <= n => Sim(st[i], pt[i])}
<1>8. \A i \in Nat : i \in Alike
  <2>1. 0 \in Alike
    <3>1. Sim(ShellStart, ParseStart)
      BY DEF Sim, ShellStart, ParseStart
    <3> QED
      BY <1>2, <1>3, <3>1
  <2>2. ASSUME NEW i \in Nat, i \in Alike PROVE i + 1 \in Alike
    <3> SUFFICES ASSUME i + 1 <= n PROVE Sim(st[i + 1], pt[i + 1])
      OBVIOUS
    <3> DEFINE s == st[i]
               p == pt[i]
               ch == t[i + 1]
    <3>1. /\ s \in ShellStates /\ p \in ParseStates /\ ch \in Chunk /\ Sim(s, p)
          /\ st[i + 1] = ShellChar(s, ch) /\ pt[i + 1] = ParseChar(p, ch) /\ Good(st[i + 1])
      <4>1. i + 1 \in 1 .. n /\ i + 1 \in 0 .. n /\ i \in 0 .. n /\ (i + 1) - 1 = i /\ i <= n
        BY <1>1
      <4> QED
        BY <1>1, <1>2, <1>3, <1>7, <2>2, <4>1
    <3> HIDE DEF s, p, ch
    <3>2. ShellChar(s, ch).plain /\ ~ ShellChar(s, ch).kept /\ Full(ShellChar(s, ch).words)
      BY <3>1 DEF Good
    <3>3. Sim(ShellChar(s, ch), ParseChar(p, ch))
      BY <3>1, <3>2, TurnsAlike
    <3> QED
      BY <3>1, <3>3
  <2> HIDE DEF Alike
  <2> QED
    BY <2>1, <2>2, Induction
<1>9. Sim(st[n], pt[n])
  BY <1>1, <1>8
<1> QED
  BY <1>9 DEF n

(* At the end of a line the last word counts.                              *)
LEMMA EndsAlike ==
    ASSUME NEW s \in ShellStates, NEW p \in ParseStates, Sim(s, p), Full(EndWord(s).words)
    PROVE  EndWord(s).words = Flush(p).words
<1>1. p.words = s.words /\ p.word = s.word /\ (s.word # <<>> => s.open)
  BY DEF Sim
<1> DEFINE one == EndWord(s)
           two == Flush(p)
<1>2. /\ s.open => one.words = Append(s.words, s.word) /\ s.word # <<>>
      /\ ~ s.open => one = s
  BY EndWordIs
<1>3. /\ p.word # <<>> => two.words = Append(p.words, p.word)
      /\ p.word = <<>> => two = p
  BY FlushIs
<1> HIDE DEF one, two
<1>4. one.words = two.words
  BY <1>1, <1>2, <1>3
<1> QED
  BY <1>4 DEF one, two

(* A blank line has no words.                                              *)
LEMMA NothingParsed ==
    ParseSimpleShellCommand(<<>>) = <<>>
<1> DEFINE none == <<>>
<1>1. none \in Seq(Chunk) /\ Len(none) = 0
  OBVIOUS
<1> HIDE DEF none
<1>2. ParseReads(none)
  BY <1>1, ParseReadsOn
<1>3. PICK pt : ParseCourse(none, pt) /\ ParseReadAs(none, pt[0])
  BY <1>1, <1>2 DEF ParseReads
<1>4. pt[0] = ParseStart
  BY <1>1, <1>3 DEF ParseCourse
<1>5. Flush(ParseStart).words = <<>>
  BY DEF ParseStart, Flush
<1>6. ParseSimpleShellCommand(none) = <<>>
  BY <1>3, <1>4, <1>5 DEF ParseReadAs
<1> QED
  BY <1>6 DEF none

(* A line's text, without its blanks, and its words.                       *)
LEMMA TrimText ==
    ASSUME NEW line \in Seq(Chunk)
    PROVE  Trim(line) \in Seq(Chunk)
<1>1. CASE Trim(line) = <<>>
  BY <1>1
<1>2. CASE Trim(line) # <<>>
  <2>1. PICK a, b \in Nat : Trimmed(line, a, b)
    BY <1>2, TrimIs
  <2>2. a \in 1 .. Len(line) /\ b \in a .. Len(line) /\ Trim(line) = SubSeq(line, a, b) /\ Len(line) \in Nat
    BY <2>1, LenProperties DEF Trimmed
  <2>3. \A i \in a .. b : line[i] \in Chunk
    BY <2>2
  <2>4. SubSeq(line, a, b) \in Seq(Chunk)
    BY <2>2, <2>3, SubSeqProperties
  <2> QED
    BY <2>2, <2>4
<1> QED
  BY <1>1, <1>2

(* What is parsed is a list of words.                                      *)
LEMMA ParsedText ==
    ASSUME NEW line \in Seq(Chunk)
    PROVE  ParseSimpleShellCommand(line) \in Seq(Seq(Chunk))
<1>1. PICK pt : ParseCourse(line, pt) /\ ParseReadAs(line, pt[Len(line)])
  BY ParseReadsOn DEF ParseReads
<1> DEFINE p == pt[Len(line)]
<1>2. p \in ParseStates
  BY <1>1, LenProperties DEF ParseCourse
<1>3. ParseReadAs(line, p)
  BY <1>1
<1> HIDE DEF p
<1>4. Flush(p).words \in Seq(Seq(Chunk))
  <2> DEFINE two == Flush(p)
  <2>1. two \in ParseStates
    BY <1>2, FlushIs
  <2> HIDE DEF two
  <2>2. two.words \in Seq(Seq(Chunk))
    BY <2>1 DEF ParseStates
  <2> QED
    BY <2>2 DEF two
<1>5. ParseSimpleShellCommand(line) = <<>> \/ ParseSimpleShellCommand(line) = Flush(p).words
  BY <1>3 DEF ParseReadAs
<1> DEFINE W == Seq(Chunk)
<1>6. <<>> \in Seq(W)
  OBVIOUS
<1> QED
  BY <1>4, <1>5, <1>6

(* The parser reads the words of a line that reads alike, or finds it not  *)
(* simple.                                                                 *)
LEMMA WordsAlike ==
    ASSUME NEW line \in Seq(Chunk), ReadsAlike(line), ParseSimpleShellCommand(Trim(line)) # <<>>
    PROVE  ParseSimpleShellCommand(Trim(line)) = ShellReading(line).words
<1> DEFINE t == Trim(line)
           n == Len(t)
<1>1. ShellReading(line).plain /\ ~ ShellReading(line).kept /\ ShellReading(t).plain /\ Full(ShellReading(line).words)
  BY DEF ReadsAlike, Full
<1>2. t # <<>>
  BY NothingParsed
<1>3. PICK a, b \in Nat : Trimmed(line, a, b)
  BY <1>2, TrimIs
<1>4. t \in Seq(Chunk)
  BY TrimText
<1>5. PICK at : ShellCourse(line, at) /\ ShellReadAs(line, at[Len(line)])
  BY ShellReadsOn DEF ShellReads
<1> HIDE DEF t
<1>6. PICK st : ShellCourse(t, st) /\ ShellReadAs(t, st[n])
  BY <1>4, ShellReadsOn DEF ShellReads
<1>7. PICK pt : ParseCourse(t, pt) /\ ParseReadAs(t, pt[n])
  BY <1>4, ParseReadsOn DEF ParseReads
<1> DEFINE e == st[n]
           p == pt[n]
<1>8. n \in Nat /\ e \in ShellStates /\ p \in ParseStates
  <2>1. n \in Nat
    BY <1>4, LenProperties
  <2> QED
    BY <1>6, <1>7, <2>1 DEF ShellCourse, ParseCourse
<1>9. e.plain /\ e.quote = Unquoted /\ ~ e.escaped
  BY <1>1, <1>6 DEF ShellReadAs
<1>10. at[Len(line)].plain
  BY <1>1, <1>5 DEF ShellReadAs
<1>11. at[Len(line)] = e \/ at[Len(line)] = EndWord(e)
  BY <1>3, <1>5, <1>6, <1>9, <1>10, TrimmedCourse DEF t
<1> HIDE DEF e, p, n
<1>12. EndWord(EndWord(e)) = EndWord(e) /\ EndWord(e).kept = e.kept
  BY <1>8, <1>9, BlankEnds, EndWordIs
<1>13. ShellReading(line).words = EndWord(e).words /\ ~ e.kept
  BY <1>1, <1>5, <1>11, <1>12 DEF ShellReadAs
<1>14. Full(EndWord(e).words) /\ Good(e)
  <2>1. Full(EndWord(e).words)
    BY <1>1, <1>13
  <2>2. Full(e.words)
    BY <1>8, <2>1, EndWordIs
  <2> QED
    BY <1>9, <1>13, <2>1, <2>2 DEF Good
<1>15. Sim(e, p)
  BY <1>4, <1>6, <1>7, <1>14, CoursesAlike DEF e, p, n
<1>16. EndWord(e).words = Flush(p).words
  BY <1>8, <1>14, <1>15, EndsAlike
<1>17. ParseSimpleShellCommand(t) = Flush(p).words
  <2>1. ParseReadAs(t, p) /\ ParseSimpleShellCommand(t) # <<>>
    BY <1>7 DEF p, t
  <2> QED
    BY <2>1 DEF ParseReadAs
<1> QED
  BY <1>13, <1>16, <1>17 DEF t

(* What the hook asks to retry with is what was parsed, with env.          *)
LEMMA HookArgvIs ==
    ASSUME NEW line, HookArgv(line) # <<>>
    PROVE  /\ ParseSimpleShellCommand(Trim(line)) # <<>>
           /\ HookArgv(line) = RewriteEnvPrefix(ParseSimpleShellCommand(Trim(line)))
<1> DEFINE parsed == ParseSimpleShellCommand(Trim(line))
<1>1. HookArgv(line) = RewriteEnvPrefix(parsed) /\ ShouldPreferSoShell(RewriteEnvPrefix(parsed))
  BY DEF HookArgv
<1> HIDE DEF parsed
<1>2. Assignments(<<>>) = 0 /\ RewriteEnvPrefix(<<>>) = <<>>
  BY DEF Assignments, RewriteEnvPrefix
<1>3. ~ ShouldPreferSoShell(<<>>)
  BY DEF ShouldPreferSoShell, ProgramIndex
<1>4. parsed # <<>>
  BY <1>1, <1>2, <1>3
<1> QED
  BY <1>1, <1>4 DEF parsed

(* What so_shell then runs is what the shell would have run.               *)
LEMMA ShellRetry ==
    ASSUME NEW line \in Seq(Chunk), HookArgv(line) # <<>>, ReadsAlike(line)
    PROVE  HookArgv(line) = PlainArgv(line)
BY HookArgvIs, WordsAlike DEF PlainArgv

(* so_read answers what it is asked instead of a native read, unless that  *)
(* asked for a mode so_read does not have or for no range.                 *)
LEMMA ReadRetry ==
    ASSUME NEW in \in NativeRead
    PROVE  SoReadAnswers(PreferredSoReadArgs(in)) <=>
               in.mode # {"other"} /\ \A s \in in.start_line, e \in in.end_line : 0 < e => s <= e
<1> DEFINE args == PreferredSoReadArgs(in)
           mode == args.mode
           ordered == \A s \in in.start_line, e \in in.end_line : 0 < e => s <= e
<1>1. /\ in.mode \in {{}, {""}, {"full"}, {"outline"}, {"other"}}
      /\ in.start_line \in {{}, {0}, {1}, {2}} /\ in.end_line \in {{}, {0}, {1}, {2}}
  BY DEF NativeRead, None
<1>2. \A v : The({v}) = v
  BY DEF The
<1>3. /\ args.start_line = in.start_line \ {0} /\ args.end_line = in.end_line \ {0}
      /\ mode \in {in.mode \ {""}, {"full"}} /\ (in.mode \ {""} # {} => mode = in.mode \ {""})
  BY DEF PreferredSoReadArgs, None
<1> HIDE DEF args
<1>4. The(OrElse(mode, {"full"})) \in {"full", "outline"} <=> in.mode # {"other"}
  <2>1. in.mode = {"other"} => mode = {"other"}
    BY <1>3
  <2>2. in.mode = {"outline"} => mode = {"outline"}
    BY <1>3
  <2>3. in.mode \in {{}, {""}, {"full"}} => mode \in {{}, {"full"}}
    BY <1>3
  <2>4. /\ mode = {"other"} => The(OrElse(mode, {"full"})) = "other"
        /\ mode = {"outline"} => The(OrElse(mode, {"full"})) = "outline"
        /\ mode \in {{}, {"full"}} => The(OrElse(mode, {"full"})) = "full"
    BY <1>2 DEF OrElse, None
  <2> QED
    BY <1>1, <2>1, <2>2, <2>3, <2>4
<1> DEFINE start == The(OrElse(args.start_line, {1}))
           end == The(OrElse(args.end_line, {start}))
<1>5. /\ args.start_line = {} => start = 1
      /\ args.start_line = {1} => start = 1
      /\ args.start_line = {2} => start = 2
  BY <1>2 DEF OrElse, None
<1>6. /\ args.end_line = {} => end = start
      /\ args.end_line = {1} => end = 1
      /\ args.end_line = {2} => end = 2
  <2> HIDE DEF start
  <2> QED
    BY <1>2 DEF OrElse, None
<1>7. ParseExcerptRequest(args) = "refused" <=>
          args.start_line \cup args.end_line # {} /\ (start = 0 \/ end < start)
  BY DEF ParseExcerptRequest, None
<1> HIDE DEF start, end
<1>8. /\ args.start_line = {} => in.start_line \in {{}, {0}}
      /\ args.start_line = {1} => in.start_line = {1}
      /\ args.start_line = {2} => in.start_line = {2}
      /\ args.start_line \in {{}, {1}, {2}}
  BY <1>1, <1>3
<1>9. /\ args.end_line = {} => in.end_line \in {{}, {0}}
      /\ args.end_line = {1} => in.end_line = {1}
      /\ args.end_line = {2} => in.end_line = {2}
      /\ args.end_line \in {{}, {1}, {2}}
  BY <1>1, <1>3
<1>10. ParseExcerptRequest(args) # "refused" <=> ordered
  <2>1. CASE args.start_line = {2} /\ args.end_line = {1}
    <3>1. ~ ordered
      BY <1>8, <1>9, <2>1
    <3>2. end < start /\ args.start_line \cup args.end_line # {}
      BY <1>5, <1>6, <2>1
    <3> QED
      BY <1>7, <3>1, <3>2
  <2>2. CASE ~ (args.start_line = {2} /\ args.end_line = {1})
    <3>1. ordered
      BY <1>8, <1>9, <2>2
    <3>2. start # 0 /\ ~ (end < start)
      BY <1>5, <1>6, <1>8, <1>9, <2>2
    <3> QED
      BY <1>7, <3>1, <3>2
  <2> QED
    BY <2>1, <2>2
<1>11. SoReadAnswers(args) <=> in.mode # {"other"} /\ ordered
  BY <1>4, <1>10 DEF SoReadAnswers
<1> QED
  BY <1>11 DEF args

(* A denied call can be made through so-context, and does the same there,  *)
(* whatever the arguments and for any line that both read alike.           *)
THEOREM AgentCallsRetryWorks == Spec => []RetryWorks
<1>1. TypeOK => RetryWorks
  <2> SUFFICES ASSUME call \in Calls PROVE RetryDoesTheSame(call)
    BY DEF TypeOK, RetryWorks
  <2>1. ASSUME NEW l \in Lines, call = ShellCall(l) PROVE RetryDoesTheSame(call)
    <3>1. call.tool = "shell" /\ call.line = l
      BY <2>1 DEF ShellCall
    <3>2. l \in Seq(Chunk)
      BY AgentLinesAssumption DEF Chunk
    <3>3. HookArgv(l) # <<>> /\ ReadsAlike(l) => HookArgv(l) = PlainArgv(l)
      BY <3>2, ShellRetry
    <3> QED
      BY <3>1, <3>3 DEF RetryDoesTheSame
  <2>2. ASSUME NEW r \in NativeRead, call = ReadCall(r) PROVE RetryDoesTheSame(call)
    <3>1. call.tool = "read" /\ call.input = r
      BY <2>2 DEF ReadCall
    <3>2. SoReadAnswers(PreferredSoReadArgs(r)) <=>
              r.mode # {"other"} /\ \A s \in r.start_line, e \in r.end_line : 0 < e => s <= e
      BY ReadRetry
    <3> QED
      BY <3>1, <3>2 DEF RetryDoesTheSame
  <2>3. ASSUME NEW q \in NativeSearch, call = SearchCall(q) PROVE RetryDoesTheSame(call)
    <3>1. call.tool = "search"
      BY <2>3 DEF SearchCall
    <3> QED
      BY <3>1 DEF RetryDoesTheSame
  <2> QED
    BY <2>1, <2>2, <2>3 DEF Calls
<1> QED
  BY <1>1, AgentCallsTypeOK, PTL

(* The plugin finds the program where the hook does: behind env and its    *)
(* assignments.                                                            *)
LEMMA ProgramsAlike ==
    ASSUME NEW argv \in Seq(Seq(Chunk)), argv # <<>>
    PROVE  PluginProgramIndex(argv) = ProgramIndex(argv) /\ ProgramIndex(argv) \in Nat \ {0}
<1> DEFINE W == Seq(Chunk)
           len == Len(argv)
           rest == Tail(argv)
           others == {i \in DOMAIN argv : i > 1 /\ ~ IsEnvAssignment(argv[i])}
           behind == {i \in DOMAIN rest : ~ IsEnvAssignment(rest[i])}
<1> HIDE DEF W
<1>1. argv \in Seq(W)
  BY DEF W
<1>2. len \in Nat /\ len # 0 /\ DOMAIN argv = 1 .. len
  BY <1>1, LenProperties, EmptySeq
<1>3. rest \in Seq(W) /\ Len(rest) = len - 1 /\ \A i \in 1 .. len - 1 : rest[i] = argv[i + 1]
  BY <1>1, HeadTailProperties
<1>4. DOMAIN rest = 1 .. len - 1
  BY <1>3, LenProperties
<1> HIDE DEF len, rest
<1>5. /\ \A i \in behind : i + 1 \in others /\ i \in Nat
      /\ \A i \in others : i - 1 \in behind /\ i \in Nat
  <2>1. ASSUME NEW i \in behind PROVE i + 1 \in others
    <3>1. i \in 1 .. len - 1 /\ ~ IsEnvAssignment(argv[i + 1])
      BY <1>3, <1>4
    <3>2. i + 1 \in 1 .. len /\ i + 1 > 1
      BY <1>2, <3>1
    <3> QED
      BY <1>2, <3>1, <3>2
  <2>2. ASSUME NEW i \in others PROVE i - 1 \in behind
    <3>1. i \in 1 .. len /\ i > 1 /\ ~ IsEnvAssignment(argv[i])
      BY <1>2
    <3>2. i - 1 \in 1 .. len - 1 /\ (i - 1) + 1 = i
      BY <1>2, <3>1
    <3> QED
      BY <1>3, <1>4, <3>1, <3>2
  <2> QED
    BY <1>2, <1>4, <2>1, <2>2
<1> DEFINE b == CHOOSE i \in behind : \A j \in behind : i <= j
           o == CHOOSE i \in others : \A j \in others : i <= j
<1>6. Assignments(rest) = IF behind = {} THEN Len(rest) ELSE b - 1
  BY DEF Assignments
<1>7. PluginProgramIndex(argv) = IF argv[1] # <<"env">> THEN 1 ELSE IF others = {} THEN len + 1 ELSE o
  BY DEF PluginProgramIndex, len
<1>8. ProgramIndex(argv) = IF argv[1] = <<"env">> THEN Assignments(rest) + 2 ELSE 1
  BY DEF ProgramIndex, rest
<1> HIDE DEF others, behind
<1>9. CASE behind = {}
  <2>1. others = {}
    BY <1>5, <1>9
  <2>2. Assignments(rest) + 2 = len + 1
    BY <1>2, <1>3, <1>6, <1>9
  <2> QED
    BY <1>2, <1>7, <1>8, <2>1, <2>2
<1>10. CASE behind # {}
  <2>1. others # {}
    BY <1>5, <1>10
  <2>2. behind \in SUBSET Nat /\ others \in SUBSET Nat
    BY <1>5
  <2>3. Min(behind) \in behind /\ \A j \in behind : Min(behind) <= j
    BY <1>10, <2>2, Firsts
  <2>4. Min(others) \in others /\ \A j \in others : Min(others) <= j
    BY <2>1, <2>2, Firsts
  <2>5. b \in behind /\ \A j \in behind : b <= j
    BY <2>3
  <2>6. o \in others /\ \A j \in others : o <= j
    BY <2>4
  <2> HIDE DEF b, o
  <2>7. b \in Nat /\ o \in Nat /\ o <= b + 1 /\ b <= o - 1
    BY <1>5, <2>5, <2>6
  <2>8. (b - 1) + 2 = o /\ o # 0
    BY <2>7
  <2> QED
    BY <1>6, <1>7, <1>8, <1>10, <2>1, <2>7, <2>8
<1> QED
  BY <1>9, <1>10

(* No program of the rules has two dots at the end of its name.            *)
LEMMA DotsNotKept ==
    ASSUME NEW name \in Seq(Chunk), name # <<>>, Last(name) = "..", NEW args
    PROVE  ~ ShouldKeepNativeShell(name, args)
<1>1. name[Len(name)] = ".."
  BY DEF Last
<1>2. \A n : name = <<n>> => n = ".."
  BY <1>1
<1>3. name \notin AlwaysKeepNative
  BY <1>2 DEF AlwaysKeepNative, Words
<1>4. name \notin Words({"npm", "pnpm", "yarn", "bun", "npx"}) /\ name \notin Words({"python", "python3"})
  BY <1>2 DEF Words
<1>5. name \notin {<<"tail">>, <<"docker">>, <<"docker-compose">>, <<"kubectl">>, <<"cargo">>, <<"node">>}
  BY <1>2
<1> QED
  BY <1>3, <1>4, <1>5, Zenon DEF ShouldKeepNativeShell

(* Where a path ends in a name, the name is what both see, or a parent's,  *)
(* which neither has rules for.                                            *)
LEMMA NamesAlike ==
    ASSUME NEW word \in Seq(Chunk), ~ NamedApart(word), NEW args
    PROVE  ShouldKeepNativeShell(PluginBaseProgramName(word), args)
               <=> ShouldKeepNativeShell(BaseProgramName(word), args)
<1> DEFINE len == Len(word)
           d == SelectLastInSeq(word, LAMBDA ch : ch \in {Slash, Escape})
           ends == {j \in DOMAIN word :
                       /\ word[j] # Slash /\ (j < Len(word) => word[j + 1] = Slash)
                       /\ Part(word, j) # <<".">>}
           name == SubSeq(word, d + 1, len)
<1>1. len \in Nat /\ DOMAIN word = 1 .. len
  BY LenProperties
<1>2. PluginBaseProgramName(word) = IF d = len THEN word ELSE name
  BY Zenon DEF PluginBaseProgramName
<1>3. BaseProgramName(word) =
          IF ends = {} \/ Part(word, Max(ends)) = <<"..">> THEN word ELSE Part(word, Max(ends))
  BY Zenon DEF BaseProgramName
<1> DEFINE slashes == {i \in 1 .. len : word[i] = Slash}
<1>4. /\ \A i \in 1 .. len : word[i] # Escape
      /\ word # <<>> => word[len] # Slash
      /\ len > 1 /\ word[len - 1] = Slash => word[len] # "."
  BY <1>1 DEF NamedApart, Last
<1>5. {i \in 1 .. len : word[i] \in {Slash, Escape}} = slashes
  BY <1>4
<1>6. d = IF slashes = {} THEN 0 ELSE Max(slashes)
  BY <1>5, Zenon DEF SelectLastInSeq, len
<1>7. Part(word, len) = name
  <2>1. SelectLastInSubSeq(word, 1, len, LAMBDA ch : ch = Slash) = d
    BY <1>6, Zenon DEF SelectLastInSubSeq
  <2> QED
    BY <2>1, Zenon DEF Part
<1>8. d \in 0 .. len /\ (d # 0 => d \in slashes) /\ \A i \in slashes : i <= d
  <2>1. slashes \in SUBSET (1 .. len)
    OBVIOUS
  <2> HIDE DEF d, slashes
  <2>2. CASE slashes = {}
    BY <1>1, <1>6, <2>2
  <2>3. CASE slashes # {}
    <3>1. d \in slashes /\ \A i \in slashes : d >= i
      BY <1>1, <1>6, <2>1, <2>3, Lasts DEF Max
    <3> QED
      BY <1>1, <2>1, <3>1
  <2> QED
    BY <2>2, <2>3
<1> HIDE DEF d, len
<1>9. d \in Nat /\ d <= len /\ len \in Nat /\ (d # 0 => word[d] = Slash)
  <2>1. \A i \in slashes : word[i] = Slash
    OBVIOUS
  <2> HIDE DEF slashes
  <2> QED
    BY <1>1, <1>8, <2>1
<1>10. /\ name \in Seq(Chunk) /\ Len(name) = len - d
      /\ \A k \in 1 .. len - d : name[k] = word[d + k]
  <2>1. \A k \in d + 1 .. len : word[k] \in Chunk
    BY <1>1, <1>9
  <2>2. /\ name \in Seq(Chunk) /\ Len(name) = IF d + 1 <= len THEN len - (d + 1) + 1 ELSE 0
        /\ \A k \in 1 .. len - (d + 1) + 1 : name[k] = word[(d + 1) + k - 1]
    BY <1>1, <1>9, <2>1, SubSeqProperties
  <2> HIDE DEF name
  <2>3. \A k \in 1 .. len - d : k \in 1 .. len - (d + 1) + 1 /\ (d + 1) + k - 1 = d + k
    BY <1>1, <1>9
  <2> QED
    BY <1>1, <1>9, <2>2, <2>3
<1> HIDE DEF name
<1>11. CASE word = <<>>
  <2>1. len = 0 /\ ends = {}
    BY <1>1, <1>11 DEF len
  <2> QED
    BY <1>2, <1>3, <1>9, <2>1
<1>12. ASSUME word # <<>> PROVE len # 0 /\ d # len /\ len \in DOMAIN word /\ word[len] # Slash
  <2>1. len # 0
    BY <1>12, EmptySeq DEF len
  <2>2. len \in 1 .. len /\ word[len] # Slash
    BY <1>1, <1>4, <1>12, <2>1
  <2> QED
    BY <1>1, <1>9, <2>1, <2>2
<1>13. CASE word # <<>> /\ name = <<".">>
  <2>1. Len(name) = 1 /\ name[1] = "."
    BY <1>13
  <2>2. len - d = 1 /\ word[len] = "."
    <3>1. len - d = 1
      BY <1>10, <2>1
    <3>2. 1 \in 1 .. len - d /\ d + 1 = len
      BY <1>9, <3>1
    <3> QED
      BY <1>10, <2>1, <3>1, <3>2
  <2>3. d = 0
    <3> SUFFICES ASSUME d # 0 PROVE FALSE
      OBVIOUS
    <3>1. d = len - 1 /\ len > 1 /\ word[d] = Slash
      BY <1>1, <1>9, <2>2
    <3> QED
      BY <1>4, <2>2, <3>1
  <2>4. len = 1 /\ Part(word, 1) = <<".">>
    BY <1>1, <1>7, <1>13, <2>2, <2>3
  <2>5. ends = {}
    <3>1. \A j \in DOMAIN word : j = 1 /\ Part(word, j) = <<".">>
      BY <1>1, <2>4
    <3> QED
      BY <2>4, <3>1
  <2>6. word = name
    <3>1. Len(word) = 1 /\ Len(name) = 1 /\ word[1] = name[1]
      BY <2>1, <2>2, <2>4 DEF len
    <3> QED
      BY <1>10, <3>1, SeqEqual
  <2> QED
    BY <1>2, <1>3, <2>5, <2>6
<1>14. CASE word # <<>> /\ name # <<".">>
  <2>1. len \in ends
    <3>1. len \in DOMAIN word /\ word[len] # Slash /\ ~ (len < Len(word))
      BY <1>1, <1>12, <1>14 DEF len
    <3> QED
      BY <1>7, <1>14, <3>1
  <2>2. ends \in SUBSET (1 .. len)
    BY <1>1
  <2> HIDE DEF ends
  <2>3. Max(ends) = len
    <3>1. \A x \in ends : x \in Nat /\ x <= len
      BY <1>9, <2>2
    <3>2. \A y \in ends : len >= y
      BY <1>9, <3>1
    <3>3. \A x \in ends : (\A y \in ends : x >= y) => x = len
      BY <1>9, <2>1, <3>1
    <3> QED
      BY <2>1, <3>2, <3>3 DEF Max
  <2>4. BaseProgramName(word) = IF name = <<"..">> THEN word ELSE name
    BY <1>3, <1>7, <2>1, <2>3
  <2>5. PluginBaseProgramName(word) = name
    BY <1>2, <1>12, <1>14
  <2>6. CASE name # <<"..">>
    BY <2>4, <2>5, <2>6
  <2>7. CASE name = <<"..">>
    <3>1. Len(name) = 1 /\ name[1] = ".." /\ name # <<>> /\ Last(name) = ".."
      BY <2>7 DEF Last
    <3>2. len - d = 1 /\ word[len] = ".."
      <4>1. len - d = 1
        BY <1>10, <3>1
      <4>2. 1 \in 1 .. len - d /\ d + 1 = len
        BY <1>9, <4>1
      <4> QED
        BY <1>10, <3>1, <4>1, <4>2
    <3>3. Last(word) = ".."
      BY <3>2 DEF Last, len
    <3>4. ~ ShouldKeepNativeShell(word, args)
      BY <1>14, <3>3, DotsNotKept
    <3>5. ~ ShouldKeepNativeShell(name, args)
      BY <1>10, <3>1, DotsNotKept
    <3> QED
      BY <2>4, <2>5, <2>7, <3>4, <3>5
  <2> QED
    BY <2>6, <2>7
<1> QED
  BY <1>11, <1>13, <1>14

(* The hook and the plugin decide alike of what was parsed.                *)
LEMMA ShellClientsAgree ==
    ASSUME NEW line \in Seq(Chunk),
           Assignments(ParseSimpleShellCommand(Trim(line))) # Len(ParseSimpleShellCommand(Trim(line))),
           LET argv == RewriteEnvPrefix(ParseSimpleShellCommand(Trim(line)))
           IN  ~ (ProgramIndex(argv) \in DOMAIN argv /\ NamedApart(argv[ProgramIndex(argv)]))
    PROVE  HookArgv(line) # <<>> <=> PreferredSoShellArgv(line) # <<>>
<1> DEFINE W == Seq(Chunk)
           parsed == ParseSimpleShellCommand(Trim(line))
           env == <<"env">>
           argv == RewriteEnvPrefix(parsed)
<1>1. /\ parsed \in Seq(W) /\ Assignments(parsed) # Len(parsed)
      /\ ~ (ProgramIndex(argv) \in DOMAIN argv /\ NamedApart(argv[ProgramIndex(argv)]))
  BY TrimText, ParsedText
<1>2. PreferredSoShellArgv(line) =
          LET plugin == PluginRewriteEnvPrefix(parsed)
              i == PluginProgramIndex(plugin)
          IN  IF \/ i > Len(plugin)
                 \/ ShouldKeepNativeShell(PluginBaseProgramName(plugin[i]), SubSeq(plugin, i + 1, Len(plugin)))
              THEN <<>>
              ELSE plugin
  BY Zenon DEF PreferredSoShellArgv
<1>3. HookArgv(line) = IF ShouldPreferSoShell(argv) THEN argv ELSE <<>>
  BY Zenon DEF HookArgv
<1> HIDE DEF parsed
<1>4. parsed # <<>>
  <2>1. Assignments(<<>>) = 0 /\ Len(<<>>) = 0
    BY DEF Assignments
  <2> QED
    BY <1>1, <2>1
<1>5. PluginRewriteEnvPrefix(parsed) = argv
  BY <1>1 DEF PluginRewriteEnvPrefix, RewriteEnvPrefix
<1>6. env \in W
  BY DEF Chunk
<1> HIDE DEF W, env
<1>7. argv \in Seq(W) /\ argv # <<>>
  <2>1. CASE Assignments(parsed) = 0
    BY <1>1, <1>4, <2>1 DEF RewriteEnvPrefix
  <2>2. CASE Assignments(parsed) # 0
    <3>1. argv = <<env>> \o parsed
      BY <2>2 DEF RewriteEnvPrefix, env
    <3>2. <<env>> \in Seq(W) /\ Len(<<env>>) = 1
      BY <1>6
    <3>3. argv \in Seq(W) /\ Len(argv) = 1 + Len(parsed) /\ Len(parsed) \in Nat
      BY <1>1, <3>1, <3>2, ConcatProperties, LenProperties
    <3> HIDE DEF argv
    <3> QED
      BY <3>3
  <2> QED
    BY <2>1, <2>2
<1> HIDE DEF argv
<1> DEFINE i == ProgramIndex(argv)
<1>8. PluginProgramIndex(argv) = i /\ i \in Nat \ {0}
  BY <1>7, ProgramsAlike DEF W
<1> HIDE DEF i
<1> DEFINE behind == SubSeq(argv, i + 1, Len(argv))
           Keeps(name) == ShouldKeepNativeShell(name, behind)
<1>9. i <= Len(argv) => (Keeps(PluginBaseProgramName(argv[i])) <=> Keeps(BaseProgramName(argv[i])))
  <2> SUFFICES ASSUME i <= Len(argv)
               PROVE  Keeps(PluginBaseProgramName(argv[i])) <=> Keeps(BaseProgramName(argv[i]))
    OBVIOUS
  <2> DEFINE word == argv[i]
  <2>1. i \in DOMAIN argv /\ i \in 1 .. Len(argv)
    BY <1>7, <1>8, LenProperties
  <2>2. word \in Seq(Chunk) /\ ~ NamedApart(word)
    BY <1>1, <1>7, <2>1 DEF W, i
  <2> HIDE DEF word, behind
  <2>3. ShouldKeepNativeShell(PluginBaseProgramName(word), behind)
            <=> ShouldKeepNativeShell(BaseProgramName(word), behind)
    BY <2>2, NamesAlike
  <2> QED
    BY <2>3 DEF word
<1>10. ShouldPreferSoShell(argv) <=> i <= Len(argv) /\ ~ Keeps(BaseProgramName(argv[i]))
  BY Zenon DEF ShouldPreferSoShell, i, Keeps, behind
<1>11. PreferredSoShellArgv(line) = IF i > Len(argv) \/ Keeps(PluginBaseProgramName(argv[i])) THEN <<>> ELSE argv
  BY <1>2, <1>5, <1>8, Zenon
<1> HIDE DEF Keeps
<1>12. Len(argv) \in Nat
  BY <1>7, LenProperties
<1>13. i > Len(argv) <=> ~ (i <= Len(argv))
  BY <1>8, <1>12
<1> QED
  BY <1>3, <1>7, <1>9, <1>10, <1>11, <1>13

(* The same searches are denied, but for an expression next to a pattern.  *)
LEMMA SearchClientsAgree ==
    ASSUME NEW in \in NativeSearch, ~ (in.query = {"expression"} /\ IsSimpleQuery(in.pattern))
    PROVE  PreferredSoSearchArgs(in) # None <=> PluginSoSearchArgs(in) # None
<1> DEFINE keys == OnlyAllowedSearchKeys(in)
           usable(text) == keys /\ IsSimpleQuery(text)
           text == IF in.query \notin {None, {""}} THEN in.query ELSE in.pattern
<1>1. /\ in.query \in {{}, {""}, {"literal"}, {"expression"}}
      /\ in.pattern \in {{}, {""}, {"literal"}, {"expression"}}
  BY DEF NativeSearch, None
<1>2. /\ IsSimpleQuery(in.query) <=> in.query = {"literal"}
      /\ IsSimpleQuery(in.pattern) <=> in.pattern = {"literal"}
  BY <1>1 DEF IsSimpleQuery, None
<1>3. keys => ~ in.regex
  BY DEF OnlyAllowedSearchKeys
<1>4. PluginSoSearchArgs(in) # None <=> keys /\ IsSimpleQuery(text)
  <2>1. IsSimpleQuery(text) => text # None
    BY DEF IsSimpleQuery, None
  <2>2. PluginSoSearchArgs(in) = IF keys /\ IsSimpleQuery(text) THEN text ELSE None
    BY DEF PluginSoSearchArgs
  <2> HIDE DEF text, keys
  <2> QED
    BY <2>1, <2>2
<1>5. PreferredSoSearchArgs(in) # None <=> keys /\ (IsSimpleQuery(in.query) \/ IsSimpleQuery(in.pattern))
  <2>1. IsSimpleQuery(in.query) => in.query # None
    BY DEF IsSimpleQuery, None
  <2>2. IsSimpleQuery(in.pattern) => in.pattern # None
    BY DEF IsSimpleQuery, None
  <2>3. PreferredSoSearchArgs(in) =
            CASE usable(in.query) -> in.query
              [] ~ usable(in.query) /\ ~ in.regex /\ usable(in.pattern) -> in.pattern
              [] OTHER -> None
    BY DEF PreferredSoSearchArgs
  <2> HIDE DEF keys
  <2> QED
    BY <1>3, <2>1, <2>2, <2>3
<1> HIDE DEF keys
<1>6. CASE in.query \in {{}, {""}}
  <2>1. text = in.pattern /\ ~ IsSimpleQuery(in.query)
    BY <1>2, <1>6 DEF None
  <2> QED
    BY <1>4, <1>5, <2>1
<1>7. CASE in.query \in {{"literal"}, {"expression"}}
  <2>1. text = in.query
    BY <1>7 DEF None
  <2>2. IsSimpleQuery(in.pattern) => in.query = {"literal"}
    BY <1>7
  <2> QED
    BY <1>2, <1>4, <1>5, <2>1, <2>2
<1> QED
  BY <1>1, <1>6, <1>7

(* The hook and the plugin deny the same calls, but for the four kinds     *)
(* they are known to differ in: every line, read and search.               *)
THEOREM AgentCallsClientsAgree == Spec => []ClientsAgree
<1>1. TypeOK => ClientsAgree
  <2> SUFFICES ASSUME call \in Calls, ~ KnownToDiffer(call) PROVE HookDenies(call) <=> PluginDenies(call)
    BY DEF TypeOK, ClientsAgree, ClientsAgreeOn
  <2>1. ASSUME NEW l \in Lines, call = ShellCall(l) PROVE HookDenies(call) <=> PluginDenies(call)
    <3> DEFINE argv == ParseSimpleShellCommand(Trim(l))
    <3>1. call.tool = "shell" /\ call.line = l
      BY <2>1 DEF ShellCall
    <3>2. l \in Seq(Chunk)
      BY AgentLinesAssumption DEF Chunk
    <3>3. /\ Assignments(argv) # Len(argv)
          /\ LET env == RewriteEnvPrefix(argv)
             IN  ~ (ProgramIndex(env) \in DOMAIN env /\ NamedApart(env[ProgramIndex(env)]))
      BY <3>1 DEF KnownToDiffer
    <3>4. HookArgv(l) # <<>> <=> PreferredSoShellArgv(l) # <<>>
      BY <3>2, <3>3, ShellClientsAgree
    <3> QED
      BY <3>1, <3>4 DEF HookDenies, PluginDenies
  <2>2. ASSUME NEW r \in NativeRead, call = ReadCall(r) PROVE HookDenies(call) <=> PluginDenies(call)
    <3>1. call.tool = "read"
      BY <2>2 DEF ReadCall
    <3> QED
      BY <3>1 DEF HookDenies, PluginDenies
  <2>3. ASSUME NEW q \in NativeSearch, call = SearchCall(q) PROVE HookDenies(call) <=> PluginDenies(call)
    <3>1. call.tool = "search" /\ call.input = q
      BY <2>3 DEF SearchCall
    <3>2. ~ (q.query = {"expression"} /\ IsSimpleQuery(q.pattern))
      BY <3>1 DEF KnownToDiffer
    <3>3. PreferredSoSearchArgs(q) # None <=> PluginSoSearchArgs(q) # None
      BY <3>2, SearchClientsAgree
    <3> QED
      BY <3>1, <3>3 DEF HookDenies, PluginDenies
  <2> QED
    BY <2>1, <2>2, <2>3 DEF Calls
<1> QED
  BY <1>1, AgentCallsTypeOK, PTL
=============================================================================
