------------------------- MODULE PublicationProofs -------------------------
(***************************************************************************)
(* Theorems about Publication, for any works, any faults and any number of *)
(* preparations and publications: what is told of a publication is so, and *)
(* every sequence of commands and rejected calls comes to an outcome of    *)
(* PublicationContract.                                                    *)
(*                                                                         *)
(* The inductive invariant follows a work on its way from the worktree to  *)
(* the branch (OnItsWay) and compares the session with what it was when    *)
(* the handler began (Halfway).                                            *)
(***************************************************************************)
EXTENDS Publication, Integers, SequenceTheorems, WellFoundedInduction, TLAPS

Preparing == {"reset", "clone", "fetchBase", "worktree", "prepared"}

(* While the .gitkeep files are written no error counts.                   *)
Delivering == Publishing \cup {"gitkeep"}

AllWorks == Works \cup HumanWorks

Commits == Seq(SUBSET AllWorks)

Outcomes == {"SCM_PR_CREATED", "SCM_NO_CHANGES", "SCM_FEEDBACK_SYNCED", "SCM_PUBLISH_FAILED"}

Trees == [exists : BOOLEAN, head : Commits, unstaged : SUBSET Works, kept : SUBSET Folders,
          staged : SUBSET Works, rebasing : BOOLEAN, fetched : Commits \cup {NoBranch},
          left : SUBSET {"r", "w"}]

TypeOK ==
  /\ stage \in {"idle"} \cup Preparing \cup Delivering
  /\ config \in ScmConfigs
  /\ tree \in Trees
  /\ branch \in Commits \cup {NoBranch}
  /\ request \in BOOLEAN
  /\ context \in [workspace : BOOLEAN, pullRequest : BOOLEAN]
  /\ bound \in BOOLEAN
  /\ told \in SUBSET Outcomes
  /\ taken \in SUBSET AllWorks
  /\ stuck \in SUBSET AllWorks
  /\ before \in [workspace : BOOLEAN, pullRequest : BOOLEAN, request : BOOLEAN,
                 bound : BOOLEAN, told : SUBSET Outcomes]
  /\ spent \in [publications : Nat, preparations : Nat, faults : Nat, pushes : Nat]

(* The provider has the pull request that the context knows.               *)
RequestKnown == context.pullRequest => request

(* The commits of the worktree are on the branch, or a push of them has    *)
(* failed, unless they are about to be pushed.                             *)
HeadIsSafe == stage # "push" => Brought(tree.head) \subseteq Pushed \cup stuck

(* What was fetched is on the branch; a rebase has something to go onto.   *)
FetchedIsPushed ==
  /\ tree.fetched # NoBranch => Brought(tree.fetched) \subseteq Pushed
  /\ stage = "rebase" => tree.fetched # NoBranch

(* Where the works are that were in the worktree when the publication      *)
(* began.                                                                  *)
OnItsWay ==
  /\ stage \in {"fetch", "rebase", "stage"} =>
       taken \subseteq (tree.unstaged \ Folders) \cup tree.staged \cup Brought(tree.head)
  /\ stage \in {"status", "stageKept", "statusKept", "commit"} =>
       taken \subseteq tree.staged \cup Brought(tree.head)
  /\ stage \in {"gitkeep", "unchanged", "push"} => taken \subseteq Brought(tree.head)
  /\ stage \in {"create", "feedback", "save", "bind", "tellCreated"} => taken \subseteq Pushed
  /\ stage = "tellUnchanged" => taken \subseteq Pushed \cup stuck

(* The context, the provider and the bindings against what they were.      *)
SameContext ==
  /\ context.workspace = before.workspace
  /\ context.pullRequest = before.pullRequest

SameOutside == request = before.request /\ bound = before.bound

Asked == request /\ (before.pullRequest \/ ~before.request)

Saved == context.workspace /\ context.pullRequest /\ Asked

Dropped == context.workspace /\ ~context.pullRequest /\ SameOutside

(* How far the handler has come.                                           *)
Halfway ==
  /\ stage \in Preparing => Settled = before
  /\ stage \in Delivering => before.workspace
  /\ stage \in Delivering \ {"tellFeedback"} => told = {}
  /\ stage \in {"fetch", "rebase", "stage", "status", "stageKept", "statusKept", "commit",
                "push", "gitkeep", "unchanged", "create"} => SameContext /\ SameOutside
  /\ stage = "create" => ~before.pullRequest
  /\ stage \in {"feedback", "save"} => SameContext /\ bound = before.bound /\ Asked
  /\ stage = "bind" => Saved /\ bound = before.bound
  /\ stage = "tellCreated" => Saved /\ bound
  /\ stage = "tellUnchanged" => Dropped
  /\ stage = "tellFeedback" =>
       \/ told = {"SCM_PR_CREATED"} /\ Saved /\ bound
       \/ told = {"SCM_NO_CHANGES"} /\ Dropped

Inv ==
  /\ TypeOK /\ RequestKnown /\ HeadIsSafe /\ FetchedIsPushed /\ OnItsWay /\ Halfway
  /\ PublishedIsDelivered
-----------------------------------------------------------------------------
(* Induction for a set of numbers, from the least number of its complement. *)
LEMMA LessThanIsWellFounded ==
  IsWellFoundedOn({ss \in Nat \X Nat : ss[1] < ss[2]}, Nat)
BY NatLessThanWellFounded DEF OpToRel

(* A set of numbers has a least.                                           *)
LEMMA LeastOf ==
  ASSUME NEW T \in SUBSET Nat, T # {}
  PROVE  \E m \in T : \A k \in T : m <= k
<1> DEFINE R == {ss \in Nat \X Nat : ss[1] < ss[2]}
<1>1. IsWellFoundedOn(R, Nat)
  BY LessThanIsWellFounded
<1>2. ASSUME NEW k \in T, NEW m \in T, ~ (<<k, m>> \in R)
      PROVE  m <= k
  <2>1. k \in Nat /\ m \in Nat
    OBVIOUS
  <2>2. k < m => <<k, m>> \in R
    BY <2>1
  <2> QED BY <2>1, <2>2, <1>2
<1> HIDE DEF R
<1>3. \E m \in T : \A k \in T : ~ (<<k, m>> \in R)
  BY <1>1, WFMin
<1> QED BY <1>3, <1>2

(* What holds of 0 and goes on from each number to the next holds of all   *)
(* numbers; a set, where the library's theorem has an operator.            *)
LEMMA Induction ==
  ASSUME NEW S, 0 \in S, \A n \in Nat : n \in S => n + 1 \in S
  PROVE  Nat \subseteq S
<1> DEFINE T == {n \in Nat : n \notin S}
<1>1. SUFFICES ASSUME T # {} PROVE FALSE
  OBVIOUS
<1>2. PICK m \in T : \A k \in T : m <= k
  BY <1>1, LeastOf
<1>3. m # 0 /\ m - 1 \in Nat
  OBVIOUS
<1>4. m - 1 \notin T
  BY <1>2, <1>3
<1> QED BY <1>3, <1>4

(* The function that Without(commits, known) computes up to n.             *)
Rest(commits, known, n, rest) ==
  rest = [i \in 0..n |->
            IF i = 0 THEN <<>>
            ELSE IF commits[i] \in known THEN rest[i - 1] ELSE Append(rest[i - 1], commits[i])]

(* What Without computes has a value at every number, ...                  *)
LEMMA RestExists ==
  ASSUME NEW commits, NEW known, NEW n \in Nat
  PROVE  \E rest : Rest(commits, known, n, rest)
<1> DEFINE S == {m \in Nat : \E rest : Rest(commits, known, m, rest)}
<1>1. 0 \in S
  <2>1. Rest(commits, known, 0, [i \in 0..0 |-> <<>>])
    BY DEF Rest
  <2> QED BY <2>1
<1>2. ASSUME NEW m \in Nat, m \in S
      PROVE  m + 1 \in S
  <2>1. PICK rest : Rest(commits, known, m, rest)
    BY <1>2
  <2> DEFINE next == [i \in 0..(m + 1) |->
                        IF i <= m THEN rest[i]
                        ELSE IF commits[i] \in known THEN rest[m]
                        ELSE Append(rest[m], commits[i])]
  <2>2. ASSUME NEW i \in 0..(m + 1)
        PROVE  next[i] = IF i = 0 THEN <<>>
                         ELSE IF commits[i] \in known THEN next[i - 1]
                         ELSE Append(next[i - 1], commits[i])
    <3>1. CASE i = m + 1
      BY <3>1
    <3>2. CASE i # m + 1
      <4>1. i \in 0..m /\ (i # 0 => i - 1 \in 0..m)
        BY <3>2
      <4>2. rest[i] = IF i = 0 THEN <<>>
                      ELSE IF commits[i] \in known THEN rest[i - 1]
                      ELSE Append(rest[i - 1], commits[i])
        BY <4>1, <2>1 DEF Rest
      <4> QED BY <4>1, <4>2
    <3> QED BY <3>1, <3>2
  <2>3. Rest(commits, known, m + 1, next)
    BY <2>2 DEF Rest
  <2>4. \E h : Rest(commits, known, m + 1, h)
    BY <2>3
  <2> QED BY <2>4
<1>3. Nat \subseteq S
  <2> HIDE DEF S
  <2> QED BY <1>1, <1>2, Induction
<1> QED BY <1>3

(* ... so that its definition is the recursion it states.                  *)
LEMMA WithoutIsRest ==
  ASSUME NEW S, NEW commits \in Seq(S), NEW known
  PROVE  \E rest : /\ Rest(commits, known, Len(commits), rest)
                   /\ Without(commits, known) = rest[Len(commits)]
<1> DEFINE rest == CHOOSE r : Rest(commits, known, Len(commits), r)
<1>1. Rest(commits, known, Len(commits), rest)
  BY RestExists
<1>2. Without(commits, known) = rest[Len(commits)]
  BY Zenon DEF Without, Rest
<1> QED BY <1>1, <1>2

(* The elements of a sequence that has grown.                              *)
LEMMA ToSetAppend ==
  ASSUME NEW S, NEW s \in Seq(S), NEW e \in S
  PROVE  Append(s, e) \in Seq(S) /\ ToSet(Append(s, e)) = ToSet(s) \cup {e}
<1> DEFINE t == Append(s, e)
<1>1. /\ t \in Seq(S) /\ Len(t) = Len(s) + 1
      /\ \A i \in 1..Len(s) : t[i] = s[i]
      /\ t[Len(s) + 1] = e
  BY AppendProperties
<1>2. /\ Len(s) \in Nat /\ DOMAIN s = 1..Len(s) /\ DOMAIN t = 1..Len(t)
  BY <1>1
<1> HIDE DEF t
<1>3. ToSet(t) = ToSet(s) \cup {e}
  <2>1. ASSUME NEW x \in ToSet(t) PROVE x \in ToSet(s) \cup {e}
    <3>1. PICK i \in DOMAIN t : x = t[i]
      BY DEF ToSet
    <3>2. CASE i = Len(s) + 1
      BY <3>1, <3>2, <1>1
    <3>3. CASE i # Len(s) + 1
      <4>1. i \in 1..Len(s)
        BY <3>1, <3>3, <1>1, <1>2
      <4> QED BY <4>1, <3>1, <1>1, <1>2 DEF ToSet
    <3> QED BY <3>2, <3>3
  <2>2. ASSUME NEW x \in ToSet(s) PROVE x \in ToSet(t)
    <3>1. PICK i \in DOMAIN s : x = s[i]
      BY DEF ToSet
    <3>2. i \in DOMAIN t /\ t[i] = x
      BY <3>1, <1>1, <1>2
    <3> QED BY <3>2 DEF ToSet
  <2>3. e \in ToSet(t)
    <3>1. Len(s) + 1 \in DOMAIN t
      BY <1>1, <1>2
    <3> QED BY <3>1, <1>1 DEF ToSet
  <2> QED BY <2>1, <2>2, <2>3
<1> QED BY <1>1, <1>3 DEF t

(* The elements of a concatenation.                                        *)
LEMMA ToSetConcat ==
  ASSUME NEW S, NEW s \in Seq(S), NEW t \in Seq(S)
  PROVE  s \o t \in Seq(S) /\ ToSet(s \o t) = ToSet(s) \cup ToSet(t)
<1> DEFINE u == s \o t
<1>1. /\ u \in Seq(S) /\ Len(u) = Len(s) + Len(t)
      /\ \A i \in 1 .. Len(s) + Len(t) : u[i] = IF i <= Len(s) THEN s[i] ELSE t[i - Len(s)]
  BY ConcatProperties
<1>2. /\ Len(s) \in Nat /\ Len(t) \in Nat
      /\ DOMAIN s = 1..Len(s) /\ DOMAIN t = 1..Len(t) /\ DOMAIN u = 1..Len(s) + Len(t)
  BY <1>1
<1> HIDE DEF u
<1>3. ASSUME NEW x \in ToSet(u) PROVE x \in ToSet(s) \cup ToSet(t)
  <2>1. PICK i \in DOMAIN u : x = u[i]
    BY DEF ToSet
  <2>2. CASE i <= Len(s)
    <3>1. i \in DOMAIN s /\ x = s[i]
      BY <2>1, <2>2, <1>1, <1>2
    <3> QED BY <3>1 DEF ToSet
  <2>3. CASE ~(i <= Len(s))
    <3>1. i - Len(s) \in DOMAIN t /\ x = t[i - Len(s)]
      BY <2>1, <2>3, <1>1, <1>2
    <3> QED BY <3>1 DEF ToSet
  <2> QED BY <2>2, <2>3
<1>4. ASSUME NEW x \in ToSet(s) PROVE x \in ToSet(u)
  <2>1. PICK i \in DOMAIN s : x = s[i]
    BY DEF ToSet
  <2>2. i \in DOMAIN u /\ u[i] = x
    BY <2>1, <1>1, <1>2
  <2> QED BY <2>2 DEF ToSet
<1>5. ASSUME NEW x \in ToSet(t) PROVE x \in ToSet(u)
  <2>1. PICK i \in DOMAIN t : x = t[i]
    BY DEF ToSet
  <2>2. i + Len(s) \in DOMAIN u /\ u[i + Len(s)] = x
    BY <2>1, <1>1, <1>2
  <2> QED BY <2>2 DEF ToSet
<1>6. ToSet(u) = ToSet(s) \cup ToSet(t)
  BY <1>3, <1>4, <1>5
<1> QED BY <1>1, <1>6 DEF u

(* Without takes the commits that are known out of a sequence, and nothing *)
(* else.                                                                   *)
LEMMA WithoutSelects ==
  ASSUME NEW S, NEW commits \in Seq(S), NEW known
  PROVE  /\ Without(commits, known) \in Seq(S)
         /\ ToSet(Without(commits, known)) = ToSet(commits) \ known
<1>1. PICK rest : /\ Rest(commits, known, Len(commits), rest)
                  /\ Without(commits, known) = rest[Len(commits)]
  BY WithoutIsRest
<1>2. Len(commits) \in Nat /\ DOMAIN commits = 1..Len(commits)
  OBVIOUS
<1> DEFINE Upto(n) == {commits[i] : i \in 1..n}
           Selected(n) == /\ rest[n] \in Seq(S)
                          /\ ToSet(rest[n]) = Upto(n) \ known
           T == {n \in Nat : n <= Len(commits) => Selected(n)}
<1>3. 0 \in T
  <2>1. rest[0] = <<>>
    BY <1>1, <1>2 DEF Rest
  <2>2. ToSet(<<>>) = {} /\ Upto(0) = {} /\ <<>> \in Seq(S)
    BY DEF ToSet
  <2> QED BY <2>1, <2>2
<1>4. ASSUME NEW n \in Nat, n \in T
      PROVE  n + 1 \in T
  <2>1. SUFFICES ASSUME n + 1 <= Len(commits) PROVE Selected(n + 1)
    OBVIOUS
  <2>2. n \in 0..Len(commits) /\ n + 1 \in 0..Len(commits) /\ n + 1 \in 1..Len(commits)
    BY <2>1, <1>2
  <2>3. Selected(n)
    BY <2>2, <1>4
  <2>4. rest[n + 1] = IF commits[n + 1] \in known THEN rest[n]
                      ELSE Append(rest[n], commits[n + 1])
    <3>1. \A i \in 0..Len(commits) :
            rest[i] = IF i = 0 THEN <<>>
                      ELSE IF commits[i] \in known THEN rest[i - 1]
                      ELSE Append(rest[i - 1], commits[i])
      BY <1>1 DEF Rest
    <3>2. n + 1 # 0 /\ (n + 1) - 1 = n
      BY <2>2
    <3> QED BY <3>1, <3>2, <2>2
  <2>5. Upto(n + 1) = Upto(n) \cup {commits[n + 1]}
    <3>1. 1..(n + 1) = 1..n \cup {n + 1}
      OBVIOUS
    <3> QED BY <3>1
  <2>6. commits[n + 1] \in S
    BY <2>2
  <2>7. commits[n + 1] \notin known =>
          /\ Append(rest[n], commits[n + 1]) \in Seq(S)
          /\ ToSet(Append(rest[n], commits[n + 1])) = ToSet(rest[n]) \cup {commits[n + 1]}
    BY <2>3, <2>6, ToSetAppend
  <2> HIDE DEF Upto
  <2> QED BY <2>3, <2>4, <2>5, <2>7
<1>5. Nat \subseteq T
  <2> HIDE DEF T
  <2> QED BY <1>3, <1>4, Induction
<1>6. Selected(Len(commits))
  <2> HIDE DEF Selected
  <2> QED BY <1>5, <1>2
<1>7. Upto(Len(commits)) = ToSet(commits)
  BY <1>2 DEF ToSet
<1> QED BY <1>1, <1>6, <1>7

(* What commits bring.                                                     *)
LEMMA BroughtEmpty == Brought(<<>>) = {}
BY DEF Brought, ToSet

(* One commit more brings its works.                                       *)
LEMMA BroughtAppend ==
  ASSUME NEW s \in Commits, NEW w \in SUBSET AllWorks
  PROVE  Append(s, w) \in Commits /\ Brought(Append(s, w)) = Brought(s) \cup w
<1>1. Append(s, w) \in Commits /\ ToSet(Append(s, w)) = ToSet(s) \cup {w}
  BY ToSetAppend DEF Commits
<1>2. UNION (ToSet(s) \cup {w}) = (UNION ToSet(s)) \cup w
  OBVIOUS
<1> QED BY <1>1, <1>2 DEF Brought

(* Commits bring works that exist.                                         *)
LEMMA BroughtTypes ==
  ASSUME NEW s \in Commits
  PROVE  Brought(s) \subseteq AllWorks
BY DEF Brought, ToSet, Commits

(* A branch brings what any earlier state of it brought.                   *)
LEMMA PrefixBrings ==
  ASSUME NEW s \in Commits, NEW t \in Commits, IsPrefix(s, t)
  PROVE  Brought(s) \subseteq Brought(t)
<1>1. Len(s) \in Nat /\ Len(t) \in Nat /\ Len(s) <= Len(t)
  BY DEF IsPrefix, Commits
<1>2. DOMAIN s = 1..Len(s) /\ DOMAIN t = 1..Len(t)
  BY DEF Commits
<1>3. ASSUME NEW i \in 1..Len(s) PROVE s[i] = t[i] /\ i \in 1..Len(t)
  <2>1. SubSeq(s, 1, Len(s))[i] = s[i] /\ SubSeq(t, 1, Len(s))[i] = t[i]
    BY <1>1 DEF Commits
  <2> QED BY <2>1, <1>1 DEF IsPrefix
<1>4. ToSet(s) \subseteq ToSet(t)
  BY <1>2, <1>3 DEF ToSet
<1> QED BY <1>4 DEF Brought

(* A rebase loses nothing, and brings nothing that neither side had.       *)
LEMMA RebaseKeeps ==
  ASSUME NEW head \in Commits, NEW fetched \in Commits
  PROVE  LET rebased == fetched \o Without(head, ToSet(fetched))
         IN  /\ rebased \in Commits
             /\ Brought(head) \subseteq Brought(rebased)
             /\ Brought(rebased) \subseteq Brought(fetched) \cup Brought(head)
<1> DEFINE mine == Without(head, ToSet(fetched))
<1>1. mine \in Commits /\ ToSet(mine) = ToSet(head) \ ToSet(fetched)
  BY WithoutSelects DEF Commits
<1> HIDE DEF mine
<1>2. fetched \o mine \in Commits /\ ToSet(fetched \o mine) = ToSet(fetched) \cup ToSet(mine)
  BY <1>1, ToSetConcat DEF Commits
<1>3. ToSet(fetched \o mine) = ToSet(fetched) \cup ToSet(head)
  BY <1>1, <1>2
<1>4. UNION (ToSet(fetched) \cup ToSet(head)) = (UNION ToSet(fetched)) \cup (UNION ToSet(head))
  OBVIOUS
<1>5. Brought(fetched \o mine) = Brought(fetched) \cup Brought(head)
  BY <1>3, <1>4 DEF Brought
<1> QED BY <1>2, <1>5 DEF mine
-----------------------------------------------------------------------------
(* The branch never loses what it has; a commit that is made, a rebase and *)
(* a push keep their types.                                                *)
LEMMA NoBranchIsNone == NoBranch \notin Commits
BY PublicationAssumption DEF Commits, AllWorks, Works

(* The empty history is a history.                                         *)
LEMMA EmptyIsCommits == <<>> \in Commits
BY DEF Commits

(* Nothing is prepared, published or told at the start.                    *)
LEMMA InitInv == Init => Inv
<1> SUFFICES ASSUME Init PROVE Inv
  OBVIOUS
<1> USE NoBranchIsNone, EmptyIsCommits, BroughtEmpty
<1>1. TypeOK
  BY DEF Init, TypeOK, Trees, NoTree, Settled, ScmConfigs, Outcomes
<1>2. RequestKnown /\ HeadIsSafe /\ FetchedIsPushed
  BY DEF Init, RequestKnown, HeadIsSafe, FetchedIsPushed, NoTree, Pushed
<1>3. OnItsWay /\ Halfway /\ PublishedIsDelivered
  BY DEF Init, OnItsWay, Halfway, PublishedIsDelivered, Publishing, Delivering, Preparing
<1> QED BY <1>1, <1>2, <1>3 DEF Inv

(* Every git command and request keeps the types.                          *)
LEMMA TypeNext == Inv /\ [Next]_pubVars => TypeOK'
<1> SUFFICES ASSUME Inv, [Next]_pubVars PROVE TypeOK'
  OBVIOUS
<1> USE NoBranchIsNone, EmptyIsCommits DEF Inv, Go
<1>a. TypeOK
  OBVIOUS
<1> USE DEF TypeOK, Publishing, Delivering, Preparing, Outcomes
<1>1. CASE StartPreparation
  BY <1>1, <1>a DEF StartPreparation, Settled
<1>2. CASE ResetWorkspaceDirectories
  <2>1. NoTree \in Trees /\ \A l \in SUBSET {"r", "w"} : [NoTree EXCEPT !.left = l] \in Trees
    BY DEF NoTree, Trees
  <2>2. tree' \in Trees
    <3>1. tree' = NoTree \/ \E l \in SUBSET {"r", "w"} : tree' = [NoTree EXCEPT !.left = l]
      BY <1>2, Zenon DEF ResetWorkspaceDirectories
    <3>2. CASE tree' = NoTree
      BY <3>2, <2>1, Zenon
    <3>3. ASSUME NEW l \in SUBSET {"r", "w"}, tree' = [NoTree EXCEPT !.left = l]
          PROVE  tree' \in Trees
      BY <3>3, <2>1, Zenon
    <3> QED BY <3>1, <3>2, <3>3, Zenon
  <2>3. spent' \in [publications : Nat, preparations : Nat, faults : Nat, pushes : Nat]
    BY <1>2, <1>a DEF ResetWorkspaceDirectories
  <2> QED BY <2>2, <2>3, <1>2, <1>a DEF ResetWorkspaceDirectories
<1>3. CASE CloneRepositoryWithRecovery
  <2>1. tree' \in Trees
    BY <1>3, <1>a DEF CloneRepositoryWithRecovery, Trees
  <2> QED BY <2>1, <1>3, <1>a DEF CloneRepositoryWithRecovery
<1>4. CASE CreateWorktree
  <2>1. tree' \in Trees
    BY <1>4, <1>a DEF CreateWorktree, Trees
  <2> QED BY <2>1, <1>4, <1>a DEF CreateWorktree
<1>22. CASE FetchBaseBranch \/ FailPreparation
  <2>1. spent' \in [publications : Nat, preparations : Nat, faults : Nat, pushes : Nat]
    BY <1>22, <1>a DEF FetchBaseBranch, FailPreparation
  <2> QED BY <2>1, <1>22, <1>a DEF FetchBaseBranch, FailPreparation
<1>23. CASE SavePrepared \/ UpdateSessionScmContext
  <2>1. context' \in [workspace : BOOLEAN, pullRequest : BOOLEAN]
    <3>1. \E p \in BOOLEAN : context' = [workspace |-> TRUE, pullRequest |-> p]
      BY <1>23, Zenon DEF SavePrepared, UpdateSessionScmContext
    <3> QED BY <3>1
  <2> QED BY <2>1, <1>23, <1>a DEF SavePrepared, UpdateSessionScmContext
<1>5. CASE StartPublication
  <2>1. taken' \in SUBSET AllWorks
    BY <1>5, <1>a, BroughtTypes DEF StartPublication, Trees, AllWorks
  <2> QED BY <2>1, <1>5, <1>a DEF StartPublication, Settled
<1>6. CASE FetchBranch
  BY <1>6, <1>a DEF FetchBranch, Trees
<1>7. CASE RebaseOntoRemoteBranch
  <2>1. tree.head \in Commits /\ tree.fetched \in Commits
    BY <1>7, <1>a DEF RebaseOntoRemoteBranch, Trees, FetchedIsPushed
  <2>2. tree.fetched \o Mine \in Commits
    BY <2>1, RebaseKeeps DEF Mine
  <2> QED BY <2>2, <1>7, <1>a DEF RebaseOntoRemoteBranch, Trees
<1>8. CASE AddAll
  BY <1>8, <1>a DEF AddAll, Visible, Trees
<1>9. CASE HasChanges
  BY <1>9, <1>a DEF HasChanges
<1>10. CASE AddGitkeepToEmptyDirs
  BY <1>10, <1>a DEF AddGitkeepToEmptyDirs, Trees
<1>11. CASE Commit
  <2>1. Append(tree.head, tree.staged) \in Commits
    <3>1. tree.staged \in SUBSET AllWorks /\ tree.head \in Commits
      BY <1>a DEF Trees, AllWorks
    <3> QED BY <3>1, BroughtAppend
  <2> QED BY <2>1, <1>11, <1>a DEF Commit, Trees
<1>12. CASE PushBranch
  BY <1>12, <1>a DEF PushBranch, Trees, ExistingPullRequest
<1>13. CASE CreatePullRequest \/ CollectFeedback
  BY <1>13, <1>a DEF CreatePullRequest, CollectFeedback
<1>14. CASE Bind
  BY <1>14, <1>a DEF Bind
<1>15. CASE EmitResult
  BY <1>15, <1>a DEF EmitResult, Tell
<1>16. CASE PublicationRefused
  <2>1. stuck' \in SUBSET AllWorks
    BY <1>16, <1>a, BroughtTypes DEF PublicationRefused, CatchError, Trees
  <2> QED BY <2>1, <1>16, <1>a DEF PublicationRefused, CatchError
<1>17. CASE RebaseConflict
  <2>1. stuck' = stuck
    BY <1>17 DEF RebaseConflict, CatchError
  <2> QED BY <2>1, <1>17, <1>a DEF RebaseConflict, CatchError, Trees
<1>18. CASE PublicationFails
  <2>1. stuck' \in SUBSET AllWorks
    BY <1>18, <1>a, BroughtTypes DEF PublicationFails, CatchError, Trees
  <2>2. branch' \in Commits \cup {NoBranch} /\ request' \in BOOLEAN
    BY <1>18, <1>a DEF PublicationFails, Trees
  <2> QED BY <2>1, <2>2, <1>18, <1>a DEF PublicationFails, CatchError
<1>19. ASSUME NEW w \in Works, AgentWorks(w) PROVE TypeOK'
  BY <1>19, <1>a DEF AgentWorks, Trees
<1>20. ASSUME NEW h \in HumanWorks, HumanPush(h) PROVE TypeOK'
  <2>1. branch' \in Commits
    BY <1>20, <1>a, BroughtAppend DEF HumanPush, AllWorks
  <2> QED BY <2>1, <1>20, <1>a DEF HumanPush
<1>21. CASE UNCHANGED pubVars
  BY <1>21, <1>a DEF pubVars
<1> QED
  BY <1>1, <1>2, <1>3, <1>4, <1>5, <1>6, <1>7, <1>8, <1>9, <1>10, <1>11, <1>12, <1>13,
     <1>14, <1>15, <1>16, <1>17, <1>18, <1>19, <1>20, <1>21, <1>22, <1>23
  DEF Next, PrepareWorkspace, PublishAndCollectFeedback

(* Each step of the handler leaves the context, the provider and the       *)
(* bindings as the next stage expects them.                                *)
LEMMA HalfwayNext == Inv /\ [Next]_pubVars => (RequestKnown /\ Halfway)'
<1> SUFFICES ASSUME Inv, [Next]_pubVars PROVE (RequestKnown /\ Halfway)'
  OBVIOUS
<1>a. TypeOK /\ RequestKnown /\ Halfway
  BY DEF Inv
<1>b. /\ context \in [workspace : BOOLEAN, pullRequest : BOOLEAN]
      /\ request \in BOOLEAN /\ bound \in BOOLEAN
      /\ before \in [workspace : BOOLEAN, pullRequest : BOOLEAN, request : BOOLEAN,
                     bound : BOOLEAN, told : SUBSET Outcomes]
      /\ stage \in {"idle"} \cup Preparing \cup Delivering
  BY <1>a DEF TypeOK
<1> USE <1>a, <1>b
    DEF RequestKnown, Halfway, SameContext, SameOutside, Asked, Saved, Dropped, Settled,
        Publishing, Delivering, Preparing, Go, ScmWorkspace, ExistingPullRequest
<1>1. CASE StartPreparation
  BY <1>1 DEF StartPreparation
<1>2. CASE ResetWorkspaceDirectories
  BY <1>2 DEF ResetWorkspaceDirectories
<1>3. CASE CloneRepositoryWithRecovery
  BY <1>3 DEF CloneRepositoryWithRecovery
<1>4. CASE FetchBaseBranch
  BY <1>4 DEF FetchBaseBranch
<1>5. CASE CreateWorktree
  BY <1>5 DEF CreateWorktree
<1>6. CASE SavePrepared
  BY <1>6 DEF SavePrepared
<1>7. CASE FailPreparation
  BY <1>7 DEF FailPreparation
<1>8. CASE StartPublication
  BY <1>8 DEF StartPublication
<1>9. CASE FetchBranch
  BY <1>9 DEF FetchBranch
<1>10. CASE RebaseOntoRemoteBranch
  BY <1>10 DEF RebaseOntoRemoteBranch
<1>11. CASE AddAll
  BY <1>11 DEF AddAll
<1>12. CASE HasChanges
  BY <1>12 DEF HasChanges
<1>13. CASE AddGitkeepToEmptyDirs
  BY <1>13 DEF AddGitkeepToEmptyDirs
<1>14. CASE Commit
  BY <1>14 DEF Commit
<1>15. CASE PushBranch
  BY <1>15 DEF PushBranch
<1>16. CASE CreatePullRequest
  BY <1>16 DEF CreatePullRequest
<1>17. CASE CollectFeedback
  BY <1>17 DEF CollectFeedback
<1>18. CASE UpdateSessionScmContext
  BY <1>18 DEF UpdateSessionScmContext
<1>19. CASE Bind
  BY <1>19 DEF Bind
<1>20. CASE EmitResult
  BY <1>20 DEF EmitResult, Tell
<1>21. CASE PublicationRefused
  BY <1>21 DEF PublicationRefused, CatchError
<1>22. CASE RebaseConflict
  BY <1>22 DEF RebaseConflict, CatchError
<1>23. CASE PublicationFails
  BY <1>23 DEF PublicationFails, CatchError
<1>24. ASSUME NEW w \in Works, AgentWorks(w) PROVE (RequestKnown /\ Halfway)'
  BY <1>24 DEF AgentWorks
<1>25. ASSUME NEW h \in HumanWorks, HumanPush(h) PROVE (RequestKnown /\ Halfway)'
  BY <1>25 DEF HumanPush
<1>26. CASE UNCHANGED pubVars
  BY <1>26 DEF pubVars
<1> QED
  BY <1>1, <1>2, <1>3, <1>4, <1>5, <1>6, <1>7, <1>8, <1>9, <1>10, <1>11, <1>12, <1>13,
     <1>14, <1>15, <1>16, <1>17, <1>18, <1>19, <1>20, <1>21, <1>22, <1>23, <1>24, <1>25,
     <1>26
  DEF Next, PrepareWorkspace, PublishAndCollectFeedback

(* No push takes anything from the branch, and no failure is forgotten.    *)
LEMMA NothingIsTaken == Inv /\ [Next]_pubVars => Pushed \subseteq Pushed' /\ stuck \subseteq stuck'
<1> SUFFICES ASSUME Inv, [Next]_pubVars PROVE Pushed \subseteq Pushed' /\ stuck \subseteq stuck'
  OBVIOUS
<1>a. tree.head \in Commits /\ branch \in Commits \cup {NoBranch} /\ NoBranch \notin Commits
  BY NoBranchIsNone DEF Inv, TypeOK, Trees
<1>1. stuck \subseteq stuck'
  BY DEF Next, PrepareWorkspace, PublishAndCollectFeedback, StartPreparation,
     ResetWorkspaceDirectories, CloneRepositoryWithRecovery, FetchBaseBranch, CreateWorktree,
     SavePrepared, FailPreparation, StartPublication, FetchBranch, RebaseOntoRemoteBranch,
     AddAll, HasChanges, AddGitkeepToEmptyDirs, Commit, PushBranch, CreatePullRequest,
     CollectFeedback, UpdateSessionScmContext, Bind, EmitResult, Tell, PublicationRefused,
     RebaseConflict, PublicationFails, CatchError, AgentWorks, HumanPush, pubVars
<1>2. \/ branch' = branch
      \/ branch' = tree.head /\ (branch # NoBranch => IsPrefix(branch, tree.head))
      \/ \E h \in HumanWorks : branch # NoBranch /\ branch' = Append(branch, {h})
  BY DEF Next, PrepareWorkspace, PublishAndCollectFeedback, StartPreparation,
     ResetWorkspaceDirectories, CloneRepositoryWithRecovery, FetchBaseBranch, CreateWorktree,
     SavePrepared, FailPreparation, StartPublication, FetchBranch, RebaseOntoRemoteBranch,
     AddAll, HasChanges, AddGitkeepToEmptyDirs, Commit, PushBranch, CreatePullRequest,
     CollectFeedback, UpdateSessionScmContext, Bind, EmitResult, Tell, PublicationRefused,
     RebaseConflict, PublicationFails, Refused, AgentWorks, HumanPush, pubVars
<1>3. CASE branch' = branch
  BY <1>1, <1>3 DEF Pushed
<1>4. CASE branch' = tree.head /\ (branch # NoBranch => IsPrefix(branch, tree.head))
  <2>1. branch # NoBranch => Brought(branch) \subseteq Brought(tree.head)
    BY <1>a, <1>4, PrefixBrings
  <2> QED BY <2>1, <1>1, <1>4, <1>a DEF Pushed
<1>5. ASSUME NEW h \in HumanWorks, branch # NoBranch, branch' = Append(branch, {h})
      PROVE  Pushed \subseteq Pushed'
  <2>1. {h} \in SUBSET AllWorks
    BY DEF AllWorks
  <2>2. Append(branch, {h}) \in Commits /\ Brought(Append(branch, {h})) = Brought(branch) \cup {h}
    BY <1>a, <1>5, <2>1, BroughtAppend
  <2> QED BY <2>2, <1>5, <1>a DEF Pushed
<1> QED BY <1>1, <1>2, <1>3, <1>4, <1>5

(* The works of the worktree stay on their way to the branch.              *)
WorksAreSafe == HeadIsSafe /\ FetchedIsPushed /\ OnItsWay

(* No command loses a work that the agents have left: it stays in the      *)
(* worktree or comes to a commit of the branch.                            *)
LEMMA WorksNext == Inv /\ [Next]_pubVars => WorksAreSafe'
<1> SUFFICES ASSUME Inv, [Next]_pubVars PROVE WorksAreSafe'
  OBVIOUS
<1>a. TypeOK /\ WorksAreSafe
  BY DEF Inv, WorksAreSafe
<1>b. /\ tree \in Trees
      /\ tree.head \in Commits /\ branch \in Commits \cup {NoBranch} /\ NoBranch \notin Commits
      /\ tree.unstaged \in SUBSET Works /\ tree.staged \in SUBSET Works
      /\ stage \in {"idle"} \cup Preparing \cup Delivering
  BY <1>a, NoBranchIsNone DEF TypeOK, Trees
<1>c. Pushed \subseteq Pushed' /\ stuck \subseteq stuck'
  BY NothingIsTaken
<1> USE <1>a, <1>b, <1>c
    DEF WorksAreSafe, HeadIsSafe, FetchedIsPushed, OnItsWay, Publishing, Delivering, Preparing, Go
<1>1. CASE StartPreparation
  BY <1>1 DEF StartPreparation
<1>2. CASE ResetWorkspaceDirectories
  <2>1. tree'.head = <<>> /\ tree'.fetched = NoBranch /\ stage' = "clone"
    BY <1>2 DEF ResetWorkspaceDirectories, NoTree
  <2> QED BY <2>1, BroughtEmpty
<1>3. CASE CloneRepositoryWithRecovery
  <2>1. tree'.head = tree.head /\ tree'.fetched = tree.fetched /\ stage' = "fetchBase"
    BY <1>3 DEF CloneRepositoryWithRecovery, Trees
  <2> QED BY <2>1, <1>3 DEF CloneRepositoryWithRecovery
<1>4. CASE FetchBaseBranch
  BY <1>4 DEF FetchBaseBranch
<1>5. CASE CreateWorktree
  <2>1. tree'.head = tree.head /\ tree'.fetched = tree.fetched /\ stage' = "prepared"
    BY <1>5 DEF CreateWorktree, Trees
  <2> QED BY <2>1, <1>5 DEF CreateWorktree
<1>6. CASE SavePrepared
  BY <1>6 DEF SavePrepared
<1>7. CASE FailPreparation
  BY <1>7 DEF FailPreparation
<1>8. CASE StartPublication
  BY <1>8 DEF StartPublication
<1>9. CASE FetchBranch
  <2>1. /\ tree'.head = tree.head /\ tree'.fetched = branch /\ stage' = "rebase"
        /\ tree'.unstaged = tree.unstaged /\ tree'.staged = tree.staged
        /\ branch # NoBranch /\ branch' = branch /\ taken' = taken /\ stage = "fetch"
    BY <1>9 DEF FetchBranch, Trees
  <2> QED BY <2>1, <1>9 DEF FetchBranch, Pushed
<1>10. CASE RebaseOntoRemoteBranch
  <2>1. /\ tree.fetched \in Commits
        /\ stage = "rebase" /\ stage' = "stage" /\ taken' = taken
        /\ tree'.head = tree.fetched \o Mine /\ tree'.fetched = tree.fetched
        /\ tree'.unstaged = tree.unstaged /\ tree'.staged = tree.staged
    BY <1>10 DEF RebaseOntoRemoteBranch, Trees
  <2>2. /\ Brought(tree.head) \subseteq Brought(tree.fetched \o Mine)
        /\ Brought(tree.fetched \o Mine) \subseteq Brought(tree.fetched) \cup Brought(tree.head)
    BY <2>1, RebaseKeeps DEF Mine
  <2> QED BY <2>1, <2>2
<1>11. CASE AddAll
  <2>1. /\ tree'.head = tree.head /\ tree'.fetched = tree.fetched
        /\ tree'.staged = tree.staged \cup Visible /\ taken' = taken
        /\ tree.unstaged \ Folders \subseteq Visible
        /\ \/ stage = "stage" /\ stage' = "status"
           \/ stage = "stageKept" /\ stage' = "statusKept"
    BY <1>11 DEF AddAll, Visible, Trees
  <2> QED BY <2>1
<1>12. CASE HasChanges
  <2>1. /\ tree' = tree /\ taken' = taken
        /\ stage \in {"status", "statusKept"}
        /\ \/ stage' = "commit"
           \/ stage' \in {"gitkeep", "unchanged"} /\ tree.staged = {}
    BY <1>12 DEF HasChanges
  <2> QED BY <2>1
<1>13. CASE AddGitkeepToEmptyDirs
  <2>1. /\ tree'.head = tree.head /\ tree'.fetched = tree.fetched
        /\ tree'.staged = tree.staged /\ taken' = taken
        /\ stage = "gitkeep" /\ stage' \in {"unchanged", "stageKept"}
    BY <1>13 DEF AddGitkeepToEmptyDirs, Trees
  <2> QED BY <2>1
<1>14. CASE Commit
  <2>1. /\ tree'.head = Append(tree.head, tree.staged) /\ tree'.fetched = tree.fetched
        /\ stage = "commit" /\ stage' = "push" /\ taken' = taken
    BY <1>14 DEF Commit, Trees
  <2>2. Brought(Append(tree.head, tree.staged)) = Brought(tree.head) \cup tree.staged
    <3>1. tree.staged \in SUBSET AllWorks
      BY DEF AllWorks
    <3> QED BY <3>1, BroughtAppend
  <2> QED BY <2>1, <2>2
<1>15. CASE PushBranch
  <2>1. /\ tree'.head = tree.head /\ tree'.fetched = tree.head
        /\ branch' = tree.head /\ taken' = taken
        /\ stage = "push" /\ stage' \in {"create", "feedback"}
    BY <1>15 DEF PushBranch, Trees
  <2>2. Pushed' = Brought(tree.head)
    BY <2>1 DEF Pushed
  <2> QED BY <2>1, <2>2
<1>16. CASE CreatePullRequest
  BY <1>16 DEF CreatePullRequest
<1>17. CASE CollectFeedback
  BY <1>17 DEF CollectFeedback
<1>18. CASE UpdateSessionScmContext
  BY <1>18 DEF UpdateSessionScmContext
<1>19. CASE Bind
  BY <1>19 DEF Bind
<1>20. CASE EmitResult
  BY <1>20 DEF EmitResult, Tell
<1>21. CASE PublicationRefused
  BY <1>21 DEF PublicationRefused, CatchError
<1>22. CASE RebaseConflict
  <2>1. tree'.head = tree.head /\ tree'.fetched = tree.fetched /\ stage' = "idle"
        /\ stage = "rebase"
    BY <1>22 DEF RebaseConflict, CatchError, Trees
  <2> QED BY <2>1
<1>23. CASE PublicationFails
  <2>1. tree' = tree /\ stage' = "idle"
        /\ (stage = "push" => Brought(tree.head) \subseteq stuck')
    BY <1>23 DEF PublicationFails, CatchError
  <2> QED BY <2>1
<1>24. ASSUME NEW w \in Works, AgentWorks(w) PROVE WorksAreSafe'
  <2>1. /\ tree'.head = tree.head /\ tree'.fetched = tree.fetched /\ tree'.staged = tree.staged
        /\ tree'.unstaged = tree.unstaged \cup {w}
        /\ stage' = stage /\ taken' = taken
    BY <1>24 DEF AgentWorks, Trees
  <2> QED BY <2>1
<1>25. ASSUME NEW h \in HumanWorks, HumanPush(h) PROVE WorksAreSafe'
  BY <1>25 DEF HumanPush
<1>26. CASE UNCHANGED pubVars
  BY <1>26 DEF pubVars
<1> QED
  BY <1>1, <1>2, <1>3, <1>4, <1>5, <1>6, <1>7, <1>8, <1>9, <1>10, <1>11, <1>12, <1>13,
     <1>14, <1>15, <1>16, <1>17, <1>18, <1>19, <1>20, <1>21, <1>22, <1>23, <1>24, <1>25,
     <1>26
  DEF Next, PrepareWorkspace, PublishAndCollectFeedback

(* What has been told of a publication stays true until the next begins.   *)
LEMMA DeliveredNext == Inv /\ [Next]_pubVars => PublishedIsDelivered'
<1> SUFFICES ASSUME Inv, [Next]_pubVars PROVE PublishedIsDelivered'
  OBVIOUS
<1>a. WorksAreSafe /\ Halfway /\ PublishedIsDelivered /\ Halfway'
  BY HalfwayNext DEF Inv, WorksAreSafe
<1>b. Pushed \subseteq Pushed' /\ stuck \subseteq stuck'
  BY NothingIsTaken
<1>1. (request => request') /\ (bound => bound')
  BY DEF Next, PrepareWorkspace, PublishAndCollectFeedback, StartPreparation,
     ResetWorkspaceDirectories, CloneRepositoryWithRecovery, FetchBaseBranch, CreateWorktree,
     SavePrepared, FailPreparation, StartPublication, FetchBranch, RebaseOntoRemoteBranch,
     AddAll, HasChanges, AddGitkeepToEmptyDirs, Commit, PushBranch, CreatePullRequest,
     CollectFeedback, UpdateSessionScmContext, Bind, EmitResult, Tell, PublicationRefused,
     RebaseConflict, PublicationFails, AgentWorks, HumanPush, pubVars
<1>2. \/ told' = {}
      \/ /\ taken' = taken
         /\ "SCM_PR_CREATED" \in told' => "SCM_PR_CREATED" \in told \/ stage = "tellCreated"
         /\ "SCM_NO_CHANGES" \in told' => "SCM_NO_CHANGES" \in told \/ stage = "tellUnchanged"
  BY DEF Next, PrepareWorkspace, PublishAndCollectFeedback, StartPreparation,
     ResetWorkspaceDirectories, CloneRepositoryWithRecovery, FetchBaseBranch, CreateWorktree,
     SavePrepared, FailPreparation, StartPublication, FetchBranch, RebaseOntoRemoteBranch,
     AddAll, HasChanges, AddGitkeepToEmptyDirs, Commit, PushBranch, CreatePullRequest,
     CollectFeedback, UpdateSessionScmContext, Bind, EmitResult, Tell, PublicationRefused,
     RebaseConflict, PublicationFails, CatchError, AgentWorks, HumanPush, pubVars
<1>3. "SCM_PR_CREATED" \in told' => taken' \subseteq Pushed' /\ request' /\ bound'
  BY <1>a, <1>b, <1>1, <1>2
  DEF WorksAreSafe, OnItsWay, Halfway, Saved, Asked, PublishedIsDelivered
<1>4. "SCM_PR_CREATED" \in told' => (stage' = "tellFeedback" => context'.pullRequest)
  BY <1>a DEF Halfway, Saved
<1>5. "SCM_NO_CHANGES" \in told' => taken' \subseteq Pushed' \cup stuck'
  BY <1>a, <1>b, <1>2 DEF WorksAreSafe, OnItsWay, PublishedIsDelivered
<1> QED BY <1>3, <1>4, <1>5 DEF PublishedIsDelivered

(* Every step keeps Inv.                                                   *)
LEMMA InvNext == Inv /\ [Next]_pubVars => Inv'
<1> SUFFICES ASSUME Inv, [Next]_pubVars PROVE Inv'
  OBVIOUS
<1>1. TypeOK'
  BY TypeNext
<1>2. (RequestKnown /\ Halfway)'
  BY HalfwayNext
<1>3. WorksAreSafe'
  BY WorksNext
<1>4. PublishedIsDelivered'
  BY DeliveredNext
<1> QED BY <1>1, <1>2, <1>3, <1>4 DEF Inv, WorksAreSafe

(* Inv holds in every reachable state.                                     *)
LEMMA InvAlways == Spec => []Inv
BY InitInv, InvNext, PTL DEF Spec

(* Every variable has its type.                                            *)
THEOREM PublicationTypes == Spec => []TypeOK
<1>1. Inv => TypeOK
  BY DEF Inv
<1> QED BY <1>1, InvAlways, PTL

(* What publishChanges tells of a publication is so: with SCM_PR_CREATED   *)
(* every file an agent had written when it began is on the branch, and the *)
(* pull request has its binding; with SCM_NO_CHANGES nothing is left       *)
(* behind but what a failed push has left (scm-service.ts:127-249,         *)
(* orchestration-service.ts:512-556).                                      *)
THEOREM WhatIsToldIsSo == Spec => []PublishedIsDelivered
<1>1. Inv => PublishedIsDelivered
  BY DEF Inv
<1> QED BY <1>1, InvAlways, PTL
-----------------------------------------------------------------------------
(* Publication implements PublicationContract.  The session as the         *)
(* contract sees it is the one of Seen; a handler is one step of the       *)
(* contract, at its end.                                                   *)
(* Within a handler nothing is seen.                                       *)
LEMMA OnlyEndsAreSeen ==
  ASSUME Inv, [Next]_pubVars
  PROVE  \/ Seen' = Seen
         \/ SavePrepared
         \/ stage = "tellFeedback" /\ EmitResult
         \/ stage \in Publishing /\ stage' = "idle" /\ (PublicationRefused \/ RebaseConflict \/ PublicationFails)
<1>a. Halfway
  BY DEF Inv
<1> USE <1>a DEF Seen, Settled, Halfway, Preparing, Delivering, Publishing, Go
<1>1. CASE PrepareWorkspace
  BY <1>1 DEF PrepareWorkspace, StartPreparation,
     ResetWorkspaceDirectories, CloneRepositoryWithRecovery, FetchBaseBranch, CreateWorktree,
     FailPreparation
<1>2. CASE StartPublication
  BY <1>2 DEF StartPublication
<1>3. CASE FetchBranch \/ RebaseOntoRemoteBranch \/ AddAll \/ HasChanges
  BY <1>3 DEF FetchBranch, RebaseOntoRemoteBranch, AddAll, HasChanges
<1>4. CASE AddGitkeepToEmptyDirs \/ Commit \/ PushBranch \/ CreatePullRequest
  BY <1>4 DEF AddGitkeepToEmptyDirs, Commit, PushBranch, CreatePullRequest
<1>5. CASE CollectFeedback \/ UpdateSessionScmContext \/ Bind \/ EmitResult
  BY <1>5 DEF CollectFeedback, UpdateSessionScmContext, Bind, EmitResult, Tell
<1>6. CASE PublicationRefused \/ RebaseConflict \/ PublicationFails
  BY <1>6 DEF PublicationRefused, RebaseConflict, PublicationFails, Refused, CatchError
<1>7. ASSUME NEW w \in Works, AgentWorks(w) PROVE Seen' = Seen
  BY <1>7 DEF AgentWorks
<1>8. ASSUME NEW h \in HumanWorks, HumanPush(h) PROVE Seen' = Seen
  BY <1>8 DEF HumanPush
<1>9. CASE UNCHANGED pubVars
  BY <1>9 DEF pubVars
<1> QED BY <1>1, <1>2, <1>3, <1>4, <1>5, <1>6, <1>7, <1>8, <1>9
  DEF Next, PublishAndCollectFeedback

(* What the contract does to a session, field by field.                    *)
Scms == [workspace : BOOLEAN, pullRequest : BOOLEAN, request : BOOLEAN, bound : BOOLEAN]

HasFields(s, w, p, r, b) ==
  s \in Scms /\ s.workspace = w /\ s.pullRequest = p /\ s.request = r /\ s.bound = b

(* A record of the four is what its fields are, ...                        *)
LEMMA ScmFields ==
  ASSUME NEW w \in BOOLEAN, NEW p \in BOOLEAN, NEW r \in BOOLEAN, NEW b \in BOOLEAN,
         NEW s, s = [workspace |-> w, pullRequest |-> p, request |-> r, bound |-> b]
  PROVE  HasFields(s, w, p, r, b)
BY DEF Scms, HasFields

(* ... equal to another with the same fields, ...                          *)
LEMMA SameScm ==
  ASSUME NEW x \in Scms, NEW y, HasFields(y, x.workspace, x.pullRequest, x.request, x.bound)
  PROVE  x = y
BY DEF Scms, HasFields

(* ... and the updates that PublicationContract names are these.           *)
LEMMA ScmUpdates ==
  ASSUME NEW old \in Scms, NEW new
  PROVE  /\ HasFields(new, old.workspace, old.pullRequest, old.request, old.bound) => new = old
         /\ HasFields(new, TRUE, FALSE, old.request, old.bound) =>
              new = [old EXCEPT !.workspace = TRUE, !.pullRequest = FALSE]
         /\ HasFields(new, old.workspace, FALSE, old.request, old.bound) =>
              new = [old EXCEPT !.pullRequest = FALSE]
         /\ HasFields(new, old.workspace, old.pullRequest, TRUE, old.bound) =>
              new = [old EXCEPT !.request = TRUE]
         /\ HasFields(new, old.workspace, TRUE, TRUE, old.bound) =>
              new = [old EXCEPT !.pullRequest = TRUE, !.request = TRUE]
         /\ HasFields(new, old.workspace, TRUE, TRUE, TRUE) =>
              new = [[old EXCEPT !.pullRequest = TRUE, !.request = TRUE] EXCEPT !.bound = TRUE]
<1>1. ASSUME HasFields(new, old.workspace, old.pullRequest, old.request, old.bound)
      PROVE  new = old
  BY <1>1, SameScm
<1>2. ASSUME NEW t \in Scms, NEW w, NEW p, NEW r, NEW b, HasFields(t, w, p, r, b), HasFields(new, w, p, r, b)
      PROVE  new = t
  BY <1>2, SameScm DEF HasFields
<1>3. /\ HasFields([old EXCEPT !.workspace = TRUE, !.pullRequest = FALSE], TRUE, FALSE, old.request, old.bound)
      /\ HasFields([old EXCEPT !.pullRequest = FALSE], old.workspace, FALSE, old.request, old.bound)
      /\ HasFields([old EXCEPT !.request = TRUE], old.workspace, old.pullRequest, TRUE, old.bound)
      /\ HasFields([old EXCEPT !.pullRequest = TRUE, !.request = TRUE], old.workspace, TRUE, TRUE, old.bound)
      /\ HasFields([[old EXCEPT !.pullRequest = TRUE, !.request = TRUE] EXCEPT !.bound = TRUE],
                   old.workspace, TRUE, TRUE, TRUE)
  BY DEF Scms, HasFields
<1>4. \A t, w, p, r, b : HasFields(t, w, p, r, b) /\ HasFields(new, w, p, r, b) => new = t
  BY <1>2 DEF HasFields
<1> QED BY <1>1, <1>3, <1>4, Zenon

(* The session before and after a step that ends a handler.                *)
OldScm == [workspace |-> Seen.workspace, pullRequest |-> Seen.pullRequest,
           request |-> Seen.request, bound |-> Seen.bound]

NewScm == OldScm'

(* At the end of a handler both sides of the refinement are typed.         *)
LEMMA EndsAreTyped ==
  ASSUME Inv, [Next]_pubVars, Seen' = Settled'
  PROVE  /\ HasFields(NewScm, context'.workspace, context'.pullRequest, request', bound')
         /\ Seen.told \in SUBSET Outcomes /\ Seen'.told = told'
         /\ HasFields(OldScm, Seen.workspace, Seen.pullRequest, Seen.request, Seen.bound)
<1>1. TypeOK /\ TypeOK'
  BY TypeNext DEF Inv
<1>2. /\ context'.workspace \in BOOLEAN /\ context'.pullRequest \in BOOLEAN
      /\ request' \in BOOLEAN /\ bound' \in BOOLEAN
  BY <1>1 DEF TypeOK
<1>3. /\ Seen.workspace \in BOOLEAN /\ Seen.pullRequest \in BOOLEAN
      /\ Seen.request \in BOOLEAN /\ Seen.bound \in BOOLEAN
      /\ Seen.told \in SUBSET Outcomes
  <2>1. CASE stage = "idle"
    BY <1>1, <2>1 DEF TypeOK, Seen, Settled
  <2>2. CASE stage # "idle"
    BY <1>1, <2>2 DEF TypeOK, Seen
  <2> QED BY <2>1, <2>2
<1>4. /\ Seen'.workspace = context'.workspace /\ Seen'.pullRequest = context'.pullRequest
      /\ Seen'.request = request' /\ Seen'.bound = bound' /\ Seen'.told = told'
  BY DEF Settled
<1>5. NewScm = [workspace |-> context'.workspace, pullRequest |-> context'.pullRequest,
                request |-> request', bound |-> bound']
  BY <1>4 DEF NewScm, OldScm
<1>6. HasFields(NewScm, context'.workspace, context'.pullRequest, request', bound')
  BY <1>2, <1>5, ScmFields
<1>7. HasFields(OldScm, Seen.workspace, Seen.pullRequest, Seen.request, Seen.bound)
  BY <1>3, ScmFields DEF OldScm
<1> QED BY <1>3, <1>4, <1>6, <1>7

(* A preparation that succeeds is seen as one.                             *)
LEMMA PreparationEnds ==
  ASSUME Inv, SavePrepared
  PROVE  Contract!Prepare
<1>1. stage = "prepared" /\ Settled = before /\ stage' = "idle"
  BY DEF Inv, Halfway, Preparing, SavePrepared, Go
<1>2. Seen = Settled /\ Seen' = Settled'
  BY <1>1 DEF Seen
<1>3. /\ context'.workspace = TRUE /\ context'.pullRequest = FALSE
      /\ request' = request /\ bound' = bound /\ told' = told
  BY DEF SavePrepared
<1>4. /\ HasFields(NewScm, context'.workspace, context'.pullRequest, request', bound')
      /\ HasFields(OldScm, Seen.workspace, Seen.pullRequest, Seen.request, Seen.bound)
      /\ Seen'.told = told'
  BY <1>2, EndsAreTyped DEF Next, PrepareWorkspace
<1>5. Seen.request = request /\ Seen.bound = bound /\ Seen.told = told
  BY <1>2 DEF Settled
<1>6. HasFields(NewScm, TRUE, FALSE, OldScm.request, OldScm.bound)
  BY <1>3, <1>4, <1>5 DEF HasFields
<1>7. NewScm = [OldScm EXCEPT !.workspace = TRUE, !.pullRequest = FALSE]
  BY <1>4, <1>6, ScmUpdates DEF HasFields
<1> QED BY <1>3, <1>4, <1>5, <1>7 DEF NewScm, OldScm, Contract!Prepare

(* A publication that ends is seen as done, with a pull request or with    *)
(* nothing to publish.                                                     *)
LEMMA PublicationEnds ==
  ASSUME Inv, stage = "tellFeedback", EmitResult
  PROVE  Contract!Changed \/ Contract!Unchanged
<1>1. /\ stage' = "idle" /\ told' = told \cup {"SCM_FEEDBACK_SYNCED"}
      /\ context' = context /\ request' = request /\ bound' = bound
  BY DEF EmitResult, Tell, Go
<1>2. Seen = before /\ Seen' = Settled'
  BY <1>1 DEF Seen
<1>3. /\ HasFields(NewScm, context.workspace, context.pullRequest, request, bound)
      /\ HasFields(OldScm, before.workspace, before.pullRequest, before.request, before.bound)
      /\ Seen'.told = told'
  BY <1>1, <1>2, EndsAreTyped DEF Next, PublishAndCollectFeedback
<1>4. /\ TypeOK /\ before.workspace
  BY DEF Inv, Halfway, Publishing, Delivering
<1>5. CASE told = {"SCM_PR_CREATED"} /\ Saved /\ bound
  <2>1. told' = {"SCM_PR_CREATED", "SCM_FEEDBACK_SYNCED"}
    BY <1>1, <1>5
  <2>2. HasFields(NewScm, OldScm.workspace, TRUE, TRUE, TRUE)
    BY <1>3, <1>4, <1>5 DEF Saved, Asked, HasFields, TypeOK
  <2>3. NewScm = [[OldScm EXCEPT !.pullRequest = TRUE, !.request = TRUE] EXCEPT !.bound = TRUE]
    BY <1>3, <2>2, ScmUpdates DEF HasFields
  <2>4. OldScm.pullRequest \/ ~OldScm.request
    BY <1>3, <1>5 DEF Saved, Asked, HasFields
  <2>5. Contract!Changed
    BY <1>3, <2>1, <2>3, <2>4
    DEF NewScm, OldScm, Contract!Changed, Contract!CanOpenOrReusePr, Contract!Opened
  <2> QED BY <2>5
<1>6. CASE told = {"SCM_NO_CHANGES"} /\ Dropped
  <2>1. told' = {"SCM_NO_CHANGES", "SCM_FEEDBACK_SYNCED"}
    BY <1>1, <1>6
  <2>2. HasFields(NewScm, OldScm.workspace, FALSE, OldScm.request, OldScm.bound)
    BY <1>3, <1>4, <1>6 DEF Dropped, SameOutside, HasFields, TypeOK
  <2>3. NewScm = [OldScm EXCEPT !.pullRequest = FALSE]
    BY <1>3, <2>2, ScmUpdates DEF HasFields
  <2>4. Contract!Unchanged
    BY <1>3, <2>1, <2>3 DEF NewScm, OldScm, Contract!Unchanged
  <2> QED BY <2>4
<1> QED BY <1>5, <1>6 DEF Inv, Halfway, Publishing, Delivering

(* A publication that is given up is seen as rejected, or as interrupted   *)
(* when the context has been saved.                                        *)
LEMMA PublicationGivenUp ==
  ASSUME Inv, stage \in Publishing, stage' = "idle",
         PublicationRefused \/ RebaseConflict \/ PublicationFails
  PROVE  Contract!Rejected \/ Contract!Interrupted
<1>1. /\ told' = told \cup {"SCM_PUBLISH_FAILED"}
      /\ context' = context /\ bound' = bound
      /\ request' = request \/ (stage = "create" /\ request' = TRUE)
  BY DEF PublicationRefused, RebaseConflict, PublicationFails, CatchError
<1>2. Seen = before /\ Seen' = Settled'
  BY DEF Seen, Publishing
<1>3. /\ HasFields(NewScm, context.workspace, context.pullRequest, request', bound)
      /\ HasFields(OldScm, before.workspace, before.pullRequest, before.request, before.bound)
      /\ Seen'.told = told'
  BY <1>1, <1>2, EndsAreTyped DEF Next, PublishAndCollectFeedback
<1>4. /\ context.workspace \in BOOLEAN /\ context.pullRequest \in BOOLEAN
      /\ request \in BOOLEAN /\ bound \in BOOLEAN
      /\ before.workspace \in BOOLEAN /\ before.pullRequest \in BOOLEAN
      /\ before.request \in BOOLEAN /\ before.bound \in BOOLEAN
  BY DEF Inv, TypeOK
<1>5. Halfway /\ before.workspace
  BY DEF Inv, Halfway, Delivering
<1>6. CASE stage \in {"fetch", "rebase", "stage", "status", "stageKept", "statusKept", "commit",
                      "push", "unchanged", "create", "feedback", "save"}
  <2>1. told' = {"SCM_PUBLISH_FAILED"}
    BY <1>1, <1>5, <1>6 DEF Halfway, Delivering, Publishing
  <2>2. /\ context.workspace = before.workspace /\ context.pullRequest = before.pullRequest
        /\ bound = before.bound
        /\ request' = before.request \/ request' = TRUE
    BY <1>1, <1>4, <1>5, <1>6 DEF Halfway, SameContext, SameOutside, Asked
  <2>3. \/ HasFields(NewScm, OldScm.workspace, OldScm.pullRequest, OldScm.request, OldScm.bound)
        \/ HasFields(NewScm, OldScm.workspace, OldScm.pullRequest, TRUE, OldScm.bound)
    BY <1>3, <2>2 DEF HasFields
  <2>4. NewScm = OldScm \/ NewScm = [OldScm EXCEPT !.request = TRUE]
    BY <1>3, <2>3, ScmUpdates DEF HasFields
  <2>5. Contract!Rejected
    BY <1>3, <2>1, <2>4 DEF NewScm, OldScm, Contract!Rejected
  <2> QED BY <2>5
<1>7. CASE stage \in {"bind", "tellCreated"} \/ (stage = "tellFeedback" /\ "SCM_PR_CREATED" \in told)
  <2>1. /\ context.workspace = TRUE /\ context.pullRequest = TRUE /\ request' = TRUE
        /\ before.workspace = TRUE
        /\ (before.pullRequest \/ ~before.request)
    BY <1>1, <1>4, <1>5, <1>7 DEF Halfway, Saved, Asked
  <2>2. \/ told' = {"SCM_PUBLISH_FAILED"} /\ (bound = before.bound \/ bound = TRUE)
        \/ told' = {"SCM_PR_CREATED", "SCM_PUBLISH_FAILED"} /\ bound = TRUE
    <3>1. CASE stage \in {"bind", "tellCreated"}
      BY <3>1, <1>1, <1>4, <1>5 DEF Halfway, Delivering, Publishing
    <3>2. CASE stage = "tellFeedback" /\ "SCM_PR_CREATED" \in told
      BY <3>2, <1>1, <1>4, <1>5 DEF Halfway
    <3> QED BY <3>1, <3>2, <1>7
  <2>3. \/ HasFields(NewScm, OldScm.workspace, TRUE, TRUE, OldScm.bound) /\ bound = before.bound
        \/ HasFields(NewScm, OldScm.workspace, TRUE, TRUE, TRUE) /\ bound = TRUE
    BY <1>3, <2>1, <2>2 DEF HasFields
  <2>4. /\ OldScm.pullRequest \/ ~OldScm.request
        /\ \/ NewScm = [OldScm EXCEPT !.pullRequest = TRUE, !.request = TRUE]
              /\ told' = {"SCM_PUBLISH_FAILED"}
           \/ /\ NewScm = [[OldScm EXCEPT !.pullRequest = TRUE, !.request = TRUE]
                             EXCEPT !.bound = TRUE]
              /\ told' \in {{"SCM_PUBLISH_FAILED"}, {"SCM_PR_CREATED", "SCM_PUBLISH_FAILED"}}
    <3>1. OldScm \in Scms /\ (OldScm.pullRequest \/ ~OldScm.request)
      BY <1>3, <2>1 DEF HasFields
    <3>2. CASE bound = TRUE
      <4>1. HasFields(NewScm, OldScm.workspace, TRUE, TRUE, TRUE)
        BY <3>2, <1>3, <2>1 DEF HasFields
      <4> QED BY <3>1, <4>1, <2>2, ScmUpdates
    <3>3. CASE bound # TRUE
      <4>1. HasFields(NewScm, OldScm.workspace, TRUE, TRUE, OldScm.bound)
        BY <3>3, <2>3
      <4> QED BY <3>1, <3>3, <4>1, <2>2, ScmUpdates
    <3> QED BY <3>2, <3>3
  <2>5. Contract!Interrupted
    BY <1>3, <2>4
    DEF NewScm, OldScm, Contract!Interrupted, Contract!CanOpenOrReusePr, Contract!Opened
  <2> QED BY <2>5
<1>8. CASE stage = "tellUnchanged" \/ (stage = "tellFeedback" /\ "SCM_PR_CREATED" \notin told)
  <2>1. /\ context.workspace = TRUE /\ context.pullRequest = FALSE
        /\ request' = before.request /\ bound = before.bound /\ before.workspace = TRUE
    BY <1>1, <1>4, <1>5, <1>8 DEF Halfway, Dropped, SameOutside
  <2>2. told' \in {{"SCM_PUBLISH_FAILED"}, {"SCM_NO_CHANGES", "SCM_PUBLISH_FAILED"}}
    <3>1. told = {} \/ told = {"SCM_NO_CHANGES"}
      BY <1>5, <1>8 DEF Halfway, Delivering, Publishing
    <3> QED BY <3>1, <1>1
  <2>3. HasFields(NewScm, OldScm.workspace, FALSE, OldScm.request, OldScm.bound)
    BY <1>3, <2>1 DEF HasFields
  <2>4. NewScm = [OldScm EXCEPT !.pullRequest = FALSE]
    BY <1>3, <2>3, ScmUpdates DEF HasFields
  <2>5. Contract!Interrupted
    BY <1>3, <2>2, <2>4 DEF NewScm, OldScm, Contract!Interrupted
  <2> QED BY <2>5
<1> QED BY <1>6, <1>7, <1>8 DEF Publishing

(* Every step is a step of the contract or none.                           *)
LEMMA ContractNext ==
  ASSUME Inv, [Next]_pubVars
  PROVE  Contract!Next \/ Seen' = Seen
<1>1. stage \in Publishing => Seen.workspace
  BY DEF Inv, Halfway, Seen, Publishing, Delivering
<1>2. CASE SavePrepared
  BY <1>2, PreparationEnds DEF Contract!Next
<1>3. CASE stage = "tellFeedback" /\ EmitResult
  <2>1. Seen.workspace
    BY <1>1, <1>3 DEF Publishing
  <2> QED BY <1>3, <2>1, PublicationEnds DEF Contract!Next
<1>4. CASE stage \in Publishing /\ stage' = "idle" /\ (PublicationRefused \/ RebaseConflict \/ PublicationFails)
  BY <1>1, <1>4, PublicationGivenUp DEF Contract!Next
<1> QED BY <1>2, <1>3, <1>4, OnlyEndsAreSeen

(* Whatever command or call is rejected, preparing and publishing come to  *)
(* one of the outcomes of the contract, those that Orchestration takes in  *)
(* one step among them (scm-service.ts:63-249,                             *)
(* orchestration-service.ts:202-239, :480-588).                            *)
THEOREM PublicationKeepsContract == Spec => KeepsContract
<1>1. Init => Contract!Init
  <2> SUFFICES ASSUME Init PROVE Contract!Init
    OBVIOUS
  <2>1. /\ Seen.workspace = FALSE /\ Seen.pullRequest = FALSE
        /\ Seen.request = FALSE /\ Seen.bound = FALSE /\ Seen.told = {}
    BY DEF Init, Seen, Settled
  <2> QED BY <2>1, Zenon DEF Contract!Init
<1>2. Inv /\ [Next]_pubVars =>
        [Contract!Next]_<<[workspace |-> Seen.workspace, pullRequest |-> Seen.pullRequest,
                           request |-> Seen.request, bound |-> Seen.bound], Seen.told>>
  BY ContractNext
<1> QED BY <1>1, <1>2, InvAlways, PTL DEF Spec, KeepsContract, Contract!Spec
=============================================================================
