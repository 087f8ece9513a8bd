------------------------------ MODULE X509Path ------------------------------
(***************************************************************************)
(* The validator of certificate paths: a depth-first search from the       *)
(* peer's certificate through the intermediates it sent to a trusted root, *)
(* each candidate path checked from the root down.                         *)
(*                                                                         *)
(* A certificate is a record.  What decoding and the checks of one         *)
(* certificate by itself decide is in the flags decodes and sound; a DNS   *)
(* name is the sequence of its labels from the right, so a domain is a     *)
(* prefix of the names in it.                                              *)
(***************************************************************************)
EXTENDS Integers, SequencesExt

CONSTANTS
  Worlds,            \* what a validation may be asked: the request, and its certificates
  MAXIMUM_INTERMEDIATES,
  SearchSteps,       \* MAXIMUM_SEARCH_STEPS, small
  Names              \* every DNS name up to a depth, for the reference definition

ASSUME PathAssumption ==
  /\ MAXIMUM_INTERMEDIATES \in Nat /\ SearchSteps \in Nat
  /\ \A w \in Worlds : /\ w.leaf.decodes /\ \A a \in w.anchors : a.decodes
                       /\ w.host \in Names

VARIABLE search  \* the validation under way, if any

-----------------------------------------------------------------------------
(* Names. *)

\* A name under base; a wildcard stands for every one of them.
Within(name, base) == IsPrefix(base, name)

\* isComparableHostname is of the flag sound; "xn" stands for an A-label.
matchesDnsName(presented, host) ==
  IF presented.wild
  THEN /\ Len(presented.base) >= 2 /\ Last(presented.base) # "xn"
       /\ host # <<>> /\ Last(host) # "xn"
       /\ Front(host) = presented.base
  ELSE host = presented.base

matchesPeerName(names, host) == \E n \in names : matchesDnsName(n, host)

\* Mutant: the wildcard is stripped for both, as in CVE-2025-61727.
MutDnsMatchesSubtree(name, base, isExclusion) == Within(name.base, base)

dnsMatchesSubtree(name, base, isExclusion) ==
  Within(name.base, base) \/ (isExclusion /\ name.wild /\ Within(base, name.base))

\* Permitted subtrees intersect down the path, excluded subtrees unite.
addConstraints(state, c) ==
  [levels   |-> IF c.permitted = {} THEN state.levels ELSE state.levels \cup {c.permitted},
   excluded |-> state.excluded \cup c.excluded]

violatesConstraints(names, state) ==
  \E n \in names :
    \/ \E base \in state.excluded : dnsMatchesSubtree(n, base, TRUE)
    \/ \E level \in state.levels : ~\E base \in level : dnsMatchesSubtree(n, base, FALSE)

-----------------------------------------------------------------------------
(* One candidate path: an anchor, and the chain below it down to the leaf. *)

isSelfIssued(c) == c.issuer = c.subject

\* The code of the first check that fails.
First(checks) ==
  LET failed == {i \in DOMAIN checks : checks[i][1]} IN
  IF failed = {} THEN "none" ELSE checks[Min(failed)][2]

Timely(c, time) == << <<c.from > time, "certificate-not-yet-valid">>,
                      <<c.to < time, "certificate-expired">> >>

AnchorFailure(a, time) ==
  First(<< <<~a.ca, "basic-constraints-violation">>,
           <<~a.certSign, "key-usage-violation">>,
           <<~a.sound, "malformed-certificate">>,
           <<a.usage # "none", "extended-key-usage-violation">> >> \o Timely(a, time))

\* rejectKey and verifySignature: whose key, of which strength, over which bytes.
verifySignature(c, key) ==
  First(<< <<~c.keyOk, "unsupported-signature-algorithm">>,
           <<c.signer # key, "invalid-signature">> >>)

\* Mutant: the issuer's own limit replaces the one above it.
MutTighten(left, c) == IF c.pathLen = -1 THEN left ELSE c.pathLen

Tighten(left, c) == IF c.pathLen = -1 THEN left ELSE Min({left, c.pathLen})

\* What holds of a certificate under the working issuer, and of one that issues.
LinkFailure(w, c, isLeaf, time) ==
  LET signature == verifySignature(c, w.key) IN
  First(<< <<c.issuer # w.issuer, "no-path-to-trust-anchor">>,
           <<~c.sound, "malformed-certificate">> >> \o Timely(c, time) \o
        << <<signature # "none", signature>>,
           <<(isLeaf \/ ~isSelfIssued(c)) /\ violatesConstraints(c.names, w.constraints),
             "name-constraints-violation">>,
           <<~isLeaf /\ ~c.ca, "basic-constraints-violation">>,
           <<~isLeaf /\ ~c.certSign, "key-usage-violation">>,
           <<~isLeaf /\ c.usage = "client", "extended-key-usage-violation">>,
           <<~isLeaf /\ ~isSelfIssued(c) /\ w.left <= 0, "maximum-chain-depth-exceeded">> >>)

\* The working state below c.
Descend(w, c) ==
  [issuer      |-> c.subject,
   key         |-> c.key,
   constraints |-> addConstraints(w.constraints, c),
   left        |-> Tighten(IF isSelfIssued(c) THEN w.left ELSE w.left - 1, c),
   failure     |-> "none"]

LeafFailure(anchor, leaf, host) ==
  First(<< <<leaf.from > anchor.distrustAfter, "certificate-authority-distrusted">>,
           <<leaf.ca, "basic-constraints-violation">>,
           <<leaf.certSign, "key-usage-violation">>,
           <<leaf.usage # "server", "extended-key-usage-violation">>,
           <<~matchesPeerName(leaf.names, host), "name-mismatch">> >>)

validatePathCandidate(anchor, chain, request) ==
  LET top == [issuer |-> anchor.subject, key |-> anchor.key,
              constraints |-> addConstraints([levels |-> {}, excluded |-> {}], anchor),
              left |-> Tighten(MAXIMUM_INTERMEDIATES, anchor), failure |-> "none"]
      down(w, i) ==
        LET failure == LinkFailure(w, chain[i], i = Len(chain), request.time) IN
        IF w.failure # "none" THEN w
        ELSE IF failure # "none" THEN [w EXCEPT !.failure = failure]
        ELSE Descend(w, chain[i])
      walked == FoldLeft(down, top, [i \in 1..Len(chain) |-> i]) IN
  First(<< <<AnchorFailure(anchor, request.time) # "none", AnchorFailure(anchor, request.time)>>,
           <<walked.failure # "none", walked.failure>>,
           <<TRUE, LeafFailure(anchor, Last(chain), request.host)>> >>)

-----------------------------------------------------------------------------
(* The search.  A frame is one call: its chain, the anchors it has not     *)
(* tried, and the first intermediate it has not looked at.                 *)

\* A malformed intermediate is unusable, not fatal.
Usable(w) == SelectSeq(w.intermediates, LAMBDA c : c.decodes)

Frame(w, chain) ==
  [chain |-> chain, next |-> 1,
   anchors |-> {a \in w.anchors : a.subject = chain[1].issuer}]

NoSearch == [on |-> FALSE, world |-> <<>>, stack |-> <<>>, spent |-> 0, first |-> "none",
             verdict |-> "none", path |-> <<>>]

\* The search of w begins: the first call, and its first step.
Validate(w) ==
  search' = [NoSearch EXCEPT !.on = TRUE, !.world = w, !.spent = 1,
                             !.stack = IF SearchSteps > 1 THEN <<Frame(w, <<w.leaf>>)>> ELSE <<>>]

Top == Last(search.stack)

\* The top frame becomes f.
Now(f) == Append(Front(search.stack), f)

Searching == search.on /\ search.verdict = "none" /\ search.stack # <<>>

\* Every anchor costs a step, whatever is left of them.
TryAnchor ==
  /\ Searching
  /\ \E a \in Top.anchors :
       LET failure == validatePathCandidate(a, Top.chain, search.world) IN
       search' = IF failure = "none"
                 THEN [search EXCEPT !.spent = @ + 1, !.verdict = "ok", !.path = <<a>> \o Top.chain]
                 ELSE [search EXCEPT !.spent = @ + 1,
                                     !.first = IF @ = "none" THEN failure ELSE @,
                                     !.stack = Now([Top EXCEPT !.anchors = @ \ {a}])]

\* Mutant: a certificate of the subject's own name cannot extend the path.
MutExtends(c, chain) == c.subject = chain[1].issuer /\ \A i \in DOMAIN chain : chain[i].subject # c.subject

\* The cycle break.
Extends(c, chain) == c.subject = chain[1].issuer /\ \A i \in DOMAIN chain : chain[i] # c

MayDescend == search.spent + 1 < SearchSteps

\* The next intermediate, and the call below it, unless the steps are spent.
TryIntermediate ==
  /\ Searching
  /\ Top.anchors = {} /\ Len(Top.chain) <= MAXIMUM_INTERMEDIATES
  /\ Top.next <= Len(Usable(search.world))
  /\ LET c    == Usable(search.world)[Top.next]
         past == Now([Top EXCEPT !.next = @ + 1]) IN
     search' = IF ~Extends(c, Top.chain)
               THEN [search EXCEPT !.stack = past]
               ELSE [search EXCEPT !.spent = @ + 1,
                                   !.stack = IF MayDescend
                                             THEN Append(past, Frame(search.world, <<c>> \o Top.chain))
                                             ELSE past]

\* A call that found nothing returns; the first ends the search.
Return ==
  /\ Searching
  /\ Top.anchors = {}
  /\ Len(Top.chain) > MAXIMUM_INTERMEDIATES \/ Top.next > Len(Usable(search.world))
  /\ search' = [search EXCEPT !.stack = Front(@)]

\* The answer when no path was found.
GiveUp ==
  /\ search.on /\ search.verdict = "none" /\ search.stack = <<>>
  /\ search' = [search EXCEPT !.verdict = IF search.first = "none" THEN "no-path-to-trust-anchor"
                                          ELSE search.first]

SearchStep == TryAnchor \/ TryIntermediate \/ Return \/ GiveUp

-----------------------------------------------------------------------------
(* The reference definition: what a path is, said of the whole of it. *)

\* The names a presented name may stand for.
Denotes(n) == IF n.wild THEN {name \in Names : IsStrictPrefix(n.base, name)} ELSE {n.base}

Allows(ca, n) ==
  /\ ca.permitted # {} => \E base \in ca.permitted : \A name \in Denotes(n) : Within(name, base)
  /\ \A base \in ca.excluded : \A name \in Denotes(n) : ~Within(name, base)

\* path[1] is the anchor, the last the leaf.
Trusted(path, request) ==
  LET leaf == Len(path)
      cas  == 1..(leaf - 1)
      counted(i) == {j \in (i + 1)..(leaf - 1) : ~isSelfIssued(path[j])} IN
  /\ path[1] \in request.anchors /\ path[leaf] = request.leaf
  /\ \A i \in 2..leaf : path[i].issuer = path[i - 1].subject /\ path[i].signer = path[i - 1].key
  /\ \A i \in 1..leaf : path[i].sound /\ path[i].from <= request.time /\ request.time <= path[i].to
  /\ \A i \in 2..leaf : path[i].keyOk
  /\ \A i \in cas : path[i].ca /\ path[i].certSign /\ path[i].usage # "client"
  /\ path[1].usage = "none"
  /\ Cardinality(counted(1)) <= MAXIMUM_INTERMEDIATES
  /\ \A i \in cas : path[i].pathLen # -1 => Cardinality(counted(i)) <= path[i].pathLen
  /\ \A i \in cas, j \in 2..leaf :
       i < j /\ (j = leaf \/ ~isSelfIssued(path[j])) => \A n \in path[j].names : Allows(path[i], n)
  /\ path[leaf].from <= path[1].distrustAfter
  /\ ~path[leaf].ca /\ ~path[leaf].certSign /\ path[leaf].usage = "server"
  /\ matchesPeerName(path[leaf].names, request.host)

\* Every order of some of the usable intermediates, under every anchor.
Paths(w) ==
  LET n == Len(Usable(w)) IN
  {<<a>> \o [i \in 1..Len(s) |-> Usable(w)[s[i]]] \o <<w.leaf>> :
     a \in w.anchors,
     s \in {t \in BoundedSeq(1..n, Min({n, MAXIMUM_INTERMEDIATES})) : IsInjective(t)}}

(***************************************************************************)
(* A path the validator answers with is a path: whatever order the peer    *)
(* sent its intermediates in and however the search came to it, every      *)
(* authority's depth and name limits hold below it, and every name of the  *)
(* leaf is one that each of them may vouch for.                            *)
(***************************************************************************)
FoundPathsAreTrusted ==
  search.verdict = "ok" => Trusted(search.path, search.world)

(***************************************************************************)
(* A peer is refused only if no order of what it sent makes a path: the    *)
(* search misses none, whatever it tried first, unless its steps ran out.  *)
(***************************************************************************)
NoPathIsMissed ==
  search.verdict \notin {"none", "ok"} /\ search.spent < SearchSteps
    => \A path \in Paths(search.world) : ~Trusted(path, search.world)

(***************************************************************************)
(* The validator's answer is the right one for its world, both ways: a     *)
(* path only if it is trusted, none only if there is none.                 *)
(***************************************************************************)
VerdictsAreRight == FoundPathsAreTrusted /\ NoPathIsMissed

=============================================================================
