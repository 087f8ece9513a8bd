--------------------------- MODULE ComposerProofs ---------------------------
(***************************************************************************)
(* The composer's properties for any keys and any cast: a text typed is    *)
(* kept, none unseen is written over, and an ended session says nothing.   *)
(*                                                                         *)
(* The invariant speaks of log, the text the vault has held under each     *)
(* version of each record.  Every id the tab holds, on screen, in a list,  *)
(* in a job or on the device, is one of the log's, and an opening has had  *)
(* on screen the text its ids stand for.                                   *)
(***************************************************************************)
EXTENDS Composer, SequenceTheorems, TLAPS

-----------------------------------------------------------------------------
(* Types.                                                                  *)

States   == {"none", "live", "sending", "unsure", "gone"}
KeyOrNot == Keys \cup {0}
Handles  == [v : Nat, text : Nat, st : States]
Screens  == [key : KeyOrNot, v : Nat, text : Nat]
Lists    == [Keys -> Handles \cup {None}]
Mints    == [st : {"no", "asked", "done"}, key : KeyOrNot, v : Nat, text : Nat]

Composes ==
  [intent : KeyOrNot, opened : Nat, fresh : BOOLEAN, discarded : BOOLEAN, minted : Mints,
   saving : BOOLEAN, wrote : Screens, pend : BOOLEAN,
   sending : {"none", "waiting", "claimed", "refused", "threw"}]

ComposeSeqs == Seq(Composes)
Conflicts   == [key : Keys, h : Handles]
Lasts       == [key : KeyOrNot, sent : BOOLEAN]
Thaws       == [o : Nat, named : Nat \cup {None}, had : BOOLEAN]
Copies      == [intent : KeyOrNot, scr : Screens]
NatSets     == SUBSET Nat

Apps ==
  [gen : Nat, unlocked : BOOLEAN, list : Lists, open : Nat, scr : Screens \cup {None},
   conflict : Conflicts \cup {None}, err : BOOLEAN, armed : BOOLEAN, last : Lasts \cup {None},
   thaw : Thaws \cup {None}, dev : Copies \cup {None}, ops : ComposeSeqs, gens : NatSets]

-----------------------------------------------------------------------------
(* What is true of what the tab holds.  F is the log, h the history.       *)

KnowsText(h, o, t)   == o \in h.restored \cup h.crossed \/ <<o, t>> \in h.known
Knows(F, h, o, k, v) == \E t \in Nat : <<k, v, t>> \in F /\ KnowsText(h, o, t)
Names(F, h, o, k, v) == (k = 0 /\ v = 0) \/ Knows(F, h, o, k, v)

ListOK(F, l)          == \A k \in Keys : l[k] = None \/ <<k, l[k].v, l[k].text>> \in F
ScreenOK(F, h, o, s)  == s # None => o # 0 /\ Names(F, h, o, s.key, s.v)
CopyOK(F, d)          == d # None => \/ d.scr.key = 0 /\ d.scr.v = 0
                                     \/ \E t \in Nat : <<d.scr.key, d.scr.v, t>> \in F
ThawOK(h, w)          == w # None => w.named = None \/ KnowsText(h, w.o, w.named)
ConflictOK(F, c)      == c # None => <<c.key, c.h.v, c.h.text>> \in F
MintOK(F, h, o, m)    == m.st = "done" => /\ <<m.key, m.v, m.text>> \in F
                                          /\ <<o, m.text>> \in h.known /\ m.text \in h.stored
ComposeOK(F, h, o, c) == /\ Names(F, h, o, c.wrote.key, c.wrote.v) /\ MintOK(F, h, o, c.minted)
                         /\ c.fresh => c.opened = 0
ComposesOK(F, h, s)   == \A o \in 1..Len(s) : ComposeOK(F, h, o, s[o])

AppOK(F, h, a) ==
  /\ a \in Apps /\ a.open \in 0..Len(a.ops) /\ (a.armed => a.scr # None)
  /\ ListOK(F, a.list) /\ ScreenOK(F, h, a.open, a.scr) /\ CopyOK(F, a.dev)
  /\ ThawOK(h, a.thaw) /\ ConflictOK(F, a.conflict) /\ ComposesOK(F, h, a.ops)

\* One text for each version.
Log(F) ==
  /\ \A k, v, t : <<k, v, t>> \in F => k \in Keys /\ v \in Nat \ {0} /\ t \in Nat
  /\ \A k, v, t, u : <<k, v, t>> \in F /\ <<k, v, u>> \in F => t = u

-----------------------------------------------------------------------------
(* The fields of the tab, of an opening and of the screen.                 *)

LEMMA AppFields ==
  ASSUME NEW a \in Apps
  PROVE  /\ a.gen \in Nat /\ a.unlocked \in BOOLEAN /\ a.list \in Lists /\ a.open \in Nat
         /\ a.scr \in Screens \cup {None} /\ a.conflict \in Conflicts \cup {None}
         /\ a.err \in BOOLEAN /\ a.armed \in BOOLEAN /\ a.last \in Lasts \cup {None}
         /\ a.thaw \in Thaws \cup {None} /\ a.dev \in Copies \cup {None}
         /\ a.ops \in ComposeSeqs /\ a.gens \in NatSets
  BY DEF Apps

LEMMA HandleType ==
  ASSUME NEW a \in Apps
  PROVE  /\ HandleOf(a) \in Handles \cup {None}
         /\ HandleOf(a) # None => /\ a.scr # None /\ a.scr \in Screens /\ a.scr.key \in Keys
                                  /\ HandleOf(a) = a.list[a.scr.key]
<1>1. a.scr \in Screens \cup {None} /\ a.list \in Lists
  BY AppFields
<1> QED
  BY <1>1 DEF HandleOf, Screens, Lists, KeyOrNot

\* A compose's own fields.
LEMMA ComposeSet ==
  ASSUME NEW s \in ComposeSeqs, NEW o \in 1..Len(s), NEW c \in Composes,
         NEW t, t = [s EXCEPT ![o] = c]
  PROVE  /\ t \in ComposeSeqs /\ Len(t) = Len(s)
         /\ t[o] = c /\ \A p \in 1..Len(s) : p # o => t[p] = s[p]
  BY DEF ComposeSeqs

LEMMA ComposeAt ==
  ASSUME NEW s \in ComposeSeqs, NEW o \in 1..Len(s) PROVE s[o] \in Composes /\ Len(s) \in Nat
  BY DEF ComposeSeqs

-----------------------------------------------------------------------------
(* What React does after a change keeps all of it.                         *)

\* The openings thrown away.
Discarded(a) == {o \in 1..Len(a.ops) : a.ops[o].discarded}

\* Everything but what was last seen, and what thaws, is what it was.
SameTab(a, b) ==
  /\ b.gen = a.gen /\ b.unlocked = a.unlocked /\ b.list = a.list /\ b.open = a.open
  /\ b.conflict = a.conflict /\ b.err = a.err /\ b.gens = a.gens

LEMMA LastSeenOK ==
  ASSUME NEW F, NEW h, NEW a, AppOK(F, h, a), NEW b, b = LastSeen(a)
  PROVE  /\ AppOK(F, h, b) /\ SameTab(a, b)
         /\ b.scr = a.scr /\ b.ops = a.ops /\ b.dev = a.dev /\ b.thaw = a.thaw
<1>1. a \in Apps
  BY DEF AppOK
<1>2. CASE HandleOf(a) = None
  BY <1>2 DEF LastSeen, SameTab
<1>3. CASE HandleOf(a) # None
  <2> DEFINE l == [key |-> a.scr.key, sent |-> HandleOf(a).st \in Carried]
  <2>1. l \in Lasts
    BY <1>1, <1>3, HandleType DEF Lasts, KeyOrNot
  <2>2. b = [a EXCEPT !.last = l]
    BY <1>3 DEF LastSeen
  <2> HIDE DEF l
  <2>3. b \in Apps
    BY <1>1, <2>1, <2>2 DEF Apps
  <2>4. /\ SameTab(a, b)
        /\ b.scr = a.scr /\ b.ops = a.ops /\ b.dev = a.dev /\ b.thaw = a.thaw
        /\ b.armed = a.armed
    BY <1>1, <2>2 DEF Apps, SameTab
  <2> QED
    BY <2>3, <2>4 DEF AppOK, SameTab
<1> QED
  BY <1>2, <1>3

LEMMA SaveDraftOK ==
  ASSUME NEW F, NEW h, NEW a, AppOK(F, h, a), NEW b, b = saveDraft(a)
  PROVE  /\ AppOK(F, h, b) /\ SameTab(a, b)
         /\ b.scr = a.scr /\ b.ops = a.ops /\ b.thaw = a.thaw
         /\ a.scr = None => b.dev = a.dev
         /\ a.scr # None => b.dev.scr = a.scr
<1>1. a \in Apps
  BY DEF AppOK
<1>2. CASE a.scr = None
  BY <1>2 DEF saveDraft, SameTab
<1>3. CASE a.scr # None
  <2> DEFINE d == [intent |-> Op(a).intent, scr |-> a.scr]
  <2>1. a.open # 0 /\ a.open \in 1..Len(a.ops) /\ a.scr \in Screens
    <3>1. a.ops \in ComposeSeqs /\ a.open \in Nat /\ a.scr \in Screens \cup {None}
      BY <1>1, AppFields
    <3>2. Len(a.ops) \in Nat
      BY <3>1 DEF ComposeSeqs
    <3> QED
      BY <1>3, <3>1, <3>2 DEF AppOK, ScreenOK
  <2>2. d \in Copies
    <3>1. a.ops[a.open] \in Composes
      BY <1>1, <2>1, AppFields, ComposeAt
    <3> QED
      BY <2>1, <3>1 DEF Copies, Op, Composes
  <2>3. b = [a EXCEPT !.dev = d]
    BY <1>3, <2>1 DEF saveDraft
  <2>4. CopyOK(F, d)
    BY <1>3, <2>1 DEF CopyOK, AppOK, ScreenOK, Names, Knows
  <2>5. d.scr = a.scr
    OBVIOUS
  <2> HIDE DEF d
  <2>6. b \in Apps
    BY <1>1, <2>2, <2>3 DEF Apps
  <2>7. /\ SameTab(a, b) /\ b.dev = d
        /\ b.scr = a.scr /\ b.ops = a.ops /\ b.thaw = a.thaw
    BY <1>1, <2>3 DEF Apps, SameTab
  <2> QED
    BY <1>3, <2>4, <2>5, <2>6, <2>7 DEF AppOK, SameTab
<1> QED
  BY <1>2, <1>3

\* The draft's send is over: the composer lets it go, and its timer.
GoesAway(a) == [LetGo(a) EXCEPT !.armed = FALSE]

LEMMA LetGoOK ==
  ASSUME NEW F, NEW h, NEW a, AppOK(F, h, a), a.scr # None,
         NEW b, b = GoesAway(a)
  PROVE  /\ AppOK(F, h, b) /\ SameTab(a, b)
         /\ b.scr = None /\ b.dev = None
         /\ Len(b.ops) = Len(a.ops)
         /\ a.open \in Discarded(b) /\ Discarded(a) \subseteq Discarded(b)
<1>1. a \in Apps /\ a.open # 0 /\ a.open \in 1..Len(a.ops) /\ a.ops \in ComposeSeqs
  <2>1. a \in Apps /\ a.open # 0
    BY DEF AppOK, ScreenOK
  <2>2. a.ops \in ComposeSeqs /\ a.open \in Nat
    BY <2>1, AppFields
  <2>3. Len(a.ops) \in Nat
    BY <2>2 DEF ComposeSeqs
  <2> QED
    BY <2>1, <2>2, <2>3 DEF AppOK
<1> DEFINE c == [a.ops[a.open] EXCEPT !.discarded = TRUE]
           s == [a.ops EXCEPT ![a.open] = c]
<1>2. /\ c \in Composes /\ c.discarded
      /\ c.wrote = a.ops[a.open].wrote /\ c.minted = a.ops[a.open].minted
      /\ c.fresh = a.ops[a.open].fresh /\ c.opened = a.ops[a.open].opened
  <2>1. a.ops[a.open] \in Composes
    BY <1>1, ComposeAt
  <2> QED
    BY <2>1 DEF Composes
<1>3. LetGo(a) = [a EXCEPT !.ops = s, !.dev = None, !.scr = None]
  BY <1>1 DEF LetGo
<1>4. b = [a EXCEPT !.ops = s, !.dev = None, !.scr = None, !.armed = FALSE]
  BY <1>3 DEF GoesAway
<1> HIDE DEF c
<1>5. /\ s \in ComposeSeqs /\ Len(s) = Len(a.ops)
      /\ s[a.open] = c /\ \A p \in 1..Len(a.ops) : p # a.open => s[p] = a.ops[p]
  BY <1>1, <1>2, ComposeSet
<1>6. ComposesOK(F, h, s)
  BY <1>1, <1>2, <1>5 DEF AppOK, ComposesOK, ComposeOK
<1>7. \A o \in 1..Len(a.ops) : a.ops[o].discarded => s[o].discarded
  BY <1>1, <1>2, <1>5
<1> HIDE DEF s
<1>8. b \in Apps
  BY <1>1, <1>4, <1>5 DEF Apps
<1>9. /\ SameTab(a, b) /\ b.scr = None /\ b.dev = None /\ b.ops = s /\ b.thaw = a.thaw
      /\ b.armed = FALSE
  BY <1>1, <1>4 DEF Apps, SameTab
<1>10. AppOK(F, h, b)
  <2>1. ScreenOK(F, h, b.open, b.scr) /\ CopyOK(F, b.dev)
    BY <1>9 DEF ScreenOK, CopyOK
  <2> QED
    BY <1>5, <1>6, <1>8, <1>9, <2>1 DEF AppOK, SameTab
<1>11. a.open \in Discarded(b) /\ Discarded(a) \subseteq Discarded(b)
  BY <1>1, <1>2, <1>5, <1>7, <1>9 DEF Discarded
<1> QED
  BY <1>5, <1>9, <1>10, <1>11

\* The text an opening would take a new version by, it had on screen.
LEMMA NamedOK ==
  ASSUME NEW F, NEW h, NEW a, AppOK(F, h, a), Log(F), HandleOf(a) # None
  PROVE  /\ Named(a) \in Nat \cup {None}
         /\ Named(a) = None \/ KnowsText(h, a.open, Named(a))
<1>1. a \in Apps /\ a.scr # None /\ a.scr \in Screens /\ a.scr.key \in Keys
      /\ HandleOf(a) = a.list[a.scr.key] /\ HandleOf(a) \in Handles \cup {None}
  BY HandleType DEF AppOK
<1>2. CASE HandleOf(a).v = a.scr.v
  <2>1. Named(a) = HandleOf(a).text
    BY <1>2 DEF Named
  <2>2. <<a.scr.key, a.scr.v, HandleOf(a).text>> \in F
    BY <1>1, <1>2 DEF AppOK, ListOK
  <2>3. a.scr.key # 0
    BY <1>1, KeysAssumption
  <2>4. PICK t \in Nat : <<a.scr.key, a.scr.v, t>> \in F /\ KnowsText(h, a.open, t)
    BY <1>1, <2>3 DEF AppOK, ScreenOK, Names, Knows
  <2>5. t = HandleOf(a).text
    BY <2>2, <2>4 DEF Log
  <2> QED
    BY <2>1, <2>4, <2>5
<1>3. CASE HandleOf(a).v # a.scr.v
  <2>1. Named(a) = IF a.thaw # None /\ a.thaw.o = a.open THEN a.thaw.named ELSE None
    BY <1>3 DEF Named
  <2>2. a.thaw # None => a.thaw.named \in Nat \cup {None}
    BY <1>1, AppFields DEF Thaws
  <2> QED
    BY <2>1, <2>2 DEF AppOK, ThawOK
<1> QED
  BY <1>2, <1>3

LEMMA ThawedOK ==
  ASSUME NEW F, NEW h, NEW a, AppOK(F, h, a), Log(F), NEW b, b = Thawed(a)
  PROVE  /\ AppOK(F, h, b) /\ SameTab(a, b)
         /\ Len(b.ops) = Len(a.ops) /\ Discarded(b) = Discarded(a)
         /\ a.scr = None => b.scr = None /\ b.dev = a.dev
         /\ a.scr # None => /\ b.scr # None /\ b.scr.text = a.scr.text
                            /\ b.dev = a.dev \/ b.dev.scr = b.scr
<1>1. a \in Apps
  BY DEF AppOK
<1>2. CASE a.open = 0 \/ HandleOf(a) = None
  BY <1>2 DEF Thawed, SameTab, Discarded
<1>3. CASE a.open # 0 /\ HandleOf(a) # None
  <2>1. /\ a.scr # None /\ a.scr \in Screens /\ a.scr.key \in Keys
        /\ HandleOf(a) = a.list[a.scr.key] /\ HandleOf(a) \in Handles \cup {None}
    BY <1>1, <1>3, HandleType
  <2>2. a.open \in 1..Len(a.ops) /\ a.ops \in ComposeSeqs /\ a.ops[a.open] \in Composes
    <3>1. a.ops \in ComposeSeqs /\ a.open \in Nat
      BY <1>1, AppFields
    <3>2. Len(a.ops) \in Nat
      BY <3>1 DEF ComposeSeqs
    <3>3. a.open \in 1..Len(a.ops)
      BY <1>3, <3>1, <3>2 DEF AppOK
    <3> QED
      BY <3>1, <3>3, ComposeAt
  <2> DEFINE w == [o |-> a.open, named |-> Named(a), had |-> HandleOf(a).st = "sending"]
             d == [a EXCEPT !.thaw = w]
  <2>3. w \in Thaws /\ ThawOK(h, w)
    <3>1. Named(a) \in Nat \cup {None} /\ (Named(a) = None \/ KnowsText(h, a.open, Named(a)))
      BY <1>3, NamedOK
    <3>2. a.open \in Nat
      BY <1>1, AppFields
    <3>3. w \in Thaws
      BY <3>1, <3>2 DEF Thaws
    <3>4. w.o = a.open /\ w.named = Named(a)
      OBVIOUS
    <3> HIDE DEF w
    <3> QED
      BY <3>1, <3>3, <3>4 DEF ThawOK
  <2>4. b = IF ~Adopts(a) THEN d
            ELSE saveDraft([d EXCEPT !.ops[a.open].wrote = IdOf(a.scr.key, HandleOf(a).v),
                                     !.scr.v = HandleOf(a).v,
                                     !.thaw.named = HandleOf(a).text])
    BY <1>3 DEF Thawed
  <2> HIDE DEF w
  <2>5. d \in Apps
    BY <1>1, <2>3 DEF Apps
  <2>6. /\ SameTab(a, d) /\ d.scr = a.scr /\ d.ops = a.ops /\ d.dev = a.dev /\ d.thaw = w
    BY <1>1 DEF Apps, SameTab
  <2>7. CASE ~Adopts(a)
    <3> HIDE DEF d
    <3>1. b = d
      BY <2>4, <2>7
    <3> QED
      BY <2>1, <2>3, <2>5, <2>6, <3>1 DEF AppOK, SameTab, Discarded
  <2>8. CASE Adopts(a)
    <3> DEFINE v == HandleOf(a).v
               t == HandleOf(a).text
               i == IdOf(a.scr.key, v)
               c == [a.ops[a.open] EXCEPT !.wrote = i]
               s == [a.ops EXCEPT ![a.open] = c]
               q == [a.scr EXCEPT !.v = v]
               x == [w EXCEPT !.named = t]
               e == [d EXCEPT !.ops = s, !.scr = q, !.thaw = x]
    <3>1. b = saveDraft(e)
      BY <2>4, <2>6, <2>8
    <3>2. v \in Nat /\ t \in Nat /\ <<a.scr.key, v, t>> \in F /\ KnowsText(h, a.open, t)
      <4>1. Named(a) # None /\ Named(a) = t
        BY <2>8 DEF Adopts
      <4>2. KnowsText(h, a.open, t)
        BY <1>3, <4>1, NamedOK
      <4>3. <<a.scr.key, v, t>> \in F
        BY <1>3, <2>1 DEF AppOK, ListOK
      <4>4. v \in Nat /\ t \in Nat
        BY <1>3, <2>1 DEF Handles
      <4> QED
        BY <4>2, <4>3, <4>4
    <3>3. Names(F, h, a.open, a.scr.key, v)
      BY <3>2 DEF Names, Knows
    <3> HIDE DEF v, t
    <3>4. i \in Screens /\ i.key = a.scr.key /\ i.v = v
      BY <2>1, <3>2 DEF IdOf, Screens
    <3> HIDE DEF i
    <3>5. /\ c \in Composes /\ c.wrote = i /\ c.minted = a.ops[a.open].minted
          /\ c.discarded = a.ops[a.open].discarded
          /\ c.fresh = a.ops[a.open].fresh /\ c.opened = a.ops[a.open].opened
      BY <2>2, <3>4 DEF Composes
    <3>6. ComposeOK(F, h, a.open, c)
      <4>1. ComposeOK(F, h, a.open, a.ops[a.open])
        BY <2>2 DEF AppOK, ComposesOK
      <4> QED
        BY <3>3, <3>4, <3>5, <4>1 DEF ComposeOK
    <3> HIDE DEF c
    <3>7. /\ s \in ComposeSeqs /\ Len(s) = Len(a.ops)
          /\ s[a.open] = c /\ \A p \in 1..Len(a.ops) : p # a.open => s[p] = a.ops[p]
      BY <2>2, <3>5, ComposeSet
    <3>8. ComposesOK(F, h, s)
      BY <2>2, <3>6, <3>7 DEF AppOK, ComposesOK
    <3>9. q \in Screens /\ q.key = a.scr.key /\ q.v = v /\ q.text = a.scr.text
      BY <2>1, <3>2 DEF Screens
    <3>10. x \in Thaws /\ x.named = t /\ x.o = a.open
      <4>1. w.o = a.open
        BY DEF w
      <4> QED
        BY <2>3, <3>2, <4>1 DEF Thaws
    <3> HIDE DEF s, q, x
    <3>11. e \in Apps
      BY <2>5, <3>7, <3>9, <3>10 DEF Apps
    <3>12. SameTab(d, e) /\ e.scr = q /\ e.ops = s /\ e.dev = d.dev /\ e.thaw = x
      BY <2>5 DEF Apps, SameTab
    <3> HIDE DEF d, e
    <3>14. e.scr # None
      BY <3>9, <3>12, NoneAssumption DEF Screens, KeyOrNot
    <3>13. AppOK(F, h, e)
      <4>1. ScreenOK(F, h, e.open, e.scr)
        BY <1>3, <2>6, <3>3, <3>9, <3>12 DEF ScreenOK, SameTab
      <4>2. ThawOK(h, e.thaw)
        BY <3>2, <3>10, <3>12 DEF ThawOK
      <4> QED
        BY <2>6, <3>7, <3>8, <3>11, <3>12, <3>14, <4>1, <4>2 DEF AppOK, SameTab
    <3>15. /\ AppOK(F, h, b) /\ SameTab(e, b) /\ b.scr = e.scr /\ b.ops = e.ops
           /\ b.dev.scr = e.scr
      BY <3>1, <3>13, <3>14, SaveDraftOK
    <3>16. Discarded(b) = Discarded(a)
      <4>1. \A o \in 1..Len(a.ops) : s[o].discarded = a.ops[o].discarded
        BY <3>5, <3>7
      <4> QED
        BY <3>7, <3>12, <3>15, <4>1 DEF Discarded
    <3> QED
      BY <2>1, <2>6, <3>7, <3>9, <3>12, <3>14, <3>15, <3>16 DEF SameTab
  <2> QED
    BY <2>7, <2>8
<1> QED
  BY <1>2, <1>3

\* What is on screen after a change: the same text, its copy on the device, or nothing
\* once the draft's send is over.
Shown(a, b) ==
  /\ SameTab(a, b) /\ Len(b.ops) = Len(a.ops)
  /\ Discarded(a) \subseteq Discarded(b)
  /\ a.scr = None => b.scr = None /\ b.dev = a.dev
  /\ a.scr # None => \/ b.scr # None /\ b.scr.text = a.scr.text /\ b.dev.scr.text = a.scr.text
                     \/ b.scr = None /\ b.dev = None /\ a.open \in Discarded(b)

LEMMA RenderedOK ==
  ASSUME NEW F, NEW h, NEW a, AppOK(F, h, a), Log(F), NEW touched \in BOOLEAN,
         NEW b, b = Rendered(a, touched)
  PROVE  AppOK(F, h, b) /\ Shown(a, b)
<1> DEFINE l == LastSeen(a)
           s == saveDraft(l)
           t == Thawed(s)
<1>0. l = LastSeen(a) /\ s = saveDraft(l) /\ t = Thawed(s)
  OBVIOUS
<1>4. b = IF isOpenSendOver(s) THEN [LetGo(s) EXCEPT !.armed = FALSE]
          ELSE [t EXCEPT !.armed = IF touched \/ t.scr # a.scr THEN MayArm(t) ELSE @]
  BY DEF Rendered
<1> HIDE DEF l, s, t
<1>1. /\ AppOK(F, h, l) /\ SameTab(a, l)
      /\ l.scr = a.scr /\ l.ops = a.ops /\ l.dev = a.dev
  BY <1>0, LastSeenOK
<1>2. /\ AppOK(F, h, s) /\ SameTab(l, s) /\ s.scr = l.scr /\ s.ops = l.ops
      /\ l.scr = None => s.dev = l.dev
      /\ l.scr # None => s.dev.scr = l.scr
  BY <1>0, <1>1, SaveDraftOK
<1>3. /\ AppOK(F, h, t) /\ SameTab(s, t) /\ Len(t.ops) = Len(s.ops)
      /\ Discarded(t) = Discarded(s)
      /\ s.scr = None => t.scr = None /\ t.dev = s.dev
      /\ s.scr # None => /\ t.scr # None /\ t.scr.text = s.scr.text
                         /\ t.dev = s.dev \/ t.dev.scr = t.scr
  BY <1>0, <1>2, ThawedOK
<1>5. CASE isOpenSendOver(s)
  <2>1. s.scr # None
    BY <1>5 DEF isOpenSendOver
  <2>2. b = GoesAway(s)
    BY <1>4, <1>5 DEF GoesAway
  <2>3. /\ AppOK(F, h, b) /\ SameTab(s, b) /\ b.scr = None /\ b.dev = None
        /\ Len(b.ops) = Len(s.ops)
        /\ s.open \in Discarded(b) /\ Discarded(s) \subseteq Discarded(b)
    BY <1>2, <2>1, <2>2, LetGoOK
  <2> QED
    BY <1>1, <1>2, <2>1, <2>3 DEF Shown, SameTab, Discarded
<1>6. CASE ~isOpenSendOver(s)
  <2> DEFINE m == IF touched \/ t.scr # a.scr THEN MayArm(t) ELSE t.armed
  <2>1. b = [t EXCEPT !.armed = m]
    BY <1>4, <1>6
  <2>2. t \in Apps
    BY <1>3 DEF AppOK
  <2>3. m \in BOOLEAN /\ (m => t.scr # None)
    BY <1>3, <2>2, AppFields DEF MayArm, AppOK
  <2> HIDE DEF m
  <2>4. b \in Apps
    BY <2>1, <2>2, <2>3 DEF Apps
  <2>5. /\ SameTab(t, b) /\ b.scr = t.scr /\ b.ops = t.ops /\ b.dev = t.dev /\ b.thaw = t.thaw
        /\ b.armed = m
    BY <2>1, <2>2 DEF Apps, SameTab
  <2>6. AppOK(F, h, b)
    BY <1>3, <2>3, <2>4, <2>5 DEF AppOK, SameTab
  <2>7. Shown(a, b)
    BY <1>1, <1>2, <1>3, <2>5 DEF Shown, SameTab, Discarded
  <2> QED
    BY <2>6, <2>7
<1> QED
  BY <1>5, <1>6

-----------------------------------------------------------------------------
(* The jobs, the records, the texts: what is true of each.                 *)

Works ==
  [kind : {"save", "flush", "send", "abandon", "drop", "agent", "settle", "follow", "load"},
   o : Nat,
   pc : {"start", "mint", "create", "minted", "write", "claim", "answer", "list", "listed",
         "run", "over", "read", "fresh", "again", "reread"},
   gen : Nat, key : KeyOrNot, v : Nat, text : Nat,
   res : {"", "ok", "threw", "offline", "sending", "conflict", "refused", "deleted", "absent"},
   list : Lists]

Hists ==
  [stored : NatSets, known : SUBSET (Nat \X Nat), mine : Seq(Nat), given : NatSets,
   restored : NatSets, typed : NatSets, iced : NatSets, blind : NatSets, crossed : NatSets,
   threw : BOOLEAN]

Bounds == [texts : Nat, sends : Nat, others : Nat, faults : Nat]

Writers == {"save", "flush", "send"}

\* What j wrote is the log's, and known to its opening.
Wrote(F, h, j) ==
  /\ <<j.key, j.v, j.text>> \in F
  /\ <<j.o, j.text>> \in h.known /\ j.text \in h.stored

\* gen is the tab's session, n how many openings it had.
JobOK(F, h, gen, n, j) ==
  /\ j \in Works /\ ListOK(F, j.list) /\ j.gen <= gen /\ j.o \in 0..n
  /\ j.kind \in Writers \cup {"settle"} => j.o # 0
  /\ j.gen # gen => j.o = 0 \/ j.o \in h.given
  /\ j.pc \in {"mint", "create", "minted"} => j.kind \in Writers
  /\ j.pc = "write" => j.kind \in {"save", "flush", "agent"}
  /\ j.pc = "claim" => j.kind = "send"
  /\ j.pc = "start" /\ j.kind \in Writers => Names(F, h, j.o, j.key, j.v)
  /\ j.pc \in {"write", "claim"} => Knows(F, h, j.o, j.key, j.v)
  /\ j.pc = "minted" /\ j.res = "ok" => Wrote(F, h, j) /\ j.v = 1
  /\ j.pc = "answer" /\ j.res = "ok" => j.key \in Keys /\ (j.gen = gen => Wrote(F, h, j))
  /\ j.kind = "save" /\ (j.pc \in {"list", "listed"} \/ (j.pc = "answer" /\ j.res = "conflict"))
       => j.key \in Keys
  /\ j.kind \notin Writers \cup {"load"} => j.key \in Keys
  /\ j.kind = "flush" /\ j.pc \in {"list", "listed"} => j.text \in h.stored

JobsOK(F, h, gen, n, js) == \A j \in js : JobOK(F, h, gen, n, j)

\* The records hold the log's newest, and a text typed here that one has held was stored.
RowsOK(F, c, r, h) ==
  /\ \A k \in Keys : /\ r[k].v = 0 => r[k].text = 0
                     /\ r[k].st = "none" <=> r[k].v = 0
                     /\ r[k].v # 0 => <<k, r[k].v, r[k].text>> \in F
  /\ \A k, v, t : <<k, v, t>> \in F => v <= r[k].v /\ (t \in 1..c.texts => t \in h.stored)

Shows(a, t)     == a.scr # None /\ a.scr.text = t
Copied(a, t)    == a.dev # None /\ a.dev.intent = 0 /\ a.dev.scr.text = t
Flushes(js, o, t) == \E j \in js : j.kind = "flush" /\ j.o = o /\ j.text = t

\* Why an opening's text is not lost.
Safe(a, js, h, o) ==
  \/ h.mine[o] = 0 \/ o \in h.given \/ o \in Discarded(a)
  \/ h.mine[o] \in h.stored
  \/ a.open = o /\ Shows(a, h.mine[o])
  \/ a.open = 0 /\ Copied(a, h.mine[o])
  \/ Flushes(js, o, h.mine[o])

\* While a compose is open the copy is of what is on screen.
InStep(a) == a.open # 0 /\ a.dev # None => a.scr # None /\ a.dev.scr.text = a.scr.text

\* No other opening that still needs it has typed the text on screen.
Alone(a, h) ==
  \A o \in 1..Len(a.ops) :
    o # a.open /\ h.mine[o] # 0 /\ Shows(a, h.mine[o]) => h.mine[o] \in h.stored \/ o \in h.given

TextsOK(c, a, js, u, h) ==
  /\ u.texts <= c.texts /\ Len(h.mine) = Len(a.ops) /\ h.typed \subseteq 1..u.texts
  /\ \A o \in 1..Len(a.ops) : h.mine[o] \in 0..u.texts /\ Safe(a, js, h, o)
  /\ InStep(a) /\ Alone(a, h)

Good(F, c, r, a, js, u, h) ==
  /\ c \in Casts /\ r \in [Keys -> Handles] /\ u \in Bounds /\ h \in Hists
  /\ Log(F) /\ RowsOK(F, c, r, h)
  /\ AppOK(F, h, a) /\ JobsOK(F, h, a.gen, Len(a.ops), js) /\ TextsOK(c, a, js, u, h)
  /\ h.blind \subseteq h.crossed /\ a.gens \subseteq {a.gen}

Now(F) == Good(F, cast, rows, app, jobs, used, hist)

\* The inductive invariant: some log explains what everyone holds.
IInv == \E F : Now(F)

-----------------------------------------------------------------------------
(* The log and the history only grow, and what was true of an id stays so. *)

Grows(h, g) ==
  /\ h.known \subseteq g.known /\ h.stored \subseteq g.stored /\ h.given \subseteq g.given
  /\ h.restored \subseteq g.restored /\ h.crossed \subseteq g.crossed

LEMMA KnowsMono ==
  ASSUME NEW F, NEW G, F \subseteq G, NEW h, NEW g, Grows(h, g)
  PROVE  /\ \A o, t : KnowsText(h, o, t) => KnowsText(g, o, t)
         /\ \A o, k, v : Knows(F, h, o, k, v) => Knows(G, g, o, k, v)
         /\ \A o, k, v : Names(F, h, o, k, v) => Names(G, g, o, k, v)
<1>1. \A o, t : KnowsText(h, o, t) => KnowsText(g, o, t)
  BY DEF Grows, KnowsText
<1>2. \A o, k, v : Knows(F, h, o, k, v) => Knows(G, g, o, k, v)
  BY <1>1 DEF Knows
<1> QED
  BY <1>1, <1>2 DEF Names

LEMMA ListMono ==
  ASSUME NEW F, NEW G, F \subseteq G, NEW l, ListOK(F, l) PROVE ListOK(G, l)
  BY DEF ListOK

LEMMA ComposeMono ==
  ASSUME NEW F, NEW G, F \subseteq G, NEW h, NEW g, Grows(h, g), NEW o, NEW c, ComposeOK(F, h, o, c)
  PROVE  ComposeOK(G, g, o, c)
<1>1. MintOK(G, g, o, c.minted)
  BY DEF ComposeOK, MintOK, Grows
<1> QED
  BY <1>1, KnowsMono DEF ComposeOK

LEMMA AppMono ==
  ASSUME NEW F, NEW G, F \subseteq G, NEW h, NEW g, Grows(h, g), NEW a, AppOK(F, h, a)
  PROVE  AppOK(G, g, a)
<1>1. ListOK(G, a.list)
  BY ListMono DEF AppOK
<1>4. ScreenOK(G, g, a.open, a.scr)
  <2>1. ScreenOK(F, h, a.open, a.scr)
    BY DEF AppOK
  <2> QED
    BY <2>1, KnowsMono DEF ScreenOK
<1>5. ThawOK(g, a.thaw)
  <2>1. ThawOK(h, a.thaw)
    BY DEF AppOK
  <2>2. KnowsText(h, a.thaw.o, a.thaw.named) => KnowsText(g, a.thaw.o, a.thaw.named)
    BY KnowsMono
  <2> QED
    BY <2>1, <2>2 DEF ThawOK
<1>2. CopyOK(G, a.dev) /\ ConflictOK(G, a.conflict)
  BY DEF AppOK, CopyOK, ConflictOK
<1>3. ComposesOK(G, g, a.ops)
  BY ComposeMono DEF AppOK, ComposesOK
<1> QED
  BY <1>1, <1>2, <1>3, <1>4, <1>5 DEF AppOK

LEMMA JobMono ==
  ASSUME NEW F, NEW G, F \subseteq G, NEW h, NEW g, Grows(h, g), NEW gen,
         NEW n \in Nat, NEW m \in Nat, n <= m, NEW j, JobOK(F, h, gen, n, j)
  PROVE  JobOK(G, g, gen, m, j)
<1>1. j \in Works /\ ListOK(G, j.list) /\ j.gen <= gen
  BY ListMono DEF JobOK
<1>2. j.o \in 0..m
  BY DEF JobOK
<1>3. /\ Names(F, h, j.o, j.key, j.v) => Names(G, g, j.o, j.key, j.v)
      /\ Knows(F, h, j.o, j.key, j.v) => Knows(G, g, j.o, j.key, j.v)
  BY KnowsMono
<1>4. Wrote(F, h, j) => Wrote(G, g, j)
  BY DEF Wrote, Grows
<1>5. j.o \in h.given => j.o \in g.given
  BY DEF Grows
<1>6. j.text \in h.stored => j.text \in g.stored
  BY DEF Grows
<1> QED
  BY <1>1, <1>2, <1>3, <1>4, <1>5, <1>6 DEF JobOK

LEMMA JobsMono ==
  ASSUME NEW F, NEW G, F \subseteq G, NEW h, NEW g, Grows(h, g), NEW gen,
         NEW n \in Nat, NEW m \in Nat, n <= m, NEW js, JobsOK(F, h, gen, n, js)
  PROVE  JobsOK(G, g, gen, m, js)
  BY JobMono DEF JobsOK

\* A job added, changed or ended.
LEMMA JobsSet ==
  ASSUME NEW F, NEW h, NEW gen, NEW n, NEW js, JobsOK(F, h, gen, n, js)
  PROVE  /\ \A k : JobOK(F, h, gen, n, k) => JobsOK(F, h, gen, n, js \cup {k})
         /\ \A j, k : JobOK(F, h, gen, n, k) => JobsOK(F, h, gen, n, (js \ {j}) \cup {k})
         /\ \A j : JobsOK(F, h, gen, n, js \ {j})
  BY DEF JobsOK

-----------------------------------------------------------------------------
(* A write of the vault.                                                   *)

Logged(F, k, v, t)  == F \cup {<<k, v, t>>}
Stored(r, k, t, st) == [r EXCEPT ![k] = [v |-> r[k].v + 1, text |-> t, st |-> st]]

\* A text a record may come to hold: its own, one stored, or one not typed here.
Fits(c, r, h, k, t) == t = r[k].text \/ t \in h.stored \/ t \notin 1..c.texts

LEMMA PutOK ==
  ASSUME NEW F, NEW c, c \in Casts, NEW r \in [Keys -> Handles], NEW h, NEW g,
         Grows(h, g), Log(F), RowsOK(F, c, r, h),
         NEW k \in Keys, NEW t \in Nat, NEW st \in States \ {"none"},
         Fits(c, r, g, k, t), NEW x, x = Stored(r, k, t, st),
         NEW n, n = r[k].v + 1, NEW G, G = Logged(F, k, n, t)
  PROVE  /\ x \in [Keys -> Handles] /\ x[k].v = r[k].v + 1 /\ x[k].text = t
         /\ Log(G) /\ RowsOK(G, c, x, g)
<1>1. \A i \in Keys : r[i].v \in Nat /\ r[i].text \in Nat
  BY DEF Handles
<1> DEFINE y == [v |-> n, text |-> t, st |-> st]
<1>2. n \in Nat \ {0} /\ r[k].v < n
  BY <1>1
<1>3. y \in Handles /\ y.v = n /\ y.text = t /\ y.st = st
  BY <1>2 DEF Handles
<1>4. x = [r EXCEPT ![k] = y] /\ G = F \cup {<<k, n, t>>}
  BY DEF Stored, Logged
<1> HIDE DEF y
<1>5. x \in [Keys -> Handles] /\ x[k] = y /\ \A i \in Keys : i # k => x[i] = r[i]
  BY <1>3, <1>4
<1>6. \A i, v, s : <<i, v, s>> \in G => <<i, v, s>> \in F \/ (i = k /\ v = n /\ s = t)
  BY <1>4
<1>7. \A v, s : <<k, v, s>> \in F => v # n
  <2> SUFFICES ASSUME NEW v, NEW s, <<k, v, s>> \in F, v = n PROVE FALSE
    OBVIOUS
  <2>1. n <= r[k].v
    BY DEF RowsOK
  <2> QED
    BY <1>1, <1>2, <2>1
<1>8. Log(G)
  <2>1. \A i, v, s : <<i, v, s>> \in G => i \in Keys /\ v \in Nat \ {0} /\ s \in Nat
    BY <1>2, <1>6 DEF Log
  <2>2. ASSUME NEW i, NEW v, NEW s, NEW z, <<i, v, s>> \in G, <<i, v, z>> \in G PROVE s = z
    BY <1>6, <1>7, <2>2 DEF Log
  <2> QED
    BY <2>1, <2>2 DEF Log
<1>9. t \in 1..c.texts => t \in g.stored
  <2>1. CASE t = r[k].text
    <3>1. CASE r[k].v = 0
      <4>1. t = 0
        BY <2>1, <3>1 DEF RowsOK
      <4>2. c.texts \in Nat
        BY CastsAssumption
      <4> QED
        BY <4>1, <4>2
    <3>2. CASE r[k].v # 0
      BY <2>1, <3>2 DEF RowsOK, Grows
    <3> QED
      BY <3>1, <3>2
  <2> QED
    BY <2>1 DEF Fits
<1>10. ASSUME NEW i \in Keys
       PROVE  /\ x[i].v = 0 => x[i].text = 0
              /\ x[i].st = "none" <=> x[i].v = 0
              /\ x[i].v # 0 => <<i, x[i].v, x[i].text>> \in G
  <2>1. CASE i = k
    BY <1>2, <1>3, <1>4, <1>5, <2>1
  <2>2. CASE i # k
    BY <1>4, <1>5, <2>2 DEF RowsOK
  <2> QED
    BY <2>1, <2>2
<1>11. ASSUME NEW i, NEW v, NEW s, <<i, v, s>> \in G
       PROVE  v <= x[i].v /\ (s \in 1..c.texts => s \in g.stored)
  <2>1. CASE <<i, v, s>> \in F
    <3>1. i \in Keys /\ v \in Nat /\ v <= r[i].v /\ (s \in 1..c.texts => s \in g.stored)
      BY <2>1 DEF Log, RowsOK, Grows
    <3>2. r[i].v <= x[i].v
      BY <1>1, <1>2, <1>3, <1>5, <3>1
    <3>3. r[i].v \in Nat /\ x[i].v \in Nat
      BY <1>1, <1>2, <1>3, <1>5, <3>1
    <3> QED
      BY <3>1, <3>2, <3>3
  <2>2. CASE i = k /\ v = n /\ s = t
    BY <1>2, <1>3, <1>5, <1>9, <2>2
  <2> QED
    BY <1>6, <1>11, <2>1, <2>2
<1>12. RowsOK(G, c, x, g)
  BY <1>10, <1>11 DEF RowsOK
<1> QED
  BY <1>3, <1>5, <1>8, <1>12

-----------------------------------------------------------------------------
(* The texts under a step that leaves the screen's alone.                  *)

\* The same openings, the same text on screen, the same copy.
Alike(a, b) ==
  /\ b.open = a.open /\ Len(b.ops) = Len(a.ops) /\ Discarded(a) \subseteq Discarded(b)
  /\ b.dev = a.dev
  /\ a.scr = None => b.scr = None
  /\ a.scr # None => b.scr # None /\ b.scr.text = a.scr.text

\* The same, but that a draft whose send is over may have gone.
Calm(a, b) ==
  /\ b.open = a.open /\ Len(b.ops) = Len(a.ops) /\ Discarded(a) \subseteq Discarded(b)
  /\ a.open = 0 => b.dev = a.dev
  /\ a.scr = None => b.scr = None
  /\ a.scr # None => \/ b.scr # None /\ b.scr.text = a.scr.text
                     \/ b.scr = None /\ a.open \in Discarded(b)
  /\ InStep(b)

\* A flush goes on, or is done with its text.
Flushed(a, h, g, ks, j) ==
  \/ Flushes(ks, j.o, j.text) \/ j.text \in g.stored \/ j.o \in g.given
  \/ Copied(a, h.mine[j.o])

Flushing(a, h, g, js, ks) == \A j \in js : j.kind = "flush" => Flushed(a, h, g, ks, j)

LEMMA AlikeCalm ==
  ASSUME NEW a, NEW b, Alike(a, b), InStep(a) PROVE Calm(a, b)
  BY DEF Alike, Calm, InStep

LEMMA ShownCalm ==
  ASSUME NEW F, NEW h, NEW a, AppOK(F, h, a), InStep(a), NEW m, Alike(a, m), NEW b, Shown(m, b)
  PROVE  Calm(a, b)
<1>1. a.scr # None => a.open # 0
  BY DEF AppOK, ScreenOK
<1>2. b.open = a.open /\ Len(b.ops) = Len(a.ops) /\ Discarded(a) \subseteq Discarded(b)
  BY DEF Alike, Shown, SameTab
<1>3. CASE a.scr = None
  <2>1. b.scr = None /\ b.dev = a.dev
    BY <1>3 DEF Alike, Shown
  <2> QED
    BY <1>2, <1>3, <2>1 DEF Calm, InStep
<1>4. CASE a.scr # None
  <2>1. m.scr # None /\ m.scr.text = a.scr.text /\ m.open = a.open
    BY <1>4 DEF Alike
  <2>2. \/ b.scr # None /\ b.scr.text = a.scr.text /\ b.dev.scr.text = b.scr.text
        \/ b.scr = None /\ b.dev = None /\ a.open \in Discarded(b)
    BY <2>1 DEF Shown
  <2> QED
    BY <1>1, <1>2, <1>4, <2>2 DEF Calm, InStep
<1> QED
  BY <1>3, <1>4

\* A text in the copy that the screen leaves alone is as safe as before.
LEMMA CopiedSafe ==
  ASSUME NEW c, NEW a, NEW js, NEW u, NEW h, TextsOK(c, a, js, u, h), a.open \in 0..Len(a.ops),
         NEW o \in 1..Len(a.ops), Copied(a, h.mine[o])
  PROVE  \/ h.mine[o] = 0 \/ o \in h.given \/ h.mine[o] \in h.stored
         \/ a.open = o /\ Shows(a, h.mine[o])
         \/ a.open = 0
<1>1. CASE a.open = 0
  BY <1>1
<1>2. CASE a.open # 0
  <2>1. Shows(a, h.mine[o])
    BY <1>2 DEF TextsOK, InStep, Copied, Shows
  <2> QED
    BY <2>1 DEF TextsOK, Alone
<1> QED
  BY <1>1, <1>2

LEMMA CalmTexts ==
  ASSUME NEW c, NEW a, NEW js, NEW u, NEW h, TextsOK(c, a, js, u, h), a.open \in 0..Len(a.ops),
         NEW b, Calm(a, b), NEW g, Grows(h, g), g.mine = h.mine, g.typed = h.typed,
         NEW ks, Flushing(a, h, g, js, ks),
         NEW w, u.texts \in Nat, w.texts \in Nat, u.texts <= w.texts, w.texts <= c.texts
  PROVE  TextsOK(c, b, ks, w, g)
<1>1. /\ b.open = a.open /\ Len(b.ops) = Len(a.ops) /\ InStep(b)
      /\ Discarded(a) \subseteq Discarded(b)
  BY DEF Calm
<1>2. ASSUME NEW o \in 1..Len(a.ops) PROVE Safe(b, ks, g, o)
  <2> DEFINE t == h.mine[o]
  <2>0. g.mine[o] = t
    OBVIOUS
  <2>1. Safe(a, js, h, o)
    BY DEF TextsOK
  <2>2. CASE t = 0 \/ o \in h.given \/ o \in Discarded(a) \/ t \in h.stored
    BY <1>1, <2>2 DEF Safe, Grows
  <2>3. ASSUME a.open = o, Shows(a, t) PROVE Safe(b, ks, g, o)
    BY <1>1, <2>3 DEF Safe, Shows, Calm
  <2>4. ASSUME a.open = 0, Copied(a, t) PROVE Safe(b, ks, g, o)
    BY <1>1, <2>4 DEF Safe, Copied, Calm
  <2>5. ASSUME Flushes(js, o, t) PROVE Safe(b, ks, g, o)
    <3>1. PICK j \in js : j.kind = "flush" /\ j.o = o /\ j.text = t
      BY <2>5 DEF Flushes
    <3>2. Flushed(a, h, g, ks, j)
      BY <3>1 DEF Flushing
    <3>3. CASE Flushes(ks, o, t) \/ t \in g.stored \/ o \in g.given
      BY <3>3 DEF Safe
    <3>4. CASE Copied(a, t)
      <4>1. \/ t = 0 \/ o \in h.given \/ t \in h.stored
            \/ a.open = o /\ Shows(a, t)
            \/ a.open = 0
        BY <3>4, CopiedSafe
      <4> QED
        BY <2>2, <2>3, <2>4, <3>4, <4>1
    <3> QED
      BY <3>1, <3>2, <3>3, <3>4 DEF Flushed
  <2> QED
    BY <2>1, <2>2, <2>3, <2>4, <2>5 DEF Safe
<1>3. ASSUME NEW o \in 1..Len(a.ops) PROVE h.mine[o] \in 0..w.texts
  <2>1. h.mine[o] \in 0..u.texts
    BY DEF TextsOK
  <2> QED
    BY <2>1
<1>4. Alone(b, g)
  <2> SUFFICES ASSUME NEW o \in 1..Len(a.ops), o # a.open, h.mine[o] # 0, Shows(b, h.mine[o])
               PROVE  h.mine[o] \in g.stored \/ o \in g.given
    BY <1>1 DEF Alone
  <2>1. Shows(a, h.mine[o])
    BY DEF Shows, Calm
  <2> QED
    BY <2>1 DEF TextsOK, Alone, Grows
<1> QED
  BY <1>1, <1>2, <1>3, <1>4 DEF TextsOK

-----------------------------------------------------------------------------
(* One field of the tab set.                                               *)

WithCompose(a, o, c) == [a EXCEPT !.ops = [a.ops EXCEPT ![o] = c]]

\* A discarded compose stays discarded.
StaysOff(d, c) == d.discarded => c.discarded

LEMMA SetCompose ==
  ASSUME NEW F, NEW h, NEW a, AppOK(F, h, a), NEW o \in 1..Len(a.ops), NEW c \in Composes,
         ComposeOK(F, h, o, c), StaysOff(a.ops[o], c), NEW b, b = WithCompose(a, o, c)
  PROVE  /\ AppOK(F, h, b) /\ Alike(a, b) /\ SameTab(a, b)
         /\ b.scr = a.scr /\ b.dev = a.dev /\ b.ops[o] = c
         /\ \A p \in 1..Len(a.ops) : p # o => b.ops[p] = a.ops[p]
<1> DEFINE s == [a.ops EXCEPT ![o] = c]
<1>1. a \in Apps /\ a.ops \in ComposeSeqs
  BY AppFields DEF AppOK
<1>2. /\ s \in ComposeSeqs /\ Len(s) = Len(a.ops)
      /\ s[o] = c /\ \A p \in 1..Len(a.ops) : p # o => s[p] = a.ops[p]
  BY <1>1, ComposeSet
<1>3. ComposesOK(F, h, s)
  BY <1>2 DEF AppOK, ComposesOK
<1>4. \A p \in 1..Len(a.ops) : a.ops[p].discarded => s[p].discarded
  BY <1>2 DEF StaysOff
<1> HIDE DEF s
<1>5. b = [a EXCEPT !.ops = s]
  BY DEF s, WithCompose
<1>6. b \in Apps
  BY <1>1, <1>2, <1>5 DEF Apps
<1>7. /\ SameTab(a, b) /\ b.scr = a.scr /\ b.dev = a.dev /\ b.ops = s /\ b.thaw = a.thaw
      /\ b.armed = a.armed
  BY <1>1, <1>5 DEF Apps, SameTab
<1>8. Discarded(a) \subseteq Discarded(b)
  BY <1>2, <1>4, <1>7 DEF Discarded
<1>9. AppOK(F, h, b)
  BY <1>2, <1>3, <1>6, <1>7 DEF AppOK, SameTab
<1>10. Alike(a, b)
  BY <1>2, <1>7, <1>8 DEF Alike, SameTab
<1> QED
  BY <1>2, <1>7, <1>9, <1>10

\* Fields the invariant says nothing of.
Flagged(a, s) ==
  {[a EXCEPT !.armed = FALSE], [a EXCEPT !.err = TRUE], [a EXCEPT !.err = FALSE],
   [a EXCEPT !.gens = s], [a EXCEPT !.unlocked = TRUE]}

LEMMA SetFlags ==
  ASSUME NEW F, NEW h, NEW a, AppOK(F, h, a), NEW s \in NatSets,
         NEW b, b \in Flagged(a, s)
  PROVE  /\ AppOK(F, h, b) /\ Alike(a, b)
         /\ b.gen = a.gen /\ (b.gens = a.gens \/ b.gens = s) /\ b.list = a.list
         /\ b.scr = a.scr /\ b.dev = a.dev /\ b.ops = a.ops /\ b.open = a.open
<1>1. a \in Apps
  BY DEF AppOK
<1>2. b \in Apps
  BY <1>1 DEF Apps, Flagged
<1>3. /\ b.gen = a.gen /\ b.list = a.list /\ b.open = a.open /\ b.scr = a.scr
      /\ b.dev = a.dev /\ b.ops = a.ops /\ b.thaw = a.thaw /\ b.conflict = a.conflict
  BY <1>1 DEF Apps, Flagged
<1>4. (b.gens = a.gens \/ b.gens = s) /\ (b.armed = a.armed \/ b.armed = FALSE)
  BY <1>1 DEF Apps, Flagged
<1>5. Discarded(b) = Discarded(a)
  BY <1>3 DEF Discarded
<1> QED
  BY <1>2, <1>3, <1>4, <1>5 DEF AppOK, Alike

LEMMA SetList ==
  ASSUME NEW F, NEW h, NEW a, AppOK(F, h, a), NEW l \in Lists, ListOK(F, l),
         NEW b, b = [a EXCEPT !.list = l]
  PROVE  /\ AppOK(F, h, b) /\ Alike(a, b)
         /\ b.gen = a.gen /\ b.gens = a.gens /\ b.list = l
         /\ b.scr = a.scr /\ b.dev = a.dev /\ b.ops = a.ops /\ b.open = a.open
<1>1. a \in Apps
  BY DEF AppOK
<1>2. b \in Apps
  BY <1>1 DEF Apps
<1>3. /\ b.gen = a.gen /\ b.list = l /\ b.open = a.open /\ b.scr = a.scr /\ b.gens = a.gens
      /\ b.dev = a.dev /\ b.ops = a.ops /\ b.thaw = a.thaw /\ b.conflict = a.conflict
  BY <1>1 DEF Apps
<1>4. Discarded(b) = Discarded(a)
  BY <1>3 DEF Discarded
<1> QED
  BY <1>2, <1>3, <1>4 DEF AppOK, Alike

\* One draft of a list, off it or with a handle the log has.
LEMMA ListSet ==
  ASSUME NEW F, NEW l \in Lists, ListOK(F, l), NEW k \in Keys, NEW x \in Handles \cup {None},
         x = None \/ <<k, x.v, x.text>> \in F, NEW m, m = [l EXCEPT ![k] = x]
  PROVE  m \in Lists /\ ListOK(F, m)
<1>1. m \in Lists
  BY DEF Lists
<1>2. m[k] = x /\ \A i \in Keys : i # k => m[i] = l[i]
  BY DEF Lists
<1> QED
  BY <1>1, <1>2 DEF ListOK

LEMMA SetConflict ==
  ASSUME NEW F, NEW h, NEW a, AppOK(F, h, a), NEW c \in Conflicts \cup {None}, ConflictOK(F, c),
         NEW b, b = [a EXCEPT !.conflict = c]
  PROVE  /\ AppOK(F, h, b) /\ Alike(a, b)
         /\ b.gen = a.gen /\ b.gens = a.gens /\ b.list = a.list
         /\ b.scr = a.scr /\ b.dev = a.dev /\ b.ops = a.ops /\ b.open = a.open
<1>1. a \in Apps
  BY DEF AppOK
<1>2. b \in Apps
  BY <1>1 DEF Apps
<1>3. /\ b.gen = a.gen /\ b.list = a.list /\ b.open = a.open /\ b.scr = a.scr /\ b.gens = a.gens
      /\ b.dev = a.dev /\ b.ops = a.ops /\ b.thaw = a.thaw /\ b.conflict = c
  BY <1>1 DEF Apps
<1>4. Discarded(b) = Discarded(a)
  BY <1>3 DEF Discarded
<1> QED
  BY <1>2, <1>3, <1>4 DEF AppOK, Alike

LEMMA SetScreen ==
  ASSUME NEW F, NEW h, NEW a, AppOK(F, h, a), NEW s \in Screens \cup {None},
         ScreenOK(F, h, a.open, s), a.armed => s # None, NEW b, b = [a EXCEPT !.scr = s]
  PROVE  /\ AppOK(F, h, b) /\ SameTab(a, b)
         /\ b.scr = s /\ b.dev = a.dev /\ b.ops = a.ops
         /\ Discarded(b) = Discarded(a)
         /\ a.scr # None /\ s # None /\ s.text = a.scr.text => Alike(a, b)
<1>1. a \in Apps
  BY DEF AppOK
<1>2. b \in Apps
  BY <1>1 DEF Apps
<1>3. /\ SameTab(a, b) /\ b.scr = s
      /\ b.dev = a.dev /\ b.ops = a.ops /\ b.thaw = a.thaw /\ b.armed = a.armed
  BY <1>1 DEF Apps, SameTab
<1>4. Discarded(b) = Discarded(a)
  BY <1>3 DEF Discarded
<1>5. AppOK(F, h, b)
  BY <1>2, <1>3 DEF AppOK, SameTab
<1> QED
  BY <1>3, <1>4, <1>5 DEF Alike, SameTab

LEMMA SetCopy ==
  ASSUME NEW F, NEW h, NEW a, AppOK(F, h, a), NEW b, b = [a EXCEPT !.dev = None]
  PROVE  /\ AppOK(F, h, b) /\ SameTab(a, b)
         /\ b.scr = a.scr /\ b.dev = None /\ b.ops = a.ops
         /\ Discarded(b) = Discarded(a)
<1>1. a \in Apps
  BY DEF AppOK
<1>2. b \in Apps
  BY <1>1 DEF Apps
<1>3. /\ SameTab(a, b) /\ b.scr = a.scr
      /\ b.dev = None /\ b.ops = a.ops /\ b.thaw = a.thaw
  BY <1>1 DEF Apps, SameTab
<1>4. CopyOK(F, b.dev) /\ Discarded(b) = Discarded(a)
  BY <1>3 DEF CopyOK, Discarded
<1> QED
  BY <1>2, <1>3, <1>4 DEF AppOK, SameTab

LEMMA AlikeTrans ==
  ASSUME NEW a, NEW b, NEW c, Alike(a, b), Alike(b, c) PROVE Alike(a, c)
  BY DEF Alike

-----------------------------------------------------------------------------
(* What a step has to show.                                                *)

LEMMA Facts ==
  ASSUME NEW F, Now(F)
  PROVE  /\ cast \in Casts /\ cast.texts \in Nat
         /\ rows \in [Keys -> Handles] /\ used \in Bounds /\ used.texts \in Nat /\ hist \in Hists
         /\ Log(F) /\ RowsOK(F, cast, rows, hist) /\ AppOK(F, hist, app)
         /\ app \in Apps /\ app.gen \in Nat /\ app.ops \in ComposeSeqs /\ Len(app.ops) \in Nat
         /\ app.open \in 0..Len(app.ops)
         /\ JobsOK(F, hist, app.gen, Len(app.ops), jobs)
         /\ TextsOK(cast, app, jobs, used, hist) /\ InStep(app)
         /\ hist.blind \subseteq hist.crossed /\ app.gens \subseteq {app.gen}
<1>1. /\ cast \in Casts /\ rows \in [Keys -> Handles] /\ used \in Bounds /\ hist \in Hists
      /\ Log(F) /\ RowsOK(F, cast, rows, hist) /\ AppOK(F, hist, app)
      /\ JobsOK(F, hist, app.gen, Len(app.ops), jobs)
      /\ TextsOK(cast, app, jobs, used, hist)
      /\ hist.blind \subseteq hist.crossed /\ app.gens \subseteq {app.gen}
  BY DEF Now, Good
<1>2. app \in Apps /\ app.open \in 0..Len(app.ops)
  BY <1>1 DEF AppOK
<1>3. app.gen \in Nat /\ app.ops \in ComposeSeqs
  BY <1>2, AppFields
<1>4. Len(app.ops) \in Nat
  BY <1>3 DEF ComposeSeqs
<1>5. cast.texts \in Nat /\ used.texts \in Nat /\ InStep(app)
  BY <1>1, CastsAssumption DEF Bounds, TextsOK
<1> QED
  BY <1>1, <1>2, <1>3, <1>4, <1>5

LEMMA JobFacts ==
  ASSUME NEW F, Now(F), NEW j \in jobs
  PROVE  /\ JobOK(F, hist, app.gen, Len(app.ops), j) /\ j \in Works
         /\ j.o \in Nat /\ j.gen \in Nat /\ j.key \in KeyOrNot /\ j.v \in Nat /\ j.text \in Nat
         /\ j.list \in Lists /\ ListOK(F, j.list) /\ j.o \in 0..Len(app.ops)
         /\ j.kind \in Writers \cup {"settle"} => j.o \in 1..Len(app.ops)
         /\ j.kind \notin Writers \cup {"load"} => j.key \in Keys
<1>1. JobOK(F, hist, app.gen, Len(app.ops), j)
  BY Facts DEF JobsOK
<1>2. j \in Works /\ ListOK(F, j.list) /\ j.o \in 0..Len(app.ops)
  BY <1>1 DEF JobOK
<1>3. /\ j.o \in Nat /\ j.gen \in Nat /\ j.key \in KeyOrNot /\ j.v \in Nat /\ j.text \in Nat
      /\ j.list \in Lists
  BY <1>2 DEF Works
<1>4. j.kind \in Writers \cup {"settle"} => j.o \in 1..Len(app.ops)
  <2>1. j.kind \in Writers \cup {"settle"} => j.o # 0
    BY <1>1 DEF JobOK
  <2> QED
    BY <1>2, <2>1, Facts
<1>5. j.kind \notin Writers \cup {"load"} => j.key \in Keys
  BY <1>1 DEF JobOK
<1> QED
  BY <1>1, <1>2, <1>3, <1>4, <1>5

LEMMA CalmStep ==
  ASSUME NEW F, Now(F), NEW G, cast' = cast,
         rows' \in [Keys -> Handles], Log(G), RowsOK(G, cast, rows', hist'),
         hist' \in Hists, Grows(hist, hist'), hist'.mine = hist.mine /\ hist'.typed = hist.typed, hist'.blind \subseteq hist'.crossed,
         used' \in Bounds, used.texts <= used'.texts, used'.texts <= cast.texts,
         AppOK(G, hist', app'), Calm(app, app'), app'.gen = app.gen, app'.gens \subseteq {app.gen},
         JobsOK(G, hist', app.gen, Len(app.ops), jobs'), Flushing(app, hist, hist', jobs, jobs')
  PROVE  Now(G)'
<1>1. /\ cast \in Casts /\ TextsOK(cast, app, jobs, used, hist) /\ app.open \in 0..Len(app.ops)
      /\ used.texts \in Nat
  BY Facts
<1>2. used'.texts \in Nat
  BY DEF Bounds
<1>3. TextsOK(cast, app', jobs', used', hist')
  BY <1>1, <1>2, CalmTexts
<1>4. Len(app'.ops) = Len(app.ops)
  BY DEF Calm
<1>5. Good(G, cast', rows', app', jobs', used', hist')
  BY <1>1, <1>3, <1>4 DEF Good
<1> QED
  BY <1>5 DEF Now

\* A step of the tab alone: no write of the vault, nothing for the history that matters here.
LEMMA TabStep ==
  ASSUME NEW F, Now(F), UNCHANGED <<cast, rows, used>>,
         hist' \in Hists, Grows(hist, hist'), hist'.mine = hist.mine /\ hist'.typed = hist.typed, hist'.blind = hist.blind,
         AppOK(F, hist', app'), Calm(app, app'), app'.gen = app.gen, app'.gens \subseteq {app.gen},
         JobsOK(F, hist', app.gen, Len(app.ops), jobs'), Flushing(app, hist, hist', jobs, jobs')
  PROVE  Now(F)'
<1>1. /\ rows \in [Keys -> Handles] /\ Log(F) /\ RowsOK(F, cast, rows, hist) /\ used \in Bounds
      /\ hist.blind \subseteq hist.crossed /\ used.texts \in Nat /\ used.texts <= cast.texts
  BY Facts DEF TextsOK
<1>2. RowsOK(F, cast, rows, hist')
  BY <1>1 DEF RowsOK, Grows
<1>3. hist'.blind \subseteq hist'.crossed
  BY <1>1 DEF Grows
<1> QED
  BY <1>1, <1>2, <1>3, CalmStep

LEMMA SameHist ==
  ASSUME hist' = hist
  PROVE  Grows(hist, hist') /\ hist'.mine = hist.mine /\ hist'.typed = hist.typed /\ hist'.blind = hist.blind
  BY DEF Grows

\* The same, with the tab as it was too.
LEMMA WaitStep ==
  ASSUME NEW F, Now(F), UNCHANGED <<cast, rows, used, app, hist>>,
         JobsOK(F, hist, app.gen, Len(app.ops), jobs'), Flushing(app, hist, hist, jobs, jobs')
  PROVE  Now(F)'
<1>1. AppOK(F, hist, app) /\ InStep(app) /\ hist \in Hists /\ app.gens \subseteq {app.gen}
  BY Facts
<1>2. Calm(app, app)
  BY <1>1 DEF Calm, InStep
<1> QED
  BY <1>1, <1>2, SameHist, TabStep

LEMMA FlushingKept ==
  ASSUME NEW a, NEW h, NEW g, NEW js
  PROVE  /\ \A k : Flushing(a, h, g, js, js \cup {k})
         /\ Flushing(a, h, g, js, js)
         /\ \A j : j.kind # "flush" => Flushing(a, h, g, js, js \ {j})
         /\ \A j, k : (j.kind = "flush" => k.kind = "flush" /\ k.o = j.o /\ k.text = j.text)
                        => Flushing(a, h, g, js, (js \ {j}) \cup {k})
  BY DEF Flushing, Flushed, Flushes

\* Jobs after a step in which j becomes k.
LEMMA BecomeOK ==
  ASSUME NEW F, Now(F), NEW G, F \subseteq G, NEW h, Grows(hist, h),
         NEW j \in jobs, NEW k, JobOK(G, h, app.gen, Len(app.ops), k), Become(j, k)
  PROVE  JobsOK(G, h, app.gen, Len(app.ops), jobs')
<1>1. JobsOK(G, h, app.gen, Len(app.ops), jobs)
  BY Facts, JobsMono
<1> QED
  BY <1>1, JobsSet DEF Become

-----------------------------------------------------------------------------
(* The vault's writes.                                                     *)

\* A version that still stands is of a text its opening had on screen.
LEMMA CurrentText ==
  ASSUME NEW F, Now(F), NEW o, NEW k, NEW v, Knows(F, hist, o, k, v)
  PROVE  /\ k \in Keys /\ v \in Nat \ {0} /\ rows[k].v \in Nat /\ rows[k].text \in Nat
         /\ rows[k].v = v => rows[k].st \in States \ {"none"} /\ KnowsText(hist, o, rows[k].text)
<1>1. PICK t \in Nat : <<k, v, t>> \in F /\ KnowsText(hist, o, t)
  BY DEF Knows
<1>2. k \in Keys /\ v \in Nat \ {0}
  BY <1>1, Facts DEF Log
<1>3. rows[k] \in Handles
  BY <1>2, Facts
<1>4. rows[k].v \in Nat /\ rows[k].text \in Nat /\ rows[k].st \in States
  BY <1>3 DEF Handles
<1>5. ASSUME rows[k].v = v PROVE rows[k].st # "none" /\ KnowsText(hist, o, rows[k].text)
  <2>1. <<k, v, rows[k].text>> \in F
    BY <1>2, <1>5, Facts DEF RowsOK
  <2>2. rows[k].text = t
    BY <1>1, <2>1, Facts DEF Log
  <2>3. rows[k].st # "none"
    BY <1>2, <1>5, Facts DEF RowsOK
  <2> QED
    BY <1>1, <2>2, <2>3
<1> QED
  BY <1>2, <1>4, <1>5

LEMMA RecordOK ==
  ASSUME NEW F, Now(F), NEW j \in jobs, NEW t, KnowsText(hist, j.o, t), Record(j, t)
  PROVE  /\ hist' \in Hists /\ Grows(hist, hist') /\ hist'.mine = hist.mine /\ hist'.typed = hist.typed
         /\ hist'.blind \subseteq hist'.crossed
         /\ <<j.o, j.text>> \in hist'.known /\ j.text \in hist'.stored
<1>1. hist \in Hists /\ hist.blind \subseteq hist.crossed /\ j.o \in Nat /\ j.text \in Nat
  BY Facts, JobFacts
<1> DEFINE b == IF Seen(j.o, t) THEN hist.blind ELSE hist.blind \cup {j.o}
           s == hist.stored \cup {j.text}
           n == hist.known \cup {<<j.o, j.text>>}
<1>2. hist' = [hist EXCEPT !.stored = s, !.known = n, !.blind = b]
  BY DEF Record
<1>3. b \in NatSets /\ b \subseteq hist.crossed
  <2>1. ~Seen(j.o, t) => j.o \in hist.crossed
    BY DEF Seen, KnowsText
  <2> QED
    BY <1>1, <2>1 DEF Hists, NatSets
<1>4. s \in NatSets /\ n \in SUBSET (Nat \X Nat)
  BY <1>1 DEF Hists, NatSets
<1>5. hist.known \subseteq n /\ hist.stored \subseteq s /\ <<j.o, j.text>> \in n /\ j.text \in s
  OBVIOUS
<1> HIDE DEF b, s, n
<1>6. hist' \in Hists
  BY <1>1, <1>2, <1>3, <1>4 DEF Hists
<1>7. /\ hist'.known = n /\ hist'.stored = s /\ hist'.blind = b /\ hist'.mine = hist.mine /\ hist'.typed = hist.typed
      /\ hist'.given = hist.given /\ hist'.restored = hist.restored /\ hist'.crossed = hist.crossed
  BY <1>1, <1>2 DEF Hists
<1> QED
  BY <1>3, <1>5, <1>6, <1>7 DEF Grows

\* A write of the vault by anyone, and what the log gains by it.
LEMMA PutStep ==
  ASSUME NEW F, Now(F), NEW k \in Keys, NEW t \in Nat, NEW st \in States \ {"none"}, Put(k, t, st),
         hist' \in Hists, Grows(hist, hist'),
         Fits(cast, rows, hist', k, t),
         NEW n, n = rows[k].v + 1, NEW G, G = Logged(F, k, n, t)
  PROVE  /\ rows' \in [Keys -> Handles] /\ Log(G) /\ RowsOK(G, cast, rows', hist')
<1>1. cast \in Casts /\ rows \in [Keys -> Handles] /\ Log(F) /\ RowsOK(F, cast, rows, hist)
  BY Facts
<1>2. rows' = Stored(rows, k, t, st)
  BY DEF Put, Stored
<1>3. rows' \in [Keys -> Handles] /\ Log(G) /\ RowsOK(G, cast, rows', hist')
  BY <1>1, <1>2, PutOK
<1> QED
  BY <1>3

\* A write over a version its opening knows.
LEMMA WriteLands ==
  ASSUME NEW F, Now(F), NEW j \in jobs, Knows(F, hist, j.o, j.key, j.v),
         Refusal(j.key, j.v) = "ok", NEW st \in States \cup {rows[j.key].st}, st # "none",
         Put(j.key, j.text, st), Record(j, rows[j.key].text),
         NEW G, G = Logged(F, j.key, j.v + 1, j.text)
  PROVE  /\ rows' \in [Keys -> Handles] /\ Log(G) /\ RowsOK(G, cast, rows', hist')
         /\ hist' \in Hists /\ Grows(hist, hist') /\ hist'.mine = hist.mine /\ hist'.typed = hist.typed
         /\ hist'.blind \subseteq hist'.crossed
         /\ <<j.o, j.text>> \in hist'.known /\ j.text \in hist'.stored
<1>1. rows[j.key].v = j.v
  BY DEF Refusal
<1>2. /\ j.key \in Keys /\ rows[j.key].st \in States \ {"none"}
      /\ KnowsText(hist, j.o, rows[j.key].text)
  BY <1>1, CurrentText
<1>3. /\ hist' \in Hists /\ Grows(hist, hist') /\ hist'.mine = hist.mine /\ hist'.typed = hist.typed
      /\ hist'.blind \subseteq hist'.crossed
      /\ <<j.o, j.text>> \in hist'.known /\ j.text \in hist'.stored
  BY <1>2, RecordOK
<1>4. /\ cast \in Casts /\ rows \in [Keys -> Handles] /\ Log(F) /\ RowsOK(F, cast, rows, hist)
      /\ j.text \in Nat /\ hist.stored \subseteq hist'.stored
  BY <1>3, Facts, JobFacts DEF Grows
<1>5. rows' = Stored(rows, j.key, j.text, st)
  BY DEF Put, Stored
<1>6. PICK n : n = rows[j.key].v + 1
  OBVIOUS
<1>11. G = Logged(F, j.key, n, j.text) /\ st \in States \ {"none"}
  BY <1>1, <1>2, <1>6
<1>8. Grows(hist, hist') /\ j.text \in hist'.stored
  BY <1>3
<1>7. j.key \in Keys /\ st \in States \ {"none"}
  BY <1>2, <1>11
<1>9. Fits(cast, rows, hist', j.key, j.text)
  BY <1>8 DEF Fits
<1>12. hist' \in Hists /\ Grows(hist, hist') /\ j.text \in Nat /\ j.key \in Keys
  BY <1>3, <1>4, <1>7
<1>10. rows' \in [Keys -> Handles] /\ Log(G) /\ RowsOK(G, cast, rows', hist')
  BY <1>6, <1>7, <1>9, <1>11, <1>12, PutStep
<1> QED
  BY <1>3, <1>10

\* The bounds stay bounds.
LEMMA FaultOK ==
  ASSUME NEW F, Now(F), Fault \/ used' = used
  PROVE  used' \in Bounds /\ used'.texts = used.texts /\ used.texts <= cast.texts
<1>1. used \in Bounds /\ used.texts <= cast.texts
  BY Facts DEF TextsOK
<1>2. CASE Fault
  BY <1>1, <1>2 DEF Fault, Bounds
<1> QED
  BY <1>1, <1>2

\* A step at the vault: j becomes k, and the log grows to G.
LEMMA VaultStep ==
  ASSUME NEW F, Now(F), NEW G, F \subseteq G, cast' = cast, app' = app,
         rows' \in [Keys -> Handles], Log(G), RowsOK(G, cast, rows', hist'),
         hist' \in Hists, Grows(hist, hist'), hist'.mine = hist.mine /\ hist'.typed = hist.typed,
         hist'.blind \subseteq hist'.crossed, Fault \/ used' = used,
         NEW j \in jobs, NEW k, JobOK(G, hist', app.gen, Len(app.ops), k), Become(j, k),
         j.kind = "flush" => k.kind = "flush" /\ k.o = j.o /\ k.text = j.text
  PROVE  Now(G)'
<1>1. /\ AppOK(F, hist, app) /\ InStep(app) /\ app.gens \subseteq {app.gen}
      /\ used.texts \in Nat
  BY Facts
<1>2. Calm(app, app')
  BY <1>1 DEF Calm, InStep
<1>3. AppOK(G, hist', app')
  BY <1>1, AppMono
<1>4. JobsOK(G, hist', app.gen, Len(app.ops), jobs')
  BY BecomeOK
<1>5. Flushing(app, hist, hist', jobs, jobs')
  BY FlushingKept DEF Become
<1>6. used' \in Bounds /\ used.texts <= used'.texts /\ used'.texts <= cast.texts
  BY <1>1, FaultOK
<1> QED
  BY <1>1, <1>2, <1>3, <1>4, <1>5, <1>6, CalmStep

\* The vault as it was.
LEMMA SameVault ==
  ASSUME NEW F, Now(F), rows' = rows, hist' \in Hists, Grows(hist, hist')
  PROVE  /\ rows' \in [Keys -> Handles] /\ Log(F) /\ RowsOK(F, cast, rows', hist')
<1>1. rows \in [Keys -> Handles] /\ Log(F) /\ RowsOK(F, cast, rows, hist)
  BY Facts
<1> QED
  BY <1>1 DEF RowsOK, Grows

LEMMA ThrewOK ==
  ASSUME NEW F, Now(F), hist' = hist \/ hist' = [hist EXCEPT !.threw = TRUE]
  PROVE  /\ hist' \in Hists /\ Grows(hist, hist') /\ hist'.mine = hist.mine /\ hist'.typed = hist.typed
         /\ hist'.blind = hist.blind /\ hist'.blind \subseteq hist'.crossed
<1>1. hist \in Hists /\ hist.blind \subseteq hist.crossed
  BY Facts
<1> QED
  BY <1>1 DEF Hists, Grows

\* A job answered, under the version the answer tells.
Landed(F, h, j, v) ==
  <<j.key, v, j.text>> \in F /\ <<j.o, j.text>> \in h.known /\ j.text \in h.stored
Answered(j, r, v)  == [j EXCEPT !.pc = "answer", !.res = r, !.v = v]

\* The answer of a write that named what its opening knows.
LEMMA AnswerOK ==
  ASSUME NEW F, Now(F), NEW j \in jobs, j.pc \in {"write", "claim"}, NEW G, F \subseteq G,
         NEW h, Grows(hist, h), NEW r \in {"ok", "threw", "offline", "sending", "conflict", "refused"},
         NEW v \in Nat,
         r # "ok" \/ Landed(G, h, j, v)
  PROVE  /\ JobOK(G, h, app.gen, Len(app.ops), Answered(j, r, v))
         /\ Answered(j, r, v).kind = j.kind /\ Answered(j, r, v).o = j.o
         /\ Answered(j, r, v).text = j.text
<1> DEFINE k == Answered(j, r, v)
<1>1. JobOK(F, hist, app.gen, Len(app.ops), j) /\ j \in Works
  BY JobFacts
<1>2. JobOK(G, h, app.gen, Len(app.ops), j)
  BY <1>1, JobMono, Facts
<1>3. k \in Works
  BY <1>1 DEF Works, Answered
<1>4. /\ k.kind = j.kind /\ k.o = j.o /\ k.pc = "answer" /\ k.gen = j.gen /\ k.key = j.key
      /\ k.v = v /\ k.text = j.text /\ k.res = r /\ k.list = j.list
  BY <1>1 DEF Works, Answered
<1> HIDE DEF k
<1>5. j.key \in Keys
  BY <1>1, CurrentText DEF JobOK
<1>6. r = "ok" => Wrote(G, h, k)
  BY <1>4 DEF Wrote, Landed
<1>7. JobOK(G, h, app.gen, Len(app.ops), k)
  BY <1>2, <1>3, <1>4, <1>5, <1>6 DEF JobOK
<1> QED
  BY <1>4, <1>7 DEF k

LEMMA WritesStep ==
  ASSUME NEW F, Now(F), NEW j \in jobs, Writes(j) PROVE \E G : Now(G)'
<1>1. j.pc = "write" /\ UNCHANGED <<cast, app>>
  BY DEF Writes
<1>2. /\ Knows(F, hist, j.o, j.key, j.v) /\ j \in Works /\ j.v \in Nat
      /\ j.key \in Keys /\ rows[j.key].v \in Nat
  <2>1. Knows(F, hist, j.o, j.key, j.v)
    BY <1>1, JobFacts DEF JobOK
  <2> QED
    BY <2>1, JobFacts, CurrentText
<1> DEFINE G == Logged(F, j.key, j.v + 1, j.text)
           Lands == /\ Refusal(j.key, j.v) = "ok" /\ Put(j.key, j.text, rows[j.key].st)
                    /\ Record(j, rows[j.key].text)
<1>3. Answered(j, "offline", j.v) = [j EXCEPT !.pc = "answer", !.res = "offline"]
      /\ Answered(j, "threw", j.v) = [j EXCEPT !.pc = "answer", !.res = "threw"]
  BY <1>2 DEF Works, Answered
<1>4. ASSUME Lands
      PROVE  /\ rows' \in [Keys -> Handles] /\ Log(G) /\ RowsOK(G, cast, rows', hist')
             /\ hist' \in Hists /\ Grows(hist, hist') /\ hist'.mine = hist.mine /\ hist'.typed = hist.typed
             /\ hist'.blind \subseteq hist'.crossed
             /\ <<j.o, j.text>> \in hist'.known /\ j.text \in hist'.stored
  <2>1. rows[j.key].v = j.v
    BY <1>4 DEF Refusal
  <2>2. rows[j.key].st # "none"
    BY <1>2, <2>1, CurrentText
  <2> QED
    BY <1>2, <1>4, <2>2, WriteLands
<1>5. F \subseteq G /\ <<j.key, j.v + 1, j.text>> \in G
  BY DEF Logged
<1> HIDE DEF G
<1>6. \/ Lands /\ Become(j, Answered(j, "ok", j.v + 1)) /\ UNCHANGED used
      \/ Lands /\ Become(j, Answered(j, "offline", j.v)) /\ Fault
      \/ /\ UNCHANGED <<rows>> /\ (hist' = hist \/ hist' = [hist EXCEPT !.threw = TRUE])
         /\ Fault \/ used' = used
         /\ \E r \in {"threw", "offline", "sending", "conflict"}, v \in {j.v, rows[j.key].v} :
              Become(j, Answered(j, r, v))
  <2>1. Replaces(j)
    BY DEF Writes
  <2>2. Refusal(j.key, j.v) \in {"ok", "sending", "conflict"}
    BY DEF Refusal
  <2>3. CASE LET r == Refusal(j.key, j.v) IN
             IF r = "ok"
             THEN /\ Put(j.key, j.text, rows[j.key].st)
                  /\ Become(j, [j EXCEPT !.pc = "answer", !.res = "ok", !.v = @ + 1])
                  /\ Record(j, rows[j.key].text)
                  /\ UNCHANGED used
             ELSE /\ Become(j, [j EXCEPT !.pc = "answer", !.res = r, !.v = rows[j.key].v])
                  /\ UNCHANGED <<rows, used, hist>>
    BY <2>2, <2>3 DEF Answered
  <2>4. CASE /\ Fault /\ Become(j, [j EXCEPT !.pc = "answer", !.res = "threw"])
             /\ hist' = [hist EXCEPT !.threw = TRUE]
             /\ UNCHANGED rows
    BY <1>3, <2>4 DEF Answered
  <2>5. CASE /\ Fault /\ Become(j, [j EXCEPT !.pc = "answer", !.res = "offline"])
             /\ \/ UNCHANGED <<rows, hist>>
                \/ /\ Refusal(j.key, j.v) = "ok" /\ Put(j.key, j.text, rows[j.key].st)
                   /\ Record(j, rows[j.key].text)
    BY <1>3, <2>5 DEF Answered
  <2> QED
    BY <2>1, <2>3, <2>4, <2>5 DEF Replaces
<1>7. CASE Lands /\ Become(j, Answered(j, "ok", j.v + 1)) /\ UNCHANGED used
  <2>0. PICK v \in Nat : v = j.v + 1
    BY <1>2
  <2>2. F \subseteq G /\ Grows(hist, hist') /\ Landed(G, hist', j, v)
    BY <1>4, <1>5, <1>7, <2>0 DEF Landed
  <2>1. /\ JobOK(G, hist', app.gen, Len(app.ops), Answered(j, "ok", v))
        /\ Answered(j, "ok", v).kind = j.kind /\ Answered(j, "ok", v).o = j.o
        /\ Answered(j, "ok", v).text = j.text
    BY <1>1, <2>0, <2>2, AnswerOK, ZenonT(60)
  <2> QED
    BY <1>1, <1>4, <1>5, <1>7, <2>0, <2>1, VaultStep
<1>8. CASE Lands /\ Become(j, Answered(j, "offline", j.v)) /\ Fault
  <2>1. /\ JobOK(G, hist', app.gen, Len(app.ops), Answered(j, "offline", j.v))
        /\ Answered(j, "offline", j.v).kind = j.kind /\ Answered(j, "offline", j.v).o = j.o
        /\ Answered(j, "offline", j.v).text = j.text
    BY <1>1, <1>2, <1>4, <1>5, <1>8, AnswerOK, ZenonT(60)
  <2> QED
    BY <1>1, <1>4, <1>5, <1>8, <2>1, VaultStep
<1>9. CASE /\ UNCHANGED <<rows>> /\ (hist' = hist \/ hist' = [hist EXCEPT !.threw = TRUE])
           /\ Fault \/ used' = used
           /\ \E r \in {"threw", "offline", "sending", "conflict"}, v \in {j.v, rows[j.key].v} :
                Become(j, Answered(j, r, v))
  <2>1. PICK r \in {"threw", "offline", "sending", "conflict"}, v \in {j.v, rows[j.key].v} :
          Become(j, Answered(j, r, v))
    BY <1>9
  <2>2. /\ hist' \in Hists /\ Grows(hist, hist') /\ hist'.mine = hist.mine /\ hist'.typed = hist.typed
        /\ hist'.blind \subseteq hist'.crossed
    BY <1>9, ThrewOK
  <2>3. rows' \in [Keys -> Handles] /\ Log(F) /\ RowsOK(F, cast, rows', hist')
    BY <1>9, <2>2, SameVault
  <2>4. v \in Nat /\ r # "ok"
        /\ r \in {"ok", "threw", "offline", "sending", "conflict", "refused"}
    BY <1>2
  <2>5. /\ JobOK(F, hist', app.gen, Len(app.ops), Answered(j, r, v))
        /\ Answered(j, r, v).kind = j.kind /\ Answered(j, r, v).o = j.o
        /\ Answered(j, r, v).text = j.text
    BY <1>1, <2>2, <2>4, AnswerOK
  <2> QED
    BY <1>1, <1>9, <2>1, <2>2, <2>3, <2>5, VaultStep
<1> QED
  BY <1>6, <1>7, <1>8, <1>9

LEMMA RowFacts ==
  ASSUME NEW F, Now(F), NEW k \in Keys
  PROVE  rows[k] \in Handles /\ rows[k].v \in Nat /\ rows[k].text \in Nat /\ rows[k].st \in States
<1>1. rows[k] \in Handles
  BY Facts
<1> QED
  BY <1>1 DEF Handles

LEMMA createDraftStep ==
  ASSUME NEW F, Now(F), NEW j \in jobs, createDraft(j) PROVE \E G : Now(G)'
<1>1. j.pc = "create" /\ cast' = cast /\ app' = app
  BY DEF createDraft
<1>2. PICK i \in Unminted :
       \/ /\ Put(i, j.text, "live")
          /\ hist' = [hist EXCEPT !.stored = @ \cup {j.text}, !.known = @ \cup {<<j.o, j.text>>}]
          /\ Become(j, [j EXCEPT !.pc = "minted", !.key = i, !.v = 1, !.res = "ok"])
          /\ UNCHANGED used
       \/ /\ Fault /\ Become(j, [j EXCEPT !.pc = "minted", !.res = "offline"])
          /\ \/ UNCHANGED <<rows, hist>>
             \/ Put(i, j.text, "live") /\ hist' = [hist EXCEPT !.stored = @ \cup {j.text}]
  BY DEF createDraft
<1>3. /\ i \in Keys /\ rows[i].v = 0 /\ 1 = rows[i].v + 1
      /\ j.text \in Nat /\ j.o \in Nat /\ hist \in Hists /\ hist.blind \subseteq hist.crossed
      /\ JobOK(F, hist, app.gen, Len(app.ops), j) /\ j \in Works /\ j.kind \in Writers
  <2>1. i \in Keys /\ rows[i].st = "none"
    BY DEF Unminted
  <2>2. rows[i].v = 0
    BY <2>1, Facts DEF RowsOK
  <2>3. j.kind \in Writers
    BY <1>1, JobFacts DEF JobOK
  <2> QED
    BY <2>1, <2>2, <2>3, Facts, JobFacts
<1>4. j.text \in hist.stored \cup {j.text} /\ <<j.o, j.text>> \in Nat \X Nat
  BY <1>3
<1>7. "live" \in States \ {"none"}
  BY DEF States
<1>5. CASE /\ Put(i, j.text, "live")
           /\ hist' = [hist EXCEPT !.stored = @ \cup {j.text}, !.known = @ \cup {<<j.o, j.text>>}]
           /\ Become(j, [j EXCEPT !.pc = "minted", !.key = i, !.v = 1, !.res = "ok"])
           /\ UNCHANGED used
  <2>1. /\ hist' \in Hists /\ Grows(hist, hist') /\ hist'.mine = hist.mine /\ hist'.typed = hist.typed
        /\ hist'.blind \subseteq hist'.crossed
        /\ <<j.o, j.text>> \in hist'.known /\ j.text \in hist'.stored
    BY <1>3, <1>4, <1>5 DEF Hists, NatSets, Grows
  <2>2. PICK G : G = Logged(F, i, 1, j.text)
    OBVIOUS
  <2>3. /\ rows' \in [Keys -> Handles] /\ Log(G) /\ RowsOK(G, cast, rows', hist')
        /\ F \subseteq G /\ <<i, 1, j.text>> \in G
    <3>1. Fits(cast, rows, hist', i, j.text)
      BY <2>1 DEF Fits
    <3>2. rows' \in [Keys -> Handles] /\ Log(G) /\ RowsOK(G, cast, rows', hist')
      BY <1>3, <1>5, <1>7, <2>1, <2>2, <3>1, PutStep
    <3> QED
      BY <2>2, <3>2 DEF Logged
  <2>4. PICK k : k = [j EXCEPT !.pc = "minted", !.key = i, !.v = 1, !.res = "ok"]
    OBVIOUS
  <2>5. /\ k \in Works /\ k.kind = j.kind /\ k.o = j.o /\ k.pc = "minted" /\ k.gen = j.gen
        /\ k.key = i /\ k.v = 1 /\ k.text = j.text /\ k.res = "ok" /\ k.list = j.list
    BY <1>3, <2>4 DEF Works, KeyOrNot
  <2>6. Wrote(G, hist', k)
    BY <1>3, <2>1, <2>3, <2>5 DEF Wrote
  <2>7. JobOK(G, hist', app.gen, Len(app.ops), j)
    BY <1>3, <2>1, <2>3, JobMono, Facts
  <2>8. JobOK(G, hist', app.gen, Len(app.ops), k)
    BY <1>3, <2>5, <2>6, <2>7 DEF JobOK, Writers
  <2>9. Become(j, k)
    BY <1>5, <2>4
  <2> QED
    BY <1>1, <1>5, <2>1, <2>3, <2>5, <2>8, <2>9, VaultStep
<1>6. CASE /\ Fault /\ Become(j, [j EXCEPT !.pc = "minted", !.res = "offline"])
           /\ \/ UNCHANGED <<rows, hist>>
              \/ Put(i, j.text, "live") /\ hist' = [hist EXCEPT !.stored = @ \cup {j.text}]
  <2>1. /\ hist' \in Hists /\ Grows(hist, hist') /\ hist'.mine = hist.mine /\ hist'.typed = hist.typed
        /\ hist'.blind \subseteq hist'.crossed
    <3>1. CASE hist' = hist
      BY <1>3, <3>1 DEF Grows
    <3>2. CASE hist' = [hist EXCEPT !.stored = @ \cup {j.text}]
      BY <1>3, <1>4, <3>2 DEF Hists, NatSets, Grows
    <3> QED
      BY <1>6, <3>1, <3>2
  <2>2. PICK G : /\ rows' \in [Keys -> Handles] /\ Log(G) /\ RowsOK(G, cast, rows', hist')
                 /\ F \subseteq G
    <3>1. CASE UNCHANGED rows
      BY <2>1, <3>1, SameVault
    <3>2. CASE Put(i, j.text, "live") /\ hist' = [hist EXCEPT !.stored = @ \cup {j.text}]
      <4>1. Fits(cast, rows, hist', i, j.text)
        BY <1>3, <1>4, <3>2 DEF Hists, Fits
      <4>2. PICK H : H = Logged(F, i, 1, j.text)
        OBVIOUS
      <4>3. hist' \in Hists /\ Grows(hist, hist') /\ i \in Keys /\ j.text \in Nat
        BY <1>3, <2>1
      <4>4. rows' \in [Keys -> Handles] /\ Log(H) /\ RowsOK(H, cast, rows', hist')
        BY <1>3, <1>7, <3>2, <4>1, <4>2, <4>3, PutStep
      <4>5. F \subseteq H
        BY <4>2 DEF Logged
      <4> QED
        BY <4>4, <4>5
    <3> QED
      BY <1>6, <3>1, <3>2
  <2>4. PICK k : k = [j EXCEPT !.pc = "minted", !.res = "offline"]
    OBVIOUS
  <2>5. /\ k \in Works /\ k.kind = j.kind /\ k.o = j.o /\ k.pc = "minted" /\ k.gen = j.gen
        /\ k.key = j.key /\ k.v = j.v /\ k.text = j.text /\ k.res = "offline" /\ k.list = j.list
    BY <1>3, <2>4 DEF Works
  <2>7. JobOK(G, hist', app.gen, Len(app.ops), j)
    BY <1>3, <2>1, <2>2, JobMono, Facts
  <2>8. JobOK(G, hist', app.gen, Len(app.ops), k)
    BY <1>3, <2>5, <2>7 DEF JobOK, Writers
  <2>9. Become(j, k)
    BY <1>6, <2>4
  <2> QED
    BY <1>1, <1>6, <2>1, <2>2, <2>5, <2>8, <2>9, VaultStep
<1> QED
  BY <1>2, <1>5, <1>6

-----------------------------------------------------------------------------
(* The forms the tab's own steps take.                                     *)

\* j becomes k, and nothing else changes.
LEMMA BecomeStep ==
  ASSUME NEW F, Now(F), cast' = cast, rows' = rows, used' = used, app' = app, hist' = hist,
         NEW j \in jobs, NEW k, JobOK(F, hist, app.gen, Len(app.ops), k), Become(j, k),
         j.kind = "flush" => k.kind = "flush" /\ k.o = j.o /\ k.text = j.text
  PROVE  Now(F)'
<1>1. Grows(hist, hist)
  BY DEF Grows
<1>2. JobsOK(F, hist, app.gen, Len(app.ops), jobs')
  BY <1>1, BecomeOK
<1>3. Flushing(app, hist, hist, jobs, jobs')
  BY FlushingKept DEF Become
<1> QED
  BY <1>2, <1>3, WaitStep

\* The tab becomes m, and React takes it from there.
Moves(m) == app' = m \/ \E touched \in BOOLEAN : app' = Rendered(m, touched)

LEMMA MoveOK ==
  ASSUME NEW F, Now(F), NEW h, NEW m, AppOK(F, h, m), Alike(app, m), m.gen = app.gen,
         m.gens \subseteq {app.gen}, Moves(m)
  PROVE  AppOK(F, h, app') /\ Calm(app, app') /\ app'.gen = app.gen /\ app'.gens \subseteq {app.gen}
<1>1. Log(F) /\ AppOK(F, hist, app) /\ InStep(app)
  BY Facts
<1>2. CASE app' = m
  BY <1>1, <1>2, AlikeCalm
<1>3. CASE \E touched \in BOOLEAN : app' = Rendered(m, touched)
  <2>1. PICK touched \in BOOLEAN : app' = Rendered(m, touched)
    BY <1>3
  <2>2. AppOK(F, h, app') /\ Shown(m, app')
    BY <1>1, <2>1, RenderedOK
  <2>3. Calm(app, app')
    BY <1>1, <2>2, ShownCalm
  <2> QED
    BY <2>2, <2>3 DEF Shown, SameTab
<1> QED
  BY <1>2, <1>3 DEF Moves

LEMMA MoveStep ==
  ASSUME NEW F, Now(F), cast' = cast, rows' = rows, used' \in Bounds, used'.texts = used.texts,
         hist' \in Hists, Grows(hist, hist'), hist'.mine = hist.mine, hist'.typed = hist.typed,
         hist'.blind = hist.blind,
         NEW m, AppOK(F, hist', m), Alike(app, m), m.gen = app.gen, m.gens \subseteq {app.gen},
         Moves(m),
         JobsOK(F, hist', app.gen, Len(app.ops), jobs'), Flushing(app, hist, hist', jobs, jobs')
  PROVE  Now(F)'
<1>1. /\ AppOK(F, hist', app') /\ Calm(app, app') /\ app'.gen = app.gen
      /\ app'.gens \subseteq {app.gen}
  BY MoveOK
<1>2. /\ rows' \in [Keys -> Handles] /\ Log(F) /\ RowsOK(F, cast, rows', hist')
  BY SameVault
<1>3. /\ hist.blind \subseteq hist.crossed /\ used.texts \in Nat /\ used.texts <= cast.texts
  BY Facts DEF TextsOK
<1>4. hist'.blind \subseteq hist'.crossed /\ used.texts <= used'.texts /\ used'.texts <= cast.texts
  BY <1>3 DEF Grows
<1> QED
  BY <1>1, <1>2, <1>4, CalmStep

\* The tab moves by itself: j is over, or becomes k.
LEMMA EndMove ==
  ASSUME NEW F, Now(F), cast' = cast, rows' = rows, used' = used, hist' = hist,
         NEW m, AppOK(F, hist, m), Alike(app, m), m.gen = app.gen, m.gens \subseteq {app.gen},
         Moves(m), NEW j \in jobs, j.kind # "flush", End(j)
  PROVE  Now(F)'
<1>1. Grows(hist, hist) /\ hist \in Hists /\ used \in Bounds
  BY Facts DEF Grows
<1>2. JobsOK(F, hist, app.gen, Len(app.ops), jobs')
  BY Facts, JobsSet DEF End
<1>3. Flushing(app, hist, hist, jobs, jobs')
  BY FlushingKept DEF End
<1> QED
  BY <1>1, <1>2, <1>3, MoveStep

LEMMA BecomeMove ==
  ASSUME NEW F, Now(F), cast' = cast, rows' = rows, used' = used, hist' = hist,
         NEW m, AppOK(F, hist, m), Alike(app, m), m.gen = app.gen, m.gens \subseteq {app.gen},
         Moves(m), NEW j \in jobs, NEW k, JobOK(F, hist, app.gen, Len(app.ops), k), Become(j, k),
         j.kind = "flush" => k.kind = "flush" /\ k.o = j.o /\ k.text = j.text
  PROVE  Now(F)'
<1>1. Grows(hist, hist) /\ hist \in Hists /\ used \in Bounds
  BY Facts DEF Grows
<1>2. JobsOK(F, hist, app.gen, Len(app.ops), jobs')
  BY <1>1, BecomeOK
<1>3. Flushing(app, hist, hist, jobs, jobs')
  BY FlushingKept DEF Become
<1> QED
  BY <1>1, <1>2, <1>3, MoveStep

\* An answer that speaks for the session it is of.
LEMMA SayOK ==
  ASSUME NEW F, Now(F), NEW j \in jobs, isCurrent(j), NEW h, NEW a, AppOK(F, h, a),
         a.gen = app.gen, a.gens \subseteq {app.gen}, Alike(app, a)
  PROVE  /\ AppOK(F, h, Say(j, a)) /\ Alike(app, Say(j, a)) /\ Say(j, a).gen = app.gen
         /\ Say(j, a).gens \subseteq {app.gen}
<1> DEFINE s == a.gens \cup {j.gen}
<1>1. j.gen = app.gen /\ j.gen \in Nat
  BY JobFacts DEF isCurrent
<1>2. s \in NatSets /\ s \subseteq {app.gen} /\ a \in Apps
  BY <1>1, AppFields DEF AppOK, NatSets
<1>3. Say(j, a) = [a EXCEPT !.gens = s]
  BY DEF Say
<1> HIDE DEF s
<1>5. Say(j, a) \in Flagged(a, s)
  BY <1>3 DEF Flagged
<1>4. /\ AppOK(F, h, Say(j, a)) /\ Alike(a, Say(j, a)) /\ Say(j, a).gen = a.gen
      /\ Say(j, a).gens = a.gens \/ Say(j, a).gens = s
  BY <1>2, <1>5, SetFlags
<1> QED
  BY <1>2, <1>4, AlikeTrans

\* An opening's own fields that the invariant says nothing of.
WithSaving(a, o) == [a EXCEPT !.ops[o].saving = TRUE]
Freed(a, o)      == [a EXCEPT !.ops[o].saving = FALSE]

LEMMA SetSaving ==
  ASSUME NEW F, NEW h, NEW a, AppOK(F, h, a), NEW o \in 1..Len(a.ops),
         NEW b, b \in {WithSaving(a, o), Freed(a, o)}
  PROVE  /\ AppOK(F, h, b) /\ Alike(a, b) /\ SameTab(a, b)
         /\ b.scr = a.scr /\ b.dev = a.dev
         /\ b.gen = a.gen /\ b.gens = a.gens /\ b.open = a.open /\ b.list = a.list
         /\ Len(b.ops) = Len(a.ops)
<1>0. PICK x \in BOOLEAN : b = [a EXCEPT !.ops[o].saving = x]
  BY DEF WithSaving, Freed
<1> DEFINE c == [a.ops[o] EXCEPT !.saving = x]
<1>1. a.ops[o] \in Composes /\ ComposeOK(F, h, o, a.ops[o])
  BY AppFields, ComposeAt DEF AppOK, ComposesOK
<1>2. b = WithCompose(a, o, c)
  BY <1>0 DEF WithCompose
<1>3. /\ c \in Composes /\ c.wrote = a.ops[o].wrote /\ c.minted = a.ops[o].minted
      /\ c.fresh = a.ops[o].fresh /\ c.opened = a.ops[o].opened
      /\ StaysOff(a.ops[o], c)
  BY <1>1 DEF Composes, StaysOff
<1> HIDE DEF c
<1>4. ComposeOK(F, h, o, c)
  BY <1>1, <1>3 DEF ComposeOK
<1>5. /\ AppOK(F, h, b) /\ Alike(a, b) /\ SameTab(a, b) /\ b.scr = a.scr /\ b.dev = a.dev
  BY <1>2, <1>3, <1>4, SetCompose
<1> QED
  BY <1>5 DEF SameTab, Alike

\* The tab moves, with its jobs as they are, or with one more.
LEMMA StayMove ==
  ASSUME NEW F, Now(F), cast' = cast, rows' = rows, used' \in Bounds, used'.texts = used.texts,
         hist' = hist, jobs' = jobs,
         NEW m, AppOK(F, hist, m), Alike(app, m), m.gen = app.gen, m.gens \subseteq {app.gen},
         Moves(m)
  PROVE  Now(F)'
<1>1. Grows(hist, hist) /\ hist \in Hists /\ JobsOK(F, hist, app.gen, Len(app.ops), jobs)
  BY Facts DEF Grows
<1>2. Flushing(app, hist, hist, jobs, jobs)
  BY FlushingKept
<1> QED
  BY <1>1, <1>2, MoveStep

LEMMA AddMove ==
  ASSUME NEW F, Now(F), cast' = cast, rows' = rows, used' \in Bounds, used'.texts = used.texts,
         hist' = hist, NEW k, JobOK(F, hist, app.gen, Len(app.ops), k), jobs' = jobs \cup {k},
         NEW m, AppOK(F, hist, m), Alike(app, m), m.gen = app.gen, m.gens \subseteq {app.gen},
         Moves(m)
  PROVE  Now(F)'
<1>1. Grows(hist, hist) /\ hist \in Hists
  BY Facts DEF Grows
<1>2. JobsOK(F, hist, app.gen, Len(app.ops), jobs')
  BY Facts, JobsSet
<1>3. Flushing(app, hist, hist, jobs, jobs')
  BY FlushingKept
<1> QED
  BY <1>1, <1>2, <1>3, MoveStep

LEMMA AppStays ==
  ASSUME NEW F, Now(F)
  PROVE  /\ AppOK(F, hist, app) /\ Alike(app, app) /\ app.gens \subseteq {app.gen}
         /\ app' = app => Moves(app)
         /\ used \in Bounds
  BY Facts DEF Alike, Moves

\* j is over, and nothing else changes.
LEMMA EndStep ==
  ASSUME NEW F, Now(F), cast' = cast, rows' = rows, used' = used, app' = app, hist' = hist,
         NEW j \in jobs, j.kind # "flush", End(j)
  PROVE  Now(F)'
  BY AppStays, EndMove

LEMMA NoListOK ==
  ASSUME NEW F PROVE NoList \in Lists /\ ListOK(F, NoList)
  BY DEF NoList, Lists, ListOK

LEMMA MintStep ==
  ASSUME NEW F, Now(F), NEW j \in jobs, Mint(j) PROVE \E G : Now(G)'
<1>1. j.pc = "mint" /\ cast' = cast /\ rows' = rows /\ used' = used /\ hist' = hist
  BY DEF Mint
<1>2. /\ JobOK(F, hist, app.gen, Len(app.ops), j) /\ j \in Works /\ j.kind \in Writers
      /\ j.o \in 1..Len(app.ops)
  <2>1. j.kind \in Writers
    BY <1>1, JobFacts DEF JobOK
  <2> QED
    BY <2>1, JobFacts
<1> DEFINE d == app.ops[j.o]
<1>3. AppOK(F, hist, app) /\ d \in Composes /\ ComposeOK(F, hist, j.o, d)
  BY <1>2, Facts, ComposeAt DEF AppOK, ComposesOK
<1>4. CASE /\ app' = [app EXCEPT !.ops[j.o].minted.st = "asked"]
           /\ Become(j, [j EXCEPT !.pc = "create"])
  <2> DEFINE n == [d.minted EXCEPT !.st = "asked"]
             c == [d EXCEPT !.minted = n]
  <2>1. n \in Mints /\ n.st = "asked"
    BY <1>3 DEF Composes, Mints
  <2>2. app' = WithCompose(app, j.o, c)
    BY <1>4 DEF WithCompose
  <2> HIDE DEF n
  <2>3. /\ c \in Composes /\ c.wrote = d.wrote /\ c.minted = n
        /\ c.fresh = d.fresh /\ c.opened = d.opened /\ StaysOff(app.ops[j.o], c)
    BY <1>3, <2>1 DEF Composes, StaysOff
  <2> HIDE DEF c, d
  <2>4. ComposeOK(F, hist, j.o, c)
    BY <1>3, <2>1, <2>3 DEF ComposeOK, MintOK
  <2>5. AppOK(F, hist, app') /\ Alike(app, app') /\ SameTab(app, app')
    BY <1>2, <1>3, <2>2, <2>3, <2>4, SetCompose
  <2>6. PICK k : k = [j EXCEPT !.pc = "create"]
    OBVIOUS
  <2>7. /\ k \in Works /\ k.kind = j.kind /\ k.o = j.o /\ k.pc = "create" /\ k.gen = j.gen
        /\ k.key = j.key /\ k.v = j.v /\ k.text = j.text /\ k.res = j.res /\ k.list = j.list
    BY <1>2, <2>6 DEF Works
  <2>8. JobOK(F, hist, app.gen, Len(app.ops), k)
    BY <1>2, <2>7 DEF JobOK, Writers
  <2>9. Moves(app') /\ Become(j, k)
    BY <1>4, <2>6 DEF Moves
  <2>10. app'.gen = app.gen /\ app'.gens \subseteq {app.gen}
    BY <2>5, Facts DEF SameTab
  <2> QED
    BY <1>1, <2>5, <2>7, <2>8, <2>9, <2>10, BecomeMove
<1>5. CASE /\ Shares(j) /\ d.minted.st # "asked"
           /\ LET m == d.minted IN
                Become(j, [j EXCEPT !.key = m.key, !.v = m.v,
                                    !.pc = IF j.kind = "send" THEN "claim"
                                           ELSE IF isCurrent(j) /\ m.text # j.text THEN "write"
                                           ELSE "answer",
                                    !.res = "ok"])
           /\ app' = app
  <2> DEFINE m == d.minted
             p == IF j.kind = "send" THEN "claim"
                  ELSE IF isCurrent(j) /\ m.text # j.text THEN "write" ELSE "answer"
  <2>1. m \in Mints /\ m.st = "done"
    BY <1>3, <1>5 DEF Shares, Composes, Mints
  <2>2. <<m.key, m.v, m.text>> \in F /\ <<j.o, m.text>> \in hist.known /\ m.text \in hist.stored
    BY <1>3, <2>1 DEF ComposeOK, MintOK
  <2>3. m.key \in Keys /\ m.v \in Nat /\ m.text \in Nat
    BY <2>1, <2>2, Facts DEF Log, Mints
  <2>4. Knows(F, hist, j.o, m.key, m.v)
    BY <2>2, <2>3 DEF Knows, KnowsText
  <2>5. /\ p \in {"claim", "write", "answer"}
        /\ p = "claim" => j.kind = "send"
        /\ p = "write" => j.kind \in {"save", "flush", "agent"}
        /\ p = "answer" /\ j.gen = app.gen => m.text = j.text
    BY <1>2 DEF Writers, isCurrent
  <2>6. Become(j, [j EXCEPT !.key = m.key, !.v = m.v, !.pc = p, !.res = "ok"])
    BY <1>5
  <2> HIDE DEF m, p, d
  <2>7. PICK k : k = [j EXCEPT !.key = m.key, !.v = m.v, !.pc = p, !.res = "ok"]
    OBVIOUS
  <2>8. /\ k \in Works /\ k.kind = j.kind /\ k.o = j.o /\ k.pc = p /\ k.gen = j.gen
        /\ k.key = m.key /\ k.v = m.v /\ k.text = j.text /\ k.res = "ok" /\ k.list = j.list
    BY <1>2, <2>3, <2>5, <2>7 DEF Works, KeyOrNot
  <2>9. k.pc = "answer" /\ k.gen = app.gen => Wrote(F, hist, k)
    BY <2>2, <2>5, <2>8 DEF Wrote
  <2>10. JobOK(F, hist, app.gen, Len(app.ops), k)
    BY <1>2, <2>3, <2>4, <2>5, <2>8, <2>9 DEF JobOK, Writers
  <2>11. Become(j, k)
    BY <2>6, <2>7
  <2> QED
    BY <1>1, <1>5, <2>8, <2>10, <2>11, BecomeStep
<1>6. d.minted.st = "asked" \/ Shares(j) \/ ~Shares(j)
  OBVIOUS
<1> QED
  BY <1>4, <1>5 DEF Mint

\* What the tab learns of a mint.
MintedIn(a, o, n)      == [a EXCEPT !.ops[o].minted = n]
NamedBy(a, o, w, k, h) ==
  [a EXCEPT !.ops[o].wrote = w, !.list[k] = h,
            !.scr = IF a.open = o /\ @ # None THEN [@ EXCEPT !.key = k, !.v = 1] ELSE @]

LEMMA mintRecordStep ==
  ASSUME NEW F, Now(F), NEW j \in jobs, mintRecord(j) PROVE \E G : Now(G)'
<1>1. j.pc = "minted" /\ cast' = cast /\ rows' = rows /\ used' = used /\ hist' = hist
  BY DEF mintRecord
<1>2. /\ JobOK(F, hist, app.gen, Len(app.ops), j) /\ j \in Works /\ j.kind \in Writers
      /\ j.o \in 1..Len(app.ops)
  <2>1. j.kind \in Writers
    BY <1>1, JobFacts DEF JobOK
  <2> QED
    BY <2>1, JobFacts
<1> DEFINE d == app.ops[j.o]
<1>3. AppOK(F, hist, app) /\ d \in Composes /\ ComposeOK(F, hist, j.o, d)
  BY <1>2, Facts, ComposeAt DEF AppOK, ComposesOK
<1>4. CASE j.res # "ok"
  <2> DEFINE c == [d EXCEPT !.minted = Unasked]
  <2>1. app' = WithCompose(app, j.o, c) /\ jobs' = MintRefused(j)
    BY <1>4 DEF WithCompose, mintRecord
  <2>2. Unasked \in Mints /\ Unasked.st = "no"
    BY DEF Unasked, Mints, KeyOrNot
  <2>3. /\ c \in Composes /\ c.wrote = d.wrote /\ c.minted = Unasked
        /\ c.fresh = d.fresh /\ c.opened = d.opened /\ StaysOff(app.ops[j.o], c)
    BY <1>3, <2>2 DEF Composes, StaysOff
  <2> HIDE DEF c, d
  <2>4. ComposeOK(F, hist, j.o, c)
    BY <1>3, <2>2, <2>3 DEF ComposeOK, MintOK
  <2>5. AppOK(F, hist, app') /\ Alike(app, app') /\ SameTab(app, app')
    BY <1>2, <1>3, <2>1, <2>3, <2>4, SetCompose
  <2>6. ASSUME NEW k \in jobs, k.pc \in {"mint", "minted"},
               NEW i, i = [k EXCEPT !.pc = "answer", !.res = "offline"]
        PROVE  /\ JobOK(F, hist, app.gen, Len(app.ops), i)
               /\ i.kind = k.kind /\ i.o = k.o /\ i.text = k.text
    <3>1. JobOK(F, hist, app.gen, Len(app.ops), k) /\ k \in Works
      BY JobFacts
    <3>2. /\ i \in Works /\ i.kind = k.kind /\ i.o = k.o /\ i.pc = "answer" /\ i.gen = k.gen
          /\ i.key = k.key /\ i.v = k.v /\ i.text = k.text /\ i.res = "offline" /\ i.list = k.list
      BY <2>6, <3>1 DEF Works
    <3>3. k.kind \in Writers
      BY <2>6, <3>1 DEF JobOK
    <3> QED
      BY <3>1, <3>2, <3>3 DEF JobOK, Writers
  <2>7. ASSUME NEW i \in jobs' PROVE JobOK(F, hist, app.gen, Len(app.ops), i)
    <3>1. PICK k \in jobs : i = IF k.o = j.o /\ k.pc \in {"mint", "minted"}
                                THEN [k EXCEPT !.pc = "answer", !.res = "offline"] ELSE k
      BY <2>1, <2>7 DEF MintRefused
    <3> QED
      BY <2>6, <3>1, JobFacts
  <2>8. JobsOK(F, hist, app.gen, Len(app.ops), jobs')
    BY <2>7 DEF JobsOK
  <2>9. ASSUME NEW k \in jobs, k.kind = "flush" PROVE Flushes(jobs', k.o, k.text)
    <3>1. PICK i : i = IF k.o = j.o /\ k.pc \in {"mint", "minted"}
                       THEN [k EXCEPT !.pc = "answer", !.res = "offline"] ELSE k
      OBVIOUS
    <3>2. i \in jobs'
      BY <2>1, <3>1 DEF MintRefused
    <3>3. i.kind = k.kind /\ i.o = k.o /\ i.text = k.text
      BY <2>6, <3>1
    <3> QED
      BY <2>9, <3>2, <3>3 DEF Flushes
  <2>10. Flushing(app, hist, hist, jobs, jobs')
    BY <2>9 DEF Flushing, Flushed
  <2>11. Moves(app') /\ app'.gen = app.gen /\ app'.gens \subseteq {app.gen}
    BY <2>5, Facts DEF SameTab, Moves
  <2>12. hist \in Hists /\ used \in Bounds /\ Grows(hist, hist)
    BY Facts DEF Grows
  <2> QED
    BY <1>1, <2>5, <2>8, <2>10, <2>11, <2>12, MoveStep
<1>5. CASE j.res = "ok"
  <2> DEFINE h == [v |-> 1, text |-> j.text, st |-> "live"]
             n == [st |-> "done", key |-> j.key, v |-> 1, text |-> j.text]
             c == [d EXCEPT !.minted = n]
             a == WithCompose(app, j.o, c)
             w == IdOf(j.key, 1)
             e == [c EXCEPT !.wrote = w]
             a2 == WithCompose(app, j.o, e)
             l == [app.list EXCEPT ![j.key] = h]
             a3 == [a2 EXCEPT !.list = l]
             s == IF app.open = j.o /\ app.scr # None
                  THEN [app.scr EXCEPT !.key = j.key, !.v = 1] ELSE app.scr
             b == [a3 EXCEPT !.scr = s]
  <2>0. Wrote(F, hist, j) /\ j.v = 1
    BY <1>1, <1>2, <1>5 DEF JobOK
  <2>1. /\ <<j.key, 1, j.text>> \in F /\ <<j.o, j.text>> \in hist.known /\ j.text \in hist.stored
        /\ j.key \in Keys /\ j.text \in Nat
    BY <2>0, Facts, JobFacts DEF Wrote, Log
  <2>2. /\ app' = IF isCurrent(j) THEN Rendered(Say(j, b), app.open = j.o) ELSE a
        /\ Become(j, [j EXCEPT !.pc = IF j.kind = "send" THEN "claim" ELSE "answer"])
    <3>1. app \in Apps /\ app.ops \in ComposeSeqs
      BY Facts
    <3>2. [app EXCEPT !.ops[j.o].minted = n] = a
      BY DEF WithCompose
    <3>3. /\ [a EXCEPT !.ops[j.o].wrote = w, !.list[j.key] = h,
                       !.scr = IF a.open = j.o /\ @ # None
                               THEN [@ EXCEPT !.key = j.key, !.v = 1] ELSE @] = b
      <4>1. a.ops = [app.ops EXCEPT ![j.o] = c] /\ a.scr = app.scr /\ a.open = app.open
            /\ a.list = app.list
        BY <3>1 DEF WithCompose, Apps
      <4>2. [a.ops EXCEPT ![j.o].wrote = w] = [app.ops EXCEPT ![j.o] = e]
        BY <1>2, <3>1, <4>1 DEF ComposeSeqs
      <4>3. [a EXCEPT !.ops = [app.ops EXCEPT ![j.o] = e]] = a2
        BY <3>1 DEF WithCompose, Apps
      <4>4. a2.scr = app.scr /\ a2.open = app.open /\ a2.list = app.list
        BY <3>1 DEF WithCompose, Apps
      <4> HIDE DEF a, a2, e
      <4> QED
        BY <4>1, <4>2, <4>3, <4>4
    <3>4. app' = IF isCurrent(j)
                 THEN Rendered(Say(j, NamedBy(MintedIn(app, j.o, n), j.o, w, j.key, h)), app.open = j.o)
                 ELSE MintedIn(app, j.o, n)
      BY <1>5 DEF mintRecord, MintedIn, NamedBy
    <3>5. Become(j, [j EXCEPT !.pc = IF j.kind = "send" THEN "claim" ELSE "answer"])
      BY <1>1, <1>5 DEF mintRecord
    <3>6. MintedIn(app, j.o, n) = a
      BY <3>2 DEF MintedIn
    <3>7. NamedBy(a, j.o, w, j.key, h) = b
      BY <3>3 DEF NamedBy
    <3> HIDE DEF n, a, w, b, h
    <3> QED
      BY <3>4, <3>5, <3>6, <3>7
  <2>3. n \in Mints /\ MintOK(F, hist, j.o, n)
    BY <2>1 DEF Mints, MintOK, KeyOrNot
  <2> HIDE DEF n
  <2>4. /\ c \in Composes /\ c.wrote = d.wrote /\ c.minted = n
        /\ c.fresh = d.fresh /\ c.opened = d.opened /\ StaysOff(app.ops[j.o], c)
    BY <1>3, <2>3 DEF Composes, StaysOff
  <2>5. w \in Screens /\ w.key = j.key /\ w.v = 1 /\ Names(F, hist, j.o, j.key, 1)
    BY <2>1 DEF IdOf, Screens, KeyOrNot, Names, Knows, KnowsText
  <2> HIDE DEF w
  <2>6. /\ e \in Composes /\ e.wrote = w /\ e.minted = n
        /\ e.fresh = d.fresh /\ e.opened = d.opened /\ StaysOff(app.ops[j.o], e)
    BY <2>4, <2>5 DEF Composes, StaysOff
  <2> HIDE DEF c, d, e
  <2>7. ComposeOK(F, hist, j.o, c) /\ ComposeOK(F, hist, j.o, e)
    BY <1>3, <2>3, <2>4, <2>5, <2>6 DEF ComposeOK
  <2>8. AppOK(F, hist, a) /\ Alike(app, a) /\ SameTab(app, a)
    BY <1>2, <1>3, <2>4, <2>7, SetCompose
  <2>9. AppOK(F, hist, a2) /\ Alike(app, a2) /\ SameTab(app, a2) /\ a2.scr = app.scr
    BY <1>2, <1>3, <2>6, <2>7, SetCompose
  <2> HIDE DEF a, a2
  <2>10. l \in Lists /\ ListOK(F, l)
    <3>1. h \in Handles /\ <<j.key, h.v, h.text>> \in F
      BY <2>1 DEF Handles, States
    <3>2. app.list \in Lists /\ ListOK(F, app.list)
      BY <1>3, Facts, AppFields DEF AppOK
    <3> HIDE DEF h
    <3> QED
      BY <2>1, <3>1, <3>2, ListSet
  <2> HIDE DEF l
  <2>11. /\ AppOK(F, hist, a3) /\ Alike(a2, a3) /\ a3.gen = a2.gen /\ a3.gens = a2.gens
         /\ a3.scr = a2.scr /\ a3.open = a2.open
    BY <2>9, <2>10, SetList
  <2> HIDE DEF a3
  <2>12. /\ s \in Screens \cup {None} /\ ScreenOK(F, hist, app.open, s)
         /\ app.scr # None => s # None /\ s.text = app.scr.text
         /\ app.scr = None => s = None
    <3>1. app.scr \in Screens \cup {None} /\ ScreenOK(F, hist, app.open, app.scr)
      BY <1>3, Facts, AppFields DEF AppOK
    <3>2. CASE app.open = j.o /\ app.scr # None
      <4>1. /\ s \in Screens /\ s.key = j.key /\ s.v = 1 /\ s.text = app.scr.text
        BY <2>1, <3>1, <3>2 DEF Screens, KeyOrNot
      <4>2. s # None
        BY <4>1, NoneAssumption DEF Screens, KeyOrNot
      <4> QED
        BY <1>2, <2>5, <3>2, <4>1, <4>2 DEF ScreenOK
    <3> QED
      BY <3>1, <3>2
  <2> HIDE DEF s
  <2>13. AppOK(F, hist, b) /\ SameTab(a3, b) /\ Alike(app, b)
    <3>1. a3.scr = app.scr /\ a3.open = app.open /\ (a3.armed => app.scr # None)
      BY <2>9, <2>11 DEF SameTab, AppOK
    <3>2. /\ AppOK(F, hist, b) /\ SameTab(a3, b) /\ b.scr = s /\ b.dev = a3.dev /\ b.ops = a3.ops
          /\ Discarded(b) = Discarded(a3)
      BY <2>11, <2>12, <3>1, SetScreen
    <3>3. Alike(app, a3)
      BY <2>9, <2>11, AlikeTrans
    <3> QED
      BY <2>12, <3>2, <3>3 DEF Alike, SameTab
  <2> HIDE DEF b
  <2>14. b.gen = app.gen /\ b.gens \subseteq {app.gen}
    BY <2>9, <2>11, <2>13, Facts DEF SameTab
  <2>15. PICK m : /\ AppOK(F, hist, m) /\ Alike(app, m) /\ m.gen = app.gen
                  /\ m.gens \subseteq {app.gen} /\ Moves(m)
    <3>1. CASE isCurrent(j)
      <4>1. /\ AppOK(F, hist, Say(j, b)) /\ Alike(app, Say(j, b)) /\ Say(j, b).gen = app.gen
            /\ Say(j, b).gens \subseteq {app.gen}
        BY <2>13, <2>14, <3>1, SayOK
      <4>2. Moves(Say(j, b))
        BY <2>2, <3>1 DEF Moves
      <4> QED
        BY <4>1, <4>2
    <3>2. CASE ~isCurrent(j)
      <4>1. Moves(a) /\ a.gen = app.gen /\ a.gens \subseteq {app.gen}
        BY <2>2, <2>8, <3>2, Facts DEF Moves, SameTab
      <4> QED
        BY <2>8, <4>1
    <3> QED
      BY <3>1, <3>2
  <2>16. PICK k : k = [j EXCEPT !.pc = IF j.kind = "send" THEN "claim" ELSE "answer"]
    OBVIOUS
  <2>17. /\ k \in Works /\ k.kind = j.kind /\ k.o = j.o /\ k.gen = j.gen
         /\ k.key = j.key /\ k.v = j.v /\ k.text = j.text /\ k.res = "ok" /\ k.list = j.list
         /\ (k.pc = "claim" /\ j.kind = "send") \/ k.pc = "answer"
    BY <1>2, <1>5, <2>16 DEF Works
  <2>18. Wrote(F, hist, k) /\ Knows(F, hist, k.o, k.key, k.v)
    BY <2>0, <2>1, <2>17 DEF Wrote, Knows, KnowsText
  <2>19. JobOK(F, hist, app.gen, Len(app.ops), k)
    BY <1>2, <2>1, <2>17, <2>18 DEF JobOK, Writers
  <2>20. Become(j, k)
    BY <2>2, <2>16
  <2> QED
    BY <1>1, <2>15, <2>17, <2>19, <2>20, BecomeMove
<1> QED
  BY <1>4, <1>5

\* A job that starts.
LEMMA StartOK ==
  ASSUME NEW F, Now(F), NEW k, k \in Works, k.pc = "start", k.list = NoList, k.gen = app.gen,
         k.o \in 0..Len(app.ops), k.kind \in Writers \cup {"settle"} => k.o # 0,
         k.kind \in Writers => Names(F, hist, k.o, k.key, k.v),
         k.kind \notin Writers \cup {"load"} => k.key \in Keys
  PROVE  JobOK(F, hist, app.gen, Len(app.ops), k)
<1>1. ListOK(F, k.list)
  BY NoListOK
<1>2. app.gen \in Nat
  BY Facts
<1>3. k.gen <= app.gen
  BY <1>2
<1> QED
  BY <1>1, <1>3 DEF JobOK

LEMMA AutosaveFiresStep ==
  ASSUME NEW F, Now(F), AutosaveFires PROVE \E G : Now(G)'
<1>1. /\ app.armed /\ cast' = cast /\ rows' = rows /\ used' = used /\ hist' = hist
      /\ used \in Bounds
  BY AppStays DEF AutosaveFires
<1>2. /\ AppOK(F, hist, app) /\ app.scr # None /\ app.open \in 1..Len(app.ops)
      /\ app.scr \in Screens /\ Names(F, hist, app.open, app.scr.key, app.scr.v)
      /\ app.gens \subseteq {app.gen} /\ app.open \in Nat
  BY <1>1, Facts, AppFields DEF AppOK, ScreenOK
<1> DEFINE a == [app EXCEPT !.armed = FALSE]
           b == WithSaving(a, app.open)
           k == [Job("save", app.open, app) EXCEPT
                   !.key = app.scr.key, !.v = app.scr.v, !.text = app.scr.text]
<1>3. \/ app' = a /\ jobs' = jobs
      \/ app' = b /\ jobs' = jobs \cup {k}
  <2>1. [app EXCEPT !.armed = FALSE, !.ops[app.open].saving = TRUE] = b
    BY DEF WithSaving
  <2> QED
    BY <2>1 DEF AutosaveFires, Content
<1>4. {} \in NatSets /\ a \in Flagged(app, {})
  BY DEF Flagged, NatSets
<1> HIDE DEF a
<1>5. /\ AppOK(F, hist, a) /\ Alike(app, a) /\ a.gen = app.gen /\ a.gens \subseteq {app.gen}
      /\ a.ops = app.ops
  BY <1>2, <1>4, SetFlags
<1>6. CASE app' = a /\ jobs' = jobs
  BY <1>1, <1>5, <1>6, StayMove DEF Moves
<1>7. CASE app' = b /\ jobs' = jobs \cup {k}
  <2>1. AppOK(F, hist, b) /\ Alike(a, b) /\ b.gen = a.gen /\ b.gens = a.gens
    BY <1>2, <1>5, SetSaving
  <2> HIDE DEF b
  <2>2. Alike(app, b) /\ Moves(b) /\ b.gen = app.gen /\ b.gens \subseteq {app.gen}
    BY <1>5, <1>7, <2>1, AlikeTrans DEF Moves
  <2>3. PICK i : i = Job("save", app.open, app)
    OBVIOUS
  <2>4. /\ i \in Works /\ i.kind = "save" /\ i.o = app.open /\ i.pc = "start" /\ i.gen = app.gen
        /\ i.list = NoList
    <3>1. NoList \in Lists /\ app.gen \in Nat
      BY NoListOK, Facts
    <3> QED
      BY <1>2, <2>3, <3>1 DEF Job, Works, KeyOrNot
  <2>5. /\ k \in Works /\ k.kind = "save" /\ k.o = app.open /\ k.pc = "start" /\ k.gen = app.gen
        /\ k.list = NoList /\ k.key = app.scr.key /\ k.v = app.scr.v
    BY <1>2, <2>3, <2>4 DEF Works, Screens
  <2> HIDE DEF k
  <2>6. JobOK(F, hist, app.gen, Len(app.ops), k)
    <3>1. app.open \in 0..Len(app.ops) /\ app.open # 0
      BY <1>2, Facts
    <3>2. Names(F, hist, k.o, k.key, k.v) /\ k.kind \in Writers
      BY <1>2, <2>5 DEF Writers
    <3> QED
      BY <2>5, <3>1, <3>2, StartOK
  <2> QED
    BY <1>1, <1>7, <2>1, <2>2, <2>6, AddMove
<1> QED
  BY <1>3, <1>6, <1>7

LEMMA SaveStartsStep ==
  ASSUME NEW F, Now(F), NEW j \in jobs, SaveStarts(j) PROVE \E G : Now(G)'
<1>1. /\ j.kind = "save" /\ j.pc = "start" /\ cast' = cast /\ rows' = rows /\ used' = used
      /\ hist' = hist
  BY DEF SaveStarts
<1>2. /\ JobOK(F, hist, app.gen, Len(app.ops), j) /\ j \in Works /\ j.o \in 1..Len(app.ops)
      /\ Names(F, hist, j.o, j.key, j.v)
  <2>1. JobOK(F, hist, app.gen, Len(app.ops), j) /\ j \in Works /\ j.o \in 1..Len(app.ops)
    BY <1>1, JobFacts DEF Writers
  <2> QED
    BY <1>1, <2>1 DEF JobOK, Writers
<1>3. CASE /\ Become(j, [j EXCEPT !.pc = IF j.v = 0 THEN "mint" ELSE "write"]) /\ app' = app
  <2>1. PICK k : k = [j EXCEPT !.pc = IF j.v = 0 THEN "mint" ELSE "write"]
    OBVIOUS
  <2>2. /\ k \in Works /\ k.kind = j.kind /\ k.o = j.o /\ k.gen = j.gen
        /\ k.key = j.key /\ k.v = j.v /\ k.text = j.text /\ k.res = j.res /\ k.list = j.list
        /\ k.pc = "mint" \/ (k.pc = "write" /\ j.v # 0)
    BY <1>2, <2>1 DEF Works
  <2>3. k.pc = "write" => Knows(F, hist, k.o, k.key, k.v)
    BY <1>2, <2>2 DEF Names
  <2>4. JobOK(F, hist, app.gen, Len(app.ops), k)
    BY <1>1, <1>2, <2>2, <2>3 DEF JobOK, Writers
  <2>5. Become(j, k)
    BY <1>3, <2>1
  <2> QED
    BY <1>1, <1>3, <2>2, <2>4, <2>5, BecomeStep
<1>4. CASE End(j) /\ app' = Freed(app, j.o)
  <2>1. AppOK(F, hist, app) /\ app.gens \subseteq {app.gen}
    BY Facts
  <2>2. AppOK(F, hist, app') /\ Alike(app, app') /\ app'.gen = app.gen /\ app'.gens = app.gens
    BY <1>2, <1>4, <2>1, SetSaving
  <2>3. Moves(app') /\ app'.gens \subseteq {app.gen}
    BY <2>1, <2>2 DEF Moves
  <2> QED
    BY <1>1, <1>4, <2>2, <2>3, EndMove
<1> QED
  BY <1>3, <1>4 DEF SaveStarts, Freed

\* The list of the vault.
LEMMA LiveOK ==
  ASSUME NEW F, Now(F) PROVE Live \in Lists /\ ListOK(F, Live)
<1>1. ASSUME NEW k \in Keys, rows[k].st \notin {"none", "gone"}
      PROVE  rows[k] \in Handles /\ <<k, rows[k].v, rows[k].text>> \in F
  BY <1>1, Facts DEF RowsOK
<1>2. ASSUME NEW k \in Keys
      PROVE  /\ Live[k] \in Handles \cup {None}
             /\ Live[k] = None \/ <<k, Live[k].v, Live[k].text>> \in F
  BY <1>1 DEF Live
<1>3. Live = [k \in Keys |-> Live[k]]
  BY DEF Live
<1> HIDE DEF Live
<1> QED
  BY <1>2, <1>3 DEF Lists, ListOK

LEMMA listDraftsStep ==
  ASSUME NEW F, Now(F), NEW j \in jobs, listDrafts(j) PROVE \E G : Now(G)'
<1>1. /\ j.pc = "list" /\ cast' = cast /\ rows' = rows /\ used' = used /\ app' = app
      /\ hist' = hist
  BY DEF listDrafts
<1>2. JobOK(F, hist, app.gen, Len(app.ops), j) /\ j \in Works
  BY JobFacts
<1>3. PICK l : l = Live
  OBVIOUS
<1>4. l \in Lists /\ ListOK(F, l)
  BY <1>3, LiveOK
<1>5. PICK k : k = [j EXCEPT !.pc = "listed", !.list = l]
  OBVIOUS
<1>6. /\ k \in Works /\ k.kind = j.kind /\ k.o = j.o /\ k.pc = "listed" /\ k.gen = j.gen
      /\ k.key = j.key /\ k.v = j.v /\ k.text = j.text /\ k.res = j.res /\ k.list = l
  BY <1>2, <1>4, <1>5 DEF Works
<1>7. JobOK(F, hist, app.gen, Len(app.ops), k)
  BY <1>1, <1>2, <1>4, <1>6 DEF JobOK, Writers
<1>8. Become(j, k)
  BY <1>3, <1>5 DEF listDrafts
<1> QED
  BY <1>1, <1>6, <1>7, <1>8, BecomeStep

-----------------------------------------------------------------------------
(* The autosave's answer.                                                  *)

SavedAs(a, o, w, k, x) ==
  [a EXCEPT !.err = IF a.open = o THEN FALSE ELSE @, !.ops[o].wrote = w, !.list[k] = x]

\* What may be a list's entry of k, and the id an opening wrote.
Held(F, k, x)     == k \in Keys /\ x \in Handles \cup {None} /\ (x = None \/ <<k, x.v, x.text>> \in F)
HasWritten(F, h, o, w) == w \in Screens /\ Names(F, h, o, w.key, w.v)

\* A save that landed: the opening's id, the list and the notice.
LEMMA SavedOK ==
  ASSUME NEW F, NEW h, NEW a, AppOK(F, h, a), NEW o \in 1..Len(a.ops),
         NEW w, HasWritten(F, h, o, w), NEW k, NEW x, Held(F, k, x), NEW b, b = SavedAs(a, o, w, k, x)
  PROVE  /\ AppOK(F, h, b) /\ Alike(a, b) /\ b.scr = a.scr /\ b.open = a.open
         /\ b.gen = a.gen /\ b.gens = a.gens /\ (b.armed => a.scr # None)
<1> DEFINE e == IF a.open = o THEN FALSE ELSE a.err
           f == [a EXCEPT !.err = e]
           c == [a.ops[o] EXCEPT !.wrote = w]
           g == WithCompose(f, o, c)
           l == [a.list EXCEPT ![k] = x]
<1>0. /\ w \in Screens /\ Names(F, h, o, w.key, w.v)
      /\ k \in Keys /\ x \in Handles \cup {None} /\ (x = None \/ <<k, x.v, x.text>> \in F)
  BY DEF HasWritten, Held
<1>1. a \in Apps /\ a.ops \in ComposeSeqs /\ a.list \in Lists /\ ListOK(F, a.list) /\ a.err \in BOOLEAN
  BY AppFields DEF AppOK
<1>2. a.ops[o] \in Composes /\ ComposeOK(F, h, o, a.ops[o])
  BY <1>1, ComposeAt DEF AppOK, ComposesOK
<1>3. b = [g EXCEPT !.list = l]
  <2>1. f.ops = a.ops /\ f.list = a.list
    BY <1>1 DEF Apps
  <2>2. [a.ops EXCEPT ![o].wrote = w] = [a.ops EXCEPT ![o] = c]
    BY <1>1 DEF ComposeSeqs
  <2>3. g = [f EXCEPT !.ops = [a.ops EXCEPT ![o] = c]]
    BY <2>1 DEF WithCompose
  <2>4. g = [a EXCEPT !.err = e, !.ops = [a.ops EXCEPT ![o] = c]]
    BY <2>3
  <2> HIDE DEF g, c
  <2>5. b = [a EXCEPT !.err = e, !.ops = [a.ops EXCEPT ![o] = c], !.list = l]
    BY <2>2 DEF SavedAs
  <2> QED
    BY <2>4, <2>5
<1>4. /\ c \in Composes /\ c.wrote = w /\ c.minted = a.ops[o].minted
      /\ c.fresh = a.ops[o].fresh /\ c.opened = a.ops[o].opened /\ StaysOff(a.ops[o], c)
  BY <1>0, <1>2 DEF Composes, StaysOff
<1> HIDE DEF c
<1>5. ComposeOK(F, h, o, c)
  BY <1>0, <1>2, <1>4 DEF ComposeOK
<1>6. /\ AppOK(F, h, f) /\ Alike(a, f) /\ f.gen = a.gen /\ f.gens = a.gens
      /\ f.scr = a.scr /\ f.ops = a.ops /\ f.open = a.open
  <2>1. CASE e = FALSE
    <3>1. {} \in NatSets /\ f \in Flagged(a, {})
      BY <2>1 DEF Flagged, NatSets
    <3> HIDE DEF f
    <3>2. /\ AppOK(F, h, f) /\ Alike(a, f) /\ f.gen = a.gen
          /\ f.scr = a.scr /\ f.ops = a.ops /\ f.open = a.open
      BY <3>1, SetFlags
    <3>3. f.gens = a.gens
      BY <1>1 DEF f, Apps
    <3> QED
      BY <3>2, <3>3
  <2>2. CASE e = a.err
    <3>1. f = a
      BY <1>1, <2>2 DEF Apps
    <3> QED
      BY <3>1 DEF Alike
  <2> QED
    BY <2>1, <2>2
<1> HIDE DEF f
<1>7. AppOK(F, h, g) /\ Alike(f, g) /\ SameTab(f, g) /\ g.scr = f.scr
  BY <1>4, <1>5, <1>6, SetCompose
<1> HIDE DEF g
<1>8. l \in Lists /\ ListOK(F, l)
  BY <1>0, <1>1, ListSet
<1> HIDE DEF l
<1>9. /\ AppOK(F, h, b) /\ Alike(g, b) /\ b.gen = g.gen /\ b.gens = g.gens
      /\ b.scr = g.scr /\ b.open = g.open
  BY <1>3, <1>7, <1>8, SetList
<1>10. Alike(a, b)
  BY <1>6, <1>7, <1>9, AlikeTrans
<1>11. b.armed => b.scr # None
  BY <1>9 DEF AppOK
<1> QED
  BY <1>6, <1>7, <1>9, <1>10, <1>11 DEF SameTab

\* The version on screen moves, the text stays.
LEMMA SetVersion ==
  ASSUME NEW F, NEW h, NEW a, AppOK(F, h, a), a.scr # None, NEW v \in Nat,
         Names(F, h, a.open, a.scr.key, v), NEW b, b = [a EXCEPT !.scr.v = v]
  PROVE  /\ AppOK(F, h, b) /\ Alike(a, b) /\ SameTab(a, b)
<1> DEFINE s == [a.scr EXCEPT !.v = v]
<1>1. a.scr \in Screens /\ a.open # 0
  BY AppFields DEF AppOK, ScreenOK
<1>2. s \in Screens /\ s.key = a.scr.key /\ s.v = v /\ s.text = a.scr.text
  BY <1>1 DEF Screens
<1>3. s # None
  BY <1>2, NoneAssumption DEF Screens, KeyOrNot
<1>4. b = [a EXCEPT !.scr = s]
  OBVIOUS
<1> HIDE DEF s
<1>5. ScreenOK(F, h, a.open, s)
  BY <1>1, <1>2 DEF ScreenOK
<1> QED
  BY <1>2, <1>3, <1>4, <1>5, SetScreen

LEMMA SaveEndsStep ==
  ASSUME NEW F, Now(F), NEW j \in jobs, SaveEnds(j) PROVE \E G : Now(G)'
<1>1. /\ j.kind = "save" /\ j.pc = "answer" /\ j.kind # "flush"
      /\ cast' = cast /\ rows' = rows /\ used' = used
  BY DEF SaveEnds
<1>2. /\ JobOK(F, hist, app.gen, Len(app.ops), j) /\ j \in Works /\ j.o \in 1..Len(app.ops)
      /\ j.key \in KeyOrNot /\ j.v \in Nat /\ j.text \in Nat
  BY <1>1, JobFacts DEF Writers
<1>3. /\ AppOK(F, hist, app) /\ app.gens \subseteq {app.gen} /\ hist \in Hists /\ app.open \in Nat
      /\ used \in Bounds /\ Grows(hist, hist)
      /\ app.scr # None => app.open # 0
  BY Facts DEF AppOK, ScreenOK, Grows
<1>4. PICK f : f = Freed(app, j.o)
  OBVIOUS
<1>5. /\ AppOK(F, hist, f) /\ Alike(app, f) /\ f.gen = app.gen /\ f.gens \subseteq {app.gen}
      /\ f.scr = app.scr /\ f.open = app.open /\ f.list = app.list /\ Len(f.ops) = Len(app.ops)
  BY <1>2, <1>3, <1>4, SetSaving
<1>6. CASE ~isCurrent(j) \/ j.res # "ok"
  <2>1. hist' = hist
    BY <1>3, <1>6 DEF SaveEnds, Hists
  <2>2. CASE End(j) /\ (app' = f \/ app' = Rendered(f, FALSE))
    <3>1. Moves(f)
      BY <2>2 DEF Moves
    <3> QED
      BY <1>1, <1>5, <2>1, <2>2, <3>1, EndMove
  <2>3. CASE j.res = "conflict" /\ Become(j, [j EXCEPT !.pc = "list"]) /\ app' = app
    <3>1. PICK k : k = [j EXCEPT !.pc = "list"]
      OBVIOUS
    <3>2. /\ k \in Works /\ k.kind = j.kind /\ k.o = j.o /\ k.pc = "list" /\ k.gen = j.gen
          /\ k.key = j.key /\ k.v = j.v /\ k.text = j.text /\ k.res = j.res /\ k.list = j.list
      BY <1>2, <3>1 DEF Works
    <3>3. JobOK(F, hist, app.gen, Len(app.ops), k)
      BY <1>1, <1>2, <2>3, <3>2 DEF JobOK, Writers
    <3>4. Become(j, k)
      BY <2>3, <3>1
    <3> QED
      BY <1>1, <2>1, <2>3, <3>2, <3>3, <3>4, BecomeStep
  <2>4. CASE /\ isCurrent(j) /\ End(j)
             /\ app' = Rendered(Say(j, [f EXCEPT !.err = TRUE]), FALSE)
    <3>1. PICK g : g = [f EXCEPT !.err = TRUE]
      OBVIOUS
    <3>2. g \in Flagged(f, {}) /\ {} \in NatSets
      BY <3>1 DEF Flagged, NatSets
    <3>3. /\ AppOK(F, hist, g) /\ Alike(f, g) /\ g.gen = f.gen /\ (g.gens = f.gens \/ g.gens = {})
      BY <1>5, <3>2, SetFlags
    <3>4. Alike(app, g) /\ g.gen = app.gen /\ g.gens \subseteq {app.gen}
      BY <1>5, <3>3, AlikeTrans
    <3>5. PICK m : m = Say(j, g)
      OBVIOUS
    <3>6. /\ AppOK(F, hist, m) /\ Alike(app, m) /\ m.gen = app.gen /\ m.gens \subseteq {app.gen}
      BY <2>4, <3>3, <3>4, <3>5, SayOK
    <3>7. Moves(m)
      BY <2>4, <3>1, <3>5 DEF Moves
    <3> QED
      BY <1>1, <2>1, <2>4, <3>6, <3>7, EndMove
  <2> QED
    BY <1>4, <1>6, <2>2, <2>3, <2>4 DEF SaveEnds, Freed
<1>7. CASE isCurrent(j) /\ j.res = "ok"
  <2> DEFINE w == IdOf(j.key, j.v)
             x == IF f.list[j.key] = None THEN None ELSE Handle(j)
             b == SavedAs(f, j.o, w, j.key, x)
             own == app.scr # None /\ app.scr.key = j.key
  <2>1. /\ hist' = [hist EXCEPT !.crossed =
                      IF app.open \notin {0, j.o} /\ own THEN @ \cup {app.open} ELSE @]
    BY <1>7 DEF SaveEnds
  <2>2. /\ hist' \in Hists /\ Grows(hist, hist') /\ hist'.mine = hist.mine /\ hist'.typed = hist.typed
        /\ hist'.blind = hist.blind /\ hist'.known = hist.known
        /\ own /\ app.open # j.o => app.open \in hist'.crossed
    <3>1. hist.crossed \in NatSets /\ hist.crossed \cup {app.open} \in NatSets
      BY <1>3 DEF Hists, NatSets
    <3>2. PICK y : y = IF app.open \notin {0, j.o} /\ own THEN hist.crossed \cup {app.open}
                       ELSE hist.crossed
      OBVIOUS
    <3>3. y \in NatSets /\ hist.crossed \subseteq y /\ hist' = [hist EXCEPT !.crossed = y]
      BY <2>1, <3>1, <3>2
    <3>4. hist' \in Hists /\ Grows(hist, hist') /\ hist'.mine = hist.mine
          /\ hist'.typed = hist.typed /\ hist'.blind = hist.blind /\ hist'.known = hist.known
          /\ hist'.crossed = y
      BY <1>3, <3>3 DEF Hists, Grows
    <3>5. own /\ app.open # j.o => app.open \in y
      BY <1>3, <3>2
    <3> QED
      BY <3>4, <3>5
  <2>3. app' = Rendered(Say(j, IF own THEN [b EXCEPT !.scr.v = j.v] ELSE b), own) /\ End(j)
    <3>1. b.scr = f.scr
      BY <1>5, AppFields DEF SavedAs, AppOK, Apps
    <3>2. own <=> b.scr # None /\ b.scr.key = j.key
      BY <1>5, <3>1
    <3>3. app' = Rendered(Say(j, IF b.scr # None /\ b.scr.key = j.key
                                 THEN [b EXCEPT !.scr.v = j.v] ELSE b),
                          b.scr # None /\ b.scr.key = j.key) /\ End(j)
      BY <1>4, <1>7 DEF SaveEnds, SavedAs, Freed
    <3> HIDE DEF b, own
    <3> QED
      BY <3>2, <3>3
  <2>4. /\ <<j.key, j.v, j.text>> \in F /\ <<j.o, j.text>> \in hist.known /\ j.key \in Keys
    BY <1>1, <1>2, <1>7 DEF JobOK, Wrote, isCurrent
  <2>5. AppOK(F, hist', f)
    BY <1>5, <2>2, AppMono
  <2>6. w \in Screens /\ w.key = j.key /\ w.v = j.v /\ Names(F, hist', j.o, j.key, j.v)
    BY <1>2, <2>2, <2>4 DEF IdOf, Screens, KeyOrNot, Names, Knows, KnowsText
  <2>7. x \in Handles \cup {None} /\ (x = None \/ <<j.key, x.v, x.text>> \in F)
    BY <1>2, <2>4 DEF Handle, Handles, States
  <2> HIDE DEF w, x
  <2>9. /\ AppOK(F, hist', b) /\ Alike(f, b) /\ b.scr = f.scr /\ b.open = f.open
        /\ b.gen = f.gen /\ b.gens = f.gens
    <3>1. j.o \in 1..Len(f.ops) /\ HasWritten(F, hist', j.o, w) /\ Held(F, j.key, x)
      BY <1>2, <1>5, <2>4, <2>6, <2>7 DEF HasWritten, Held
    <3>2. PICK y : y = b
      OBVIOUS
    <3>3. y = SavedAs(f, j.o, w, j.key, x)
      BY <3>2
    <3> HIDE DEF b
    <3>4. /\ AppOK(F, hist', y) /\ Alike(f, y) /\ y.scr = f.scr /\ y.open = f.open
          /\ y.gen = f.gen /\ y.gens = f.gens
      BY <2>5, <3>1, <3>3, SavedOK
    <3> QED
      BY <3>2, <3>4
  <2> HIDE DEF b
  <2>10. PICK n : n = IF own THEN [b EXCEPT !.scr.v = j.v] ELSE b
    OBVIOUS
  <2>11. AppOK(F, hist', n) /\ Alike(b, n) /\ n.gen = b.gen /\ n.gens = b.gens
    <3>1. CASE own
      <4>1. b.scr # None /\ b.scr.key = j.key /\ b.open = app.open
        BY <1>5, <2>9, <3>1
      <4>2. Names(F, hist', app.open, j.key, j.v)
        <5>1. CASE app.open = j.o
          BY <2>6, <5>1
        <5>2. CASE app.open # j.o
          <6>1. KnowsText(hist', app.open, j.text)
            BY <2>2, <3>1, <5>2 DEF KnowsText
          <6> QED
            BY <1>2, <2>4, <6>1 DEF Names, Knows
        <5> QED
          BY <5>1, <5>2
      <4>3. Names(F, hist', b.open, b.scr.key, j.v)
        BY <4>1, <4>2
      <4>4. n = [b EXCEPT !.scr.v = j.v]
        BY <2>10, <3>1
      <4>5. AppOK(F, hist', n) /\ Alike(b, n) /\ SameTab(b, n)
        BY <1>2, <2>9, <4>1, <4>3, <4>4, SetVersion
      <4> QED
        BY <4>5 DEF SameTab
    <3>2. CASE ~own
      BY <2>9, <2>10, <3>2 DEF Alike
    <3> QED
      BY <3>1, <3>2
  <2>12. Alike(app, n) /\ n.gen = app.gen /\ n.gens \subseteq {app.gen}
    BY <1>5, <2>9, <2>11, AlikeTrans
  <2>13. PICK m : m = Say(j, n)
    OBVIOUS
  <2>14. /\ AppOK(F, hist', m) /\ Alike(app, m) /\ m.gen = app.gen /\ m.gens \subseteq {app.gen}
    BY <1>7, <2>11, <2>12, <2>13, SayOK
  <2>15. Moves(m)
    BY <2>3, <2>10, <2>13 DEF Moves
  <2>16. JobsOK(F, hist', app.gen, Len(app.ops), jobs')
    <3>1. JobsOK(F, hist', app.gen, Len(app.ops), jobs)
      BY <2>2, JobsMono, Facts
    <3> QED
      BY <2>3, <3>1, JobsSet DEF End
  <2>17. Flushing(app, hist, hist', jobs, jobs')
    BY <1>1, <2>3, FlushingKept DEF End
  <2> QED
    BY <1>1, <1>3, <2>2, <2>14, <2>15, <2>16, <2>17, MoveStep
<1> QED
  BY <1>6, <1>7

-----------------------------------------------------------------------------
(* Steps that change what is on screen, or lose the copy on the device.    *)

LEMMA Assemble ==
  ASSUME NEW F, Now(F), NEW G, cast' = cast,
         rows' \in [Keys -> Handles], Log(G), RowsOK(G, cast, rows', hist'),
         hist' \in Hists, hist'.blind \subseteq hist'.crossed, used' \in Bounds,
         AppOK(G, hist', app'), app'.gens \subseteq {app'.gen},
         JobsOK(G, hist', app'.gen, Len(app'.ops), jobs'),
         TextsOK(cast, app', jobs', used', hist')
  PROVE  Now(G)'
<1>1. cast \in Casts
  BY Facts
<1> QED
  BY <1>1 DEF Now, Good

\* The tab comes by way of x, whose texts are safe, to m, and React takes it from there.
LEMMA Arrive ==
  ASSUME NEW F, Now(F), cast' = cast, rows' = rows, used' \in Bounds, hist' \in Hists,
         Grows(hist, hist'), hist'.blind = hist.blind,
         NEW x, AppOK(F, hist', x), TextsOK(cast, x, jobs', used', hist'),
         NEW m, AppOK(F, hist', m), Alike(x, m), m.gens \subseteq {m.gen}, Moves(m),
         JobsOK(F, hist', m.gen, Len(m.ops), jobs')
  PROVE  Now(F)'
<1>1. Log(F) /\ InStep(x) /\ hist'.blind \subseteq hist'.crossed
  BY Facts DEF Grows, TextsOK
<1>2. /\ AppOK(F, hist', app') /\ Calm(x, app') /\ app'.gen = m.gen /\ app'.gens = m.gens
      /\ Len(app'.ops) = Len(m.ops)
  <2>1. CASE app' = m
    BY <1>1, <2>1, AlikeCalm
  <2>2. CASE \E touched \in BOOLEAN : app' = Rendered(m, touched)
    <3>1. PICK touched \in BOOLEAN : app' = Rendered(m, touched)
      BY <2>2
    <3>2. AppOK(F, hist', app') /\ Shown(m, app')
      BY <1>1, <3>1, RenderedOK
    <3>3. Calm(x, app')
      BY <1>1, <3>2, ShownCalm
    <3> QED
      BY <3>2, <3>3 DEF Shown, SameTab
  <2> QED
    BY <2>1, <2>2 DEF Moves
<1>3. TextsOK(cast, app', jobs', used', hist')
  <2>1. used'.texts \in Nat /\ used'.texts <= used'.texts /\ used'.texts <= cast.texts
    BY DEF Bounds, TextsOK
  <2>2. Grows(hist', hist') /\ Flushing(x, hist', hist', jobs', jobs')
    BY FlushingKept DEF Grows
  <2>3. x.open \in 0..Len(x.ops)
    BY DEF AppOK
  <2> QED
    BY <1>2, <2>1, <2>2, <2>3, CalmTexts
<1>4. /\ rows' \in [Keys -> Handles] /\ RowsOK(F, cast, rows', hist')
  BY SameVault
<1>5. app'.gens \subseteq {app'.gen} /\ JobsOK(F, hist', app'.gen, Len(app'.ops), jobs')
  BY <1>2
<1> QED
  BY <1>1, <1>2, <1>3, <1>4, <1>5, Assemble

\* The copy on the device goes, and nobody relied on it.
LEMMA LoseCopy ==
  ASSUME NEW F, NEW c, NEW a, NEW js, NEW u, NEW h, TextsOK(c, a, js, u, h), AppOK(F, h, a),
         \A o \in 1..Len(a.ops) : a.open = 0 /\ Copied(a, h.mine[o]) => o \in h.given,
         NEW b, b = [a EXCEPT !.dev = None]
  PROVE  /\ AppOK(F, h, b) /\ TextsOK(c, b, js, u, h)
         /\ b.gen = a.gen /\ b.gens = a.gens /\ b.open = a.open /\ Len(b.ops) = Len(a.ops)
         /\ b.ops = a.ops /\ b.list = a.list
<1>1. /\ AppOK(F, h, b) /\ SameTab(a, b)
      /\ b.scr = a.scr /\ b.dev = None /\ b.ops = a.ops
      /\ Discarded(b) = Discarded(a)
  BY SetCopy
<1>2. ASSUME NEW o \in 1..Len(a.ops) PROVE Safe(b, js, h, o)
  <2>1. Safe(a, js, h, o)
    BY DEF TextsOK
  <2> QED
    BY <1>1, <2>1 DEF Safe, SameTab, Shows
<1>3. Alone(b, h) /\ InStep(b)
  BY <1>1 DEF TextsOK, Alone, Shows, InStep, SameTab
<1> QED
  BY <1>1, <1>2, <1>3 DEF TextsOK, SameTab

\* The draft leaves the screen.
LEMMA LeaveTexts ==
  ASSUME NEW c, NEW a, NEW js, NEW u, NEW h, TextsOK(c, a, js, u, h), a.open \in 1..Len(a.ops),
         NEW b, Len(b.ops) = Len(a.ops), Discarded(a) \subseteq Discarded(b), b.scr = None,
         b.open = 0 \/ (b.open = a.open /\ b.dev = None),
         NEW g, Grows(h, g), g.mine = h.mine, g.typed = h.typed,
         NEW ks, Flushing(a, h, g, js, ks), Safe(b, ks, g, a.open)
  PROVE  TextsOK(c, b, ks, u, g)
<1>1. ASSUME NEW o \in 1..Len(a.ops) PROVE Safe(b, ks, g, o)
  <2> DEFINE t == h.mine[o]
  <2>0. g.mine[o] = t /\ a.open # 0
    OBVIOUS
  <2>1. CASE o = a.open
    BY <2>1
  <2>2. CASE o # a.open
    <3>1. Safe(a, js, h, o)
      BY DEF TextsOK
    <3>2. CASE t = 0 \/ o \in h.given \/ o \in Discarded(a) \/ t \in h.stored
      BY <3>2 DEF Safe, Grows
    <3>3. CASE Flushes(js, o, t)
      <4>1. PICK j \in js : j.kind = "flush" /\ j.o = o /\ j.text = t
        BY <3>3 DEF Flushes
      <4>2. Flushed(a, h, g, ks, j)
        BY <4>1 DEF Flushing
      <4>3. CASE Flushes(ks, o, t) \/ t \in g.stored \/ o \in g.given
        BY <4>3 DEF Safe
      <4>4. CASE Copied(a, t)
        <5>1. \/ t = 0 \/ o \in h.given \/ t \in h.stored
              \/ a.open = o /\ Shows(a, t)
              \/ a.open = 0
          BY <4>4, CopiedSafe
        <5> QED
          BY <2>2, <2>0, <3>2, <5>1
      <4> QED
        BY <4>1, <4>2, <4>3, <4>4 DEF Flushed
    <3> QED
      BY <2>0, <2>2, <3>1, <3>2, <3>3 DEF Safe
  <2> QED
    BY <2>1, <2>2
<1>2. Alone(b, g) /\ InStep(b)
  BY DEF Alone, Shows, InStep
<1> QED
  BY <1>1, <1>2 DEF TextsOK

\* The texts with the tab as it is, and the jobs and the history as they become.
LEMMA StayTexts ==
  ASSUME NEW F, Now(F), NEW h, Grows(hist, h), h.mine = hist.mine, h.typed = hist.typed,
         NEW js, Flushing(app, hist, h, jobs, js)
  PROVE  TextsOK(cast, app, js, used, h) /\ AppOK(F, h, app)
<1>1. Calm(app, app)
  BY AlikeCalm, AppStays, Facts
<1>2. used.texts \in Nat /\ used.texts <= used.texts /\ used.texts <= cast.texts
  BY Facts DEF TextsOK
<1>3. TextsOK(cast, app, jobs, used, hist) /\ app.open \in 0..Len(app.ops)
  BY Facts
<1>4. TextsOK(cast, app, js, used, h)
  BY <1>1, <1>2, <1>3, CalmTexts
<1>5. AppOK(F, h, app)
  BY AppMono, Facts
<1> QED
  BY <1>4, <1>5

-----------------------------------------------------------------------------
(* Lists applied.                                                          *)

LEMMA SayAt ==
  ASSUME NEW F, Now(F), NEW j \in jobs, isCurrent(j), NEW h, NEW a, AppOK(F, h, a),
         a.gen = app.gen, a.gens \subseteq {app.gen}, NEW b, b = Say(j, a)
  PROVE  /\ AppOK(F, h, b) /\ Alike(a, b) /\ b.gen = app.gen /\ b.gens \subseteq {app.gen}
         /\ b.gens \subseteq {b.gen} /\ Len(b.ops) = Len(a.ops)
<1> DEFINE s == a.gens \cup {j.gen}
<1>1. j.gen = app.gen /\ j.gen \in Nat
  BY JobFacts DEF isCurrent
<1>2. s \in NatSets /\ s \subseteq {app.gen} /\ a \in Apps
  BY <1>1, AppFields DEF AppOK, NatSets
<1>3. b = [a EXCEPT !.gens = s]
  BY DEF Say
<1> HIDE DEF s
<1>4. b \in Flagged(a, s)
  BY <1>3 DEF Flagged
<1>5. /\ AppOK(F, h, b) /\ Alike(a, b) /\ b.gen = a.gen
      /\ b.gens = a.gens \/ b.gens = s
  BY <1>2, <1>4, SetFlags
<1> QED
  BY <1>2, <1>5 DEF Alike

\* The same, as a step on from the tab as it is.
LEMMA SayMove ==
  ASSUME NEW F, Now(F), NEW j \in jobs, isCurrent(j), NEW a, AppOK(F, hist, a), Alike(app, a),
         a.gen = app.gen, a.gens \subseteq {app.gen}, NEW b, b = Say(j, a)
  PROVE  AppOK(F, hist, b) /\ Alike(app, b) /\ b.gen = app.gen /\ b.gens \subseteq {app.gen}
<1>1. AppOK(F, hist, b) /\ Alike(a, b) /\ b.gen = app.gen /\ b.gens \subseteq {app.gen}
  BY SayAt
<1> QED
  BY <1>1, AlikeTrans

LEMMA CopyOfOK ==
  ASSUME NEW F, Now(F)
  PROVE  /\ CopyOf \subseteq 1..Len(app.ops) /\ CopyOf \in NatSets
         /\ \A o \in 1..Len(app.ops) : Copied(app, hist.mine[o]) => o \in CopyOf
<1>1. app.ops \in ComposeSeqs
  BY Facts
<1>2. DOMAIN app.ops = 1..Len(app.ops)
  BY <1>1 DEF ComposeSeqs
<1>3. Len(app.ops) \in Nat
  BY Facts
<1>4. CopyOf \subseteq 1..Len(app.ops)
  BY <1>2 DEF CopyOf
<1> QED
  BY <1>2, <1>3, <1>4 DEF CopyOf, InCopy, Copied, NatSets

LEMMA ListedStep ==
  ASSUME NEW F, Now(F), NEW j \in jobs, Listed(j) PROVE \E G : Now(G)'
<1>1. /\ j.pc = "listed" /\ cast' = cast /\ rows' = rows /\ used' = used /\ End(j)
  BY DEF Listed
<1>2. /\ JobOK(F, hist, app.gen, Len(app.ops), j) /\ j \in Works
      /\ j.list \in Lists /\ ListOK(F, j.list)
  BY JobFacts
<1>3. /\ AppOK(F, hist, app) /\ app.gens \subseteq {app.gen} /\ hist \in Hists /\ used \in Bounds
      /\ Alike(app, app) /\ app \in Apps
  BY Facts, AppStays
<1>4. CASE j.kind = "flush"
  <2> DEFINE x == [app EXCEPT !.dev = None]
             y == [x EXCEPT !.list = j.list]
  <2>1. hist' = [hist EXCEPT !.given = @ \cup (CopyOf \ {app.open})]
    BY <1>4 DEF Listed
  <2>2. app' = IF isCurrent(j) THEN Rendered(Say(j, y), FALSE) ELSE app
    <3>1. [[app EXCEPT !.list = j.list] EXCEPT !.dev = None] = y
      OBVIOUS
    <3>2. app' = IF isCurrent(j)
                 THEN Rendered(Say(j, [[app EXCEPT !.list = j.list] EXCEPT !.dev = None]), FALSE)
                 ELSE app
      BY <1>4 DEF Listed
    <3> HIDE DEF y
    <3> QED
      BY <3>1, <3>2
  <2>3. /\ hist' \in Hists /\ Grows(hist, hist') /\ hist'.mine = hist.mine /\ hist'.typed = hist.typed
        /\ hist'.blind = hist.blind /\ hist'.given = hist.given \cup (CopyOf \ {app.open})
    <3>1. CopyOf \in NatSets
      BY CopyOfOK
    <3>2. hist.given \in NatSets /\ hist.given \cup (CopyOf \ {app.open}) \in NatSets
      BY <1>3, <3>1 DEF Hists, NatSets
    <3> QED
      BY <1>3, <2>1, <3>2 DEF Hists, Grows
  <2>4. Flushing(app, hist, hist', jobs, jobs')
    <3>1. j.text \in hist.stored
      BY <1>1, <1>2, <1>4 DEF JobOK
    <3>2. ASSUME NEW i \in jobs, i.kind = "flush" PROVE Flushed(app, hist, hist', jobs', i)
      <4>1. CASE i = j
        BY <2>3, <3>1, <4>1 DEF Flushed, Grows
      <4>2. CASE i # j
        BY <1>1, <3>2, <4>2 DEF Flushed, Flushes, End
      <4> QED
        BY <4>1, <4>2
    <3> QED
      BY <3>2 DEF Flushing
  <2>5. TextsOK(cast, app, jobs', used, hist') /\ AppOK(F, hist', app)
    BY <2>3, <2>4, StayTexts
  <2>6. JobsOK(F, hist', app.gen, Len(app.ops), jobs')
    <3>1. JobsOK(F, hist', app.gen, Len(app.ops), jobs)
      BY <2>3, JobsMono, Facts
    <3> QED
      BY <1>1, <3>1, JobsSet DEF End
  <2>7. PICK n : n = x
    OBVIOUS
  <2>8. CASE isCurrent(j)
    <3>1. \A o \in 1..Len(app.ops) : app.open = 0 /\ Copied(app, hist'.mine[o]) => o \in hist'.given
      <4>1. ASSUME NEW o \in 1..Len(app.ops), app.open = 0, Copied(app, hist.mine[o])
            PROVE  o \in hist'.given
        <5>2. o \in CopyOf
          BY <4>1, CopyOfOK
        <5> QED
          BY <2>3, <4>1, <5>2
      <4> QED
        BY <2>3, <4>1
    <3>2. /\ AppOK(F, hist', n) /\ TextsOK(cast, n, jobs', used', hist')
          /\ n.gen = app.gen /\ n.gens = app.gens /\ Len(n.ops) = Len(app.ops)
      BY <1>1, <2>5, <2>7, <3>1, LoseCopy
    <3>3. PICK z : z = [n EXCEPT !.list = j.list]
      OBVIOUS
    <3>4. AppOK(F, hist', z) /\ Alike(n, z) /\ z.gen = n.gen /\ z.gens = n.gens
      BY <1>2, <3>2, <3>3, SetList
    <3>5. PICK m : m = Say(j, z)
      OBVIOUS
    <3>6. /\ AppOK(F, hist', m) /\ Alike(z, m) /\ m.gen = app.gen /\ m.gens \subseteq {m.gen}
      BY <1>3, <2>8, <3>2, <3>4, <3>5, SayAt
    <3>7. Alike(n, m) /\ Len(m.ops) = Len(app.ops)
      BY <3>2, <3>4, <3>6, AlikeTrans DEF Alike
    <3>8. Moves(m)
      BY <2>2, <2>7, <2>8, <3>3, <3>5 DEF Moves
    <3>9. JobsOK(F, hist', m.gen, Len(m.ops), jobs')
      BY <2>6, <3>6, <3>7
    <3>10. used' \in Bounds
      BY <1>1, <1>3
    <3> QED
      BY <1>1, <2>3, <3>2, <3>6, <3>7, <3>8, <3>9, <3>10, Arrive
  <2>9. CASE ~isCurrent(j)
    <3>1. Moves(app) /\ used' \in Bounds /\ TextsOK(cast, app, jobs', used', hist')
      BY <1>1, <1>3, <2>2, <2>5, <2>9 DEF Moves
    <3> QED
      BY <1>1, <1>3, <2>3, <2>5, <2>6, <3>1, Arrive
  <2> QED
    BY <2>8, <2>9
<1>5. CASE j.kind # "flush"
  <2>1. hist' = hist
    BY <1>3, <1>5 DEF Listed, Hists
  <2>2. PICK a : a = IF j.kind = "save" THEN Freed(app, j.o) ELSE app
    OBVIOUS
  <2>3. /\ AppOK(F, hist, a) /\ Alike(app, a) /\ a.gen = app.gen /\ a.gens \subseteq {app.gen}
        /\ a.open = app.open
    <3>1. CASE j.kind = "save"
      <4>1. j.o \in 1..Len(app.ops)
        BY <3>1, JobFacts DEF Writers
      <4> QED
        BY <1>3, <2>2, <3>1, <4>1, SetSaving
    <3>2. CASE j.kind # "save"
      BY <1>3, <2>2, <3>2
    <3> QED
      BY <3>1, <3>2
  <2> DEFINE w == IF j.list[j.key] = None \/ j.list[j.key].v # j.v THEN None
                  ELSE [key |-> j.key, h |-> j.list[j.key]]
  <2>4. PICK b : b = [a EXCEPT !.list = j.list]
    OBVIOUS
  <2>5. PICK c : c = IF j.kind = "save" /\ b.open = j.o THEN [b EXCEPT !.conflict = w] ELSE b
    OBVIOUS
  <2>6. app' = IF isCurrent(j) THEN Rendered(Say(j, c), FALSE) ELSE a
    BY <1>5, <2>2, <2>4, <2>5 DEF Listed, Freed
  <2>7. AppOK(F, hist, b) /\ Alike(a, b) /\ b.gen = a.gen /\ b.gens = a.gens
    BY <1>2, <2>3, <2>4, SetList
  <2>8. AppOK(F, hist, c) /\ Alike(b, c) /\ c.gen = b.gen /\ c.gens = b.gens
    <3>1. CASE j.kind = "save" /\ b.open = j.o
      <4>1. j.key \in Keys
        BY <1>1, <1>2, <3>1 DEF JobOK
      <4>2. w \in Conflicts \cup {None} /\ ConflictOK(F, w)
        <5>1. CASE j.list[j.key] = None \/ j.list[j.key].v # j.v
          BY <5>1 DEF ConflictOK
        <5>2. CASE ~(j.list[j.key] = None \/ j.list[j.key].v # j.v)
          <6>1. j.list[j.key] \in Handles /\ <<j.key, j.list[j.key].v, j.list[j.key].text>> \in F
            BY <1>2, <4>1, <5>2 DEF Lists, ListOK
          <6>2. w = [key |-> j.key, h |-> j.list[j.key]]
            BY <5>2
          <6>3. w \in Conflicts /\ w.key = j.key /\ w.h = j.list[j.key]
            BY <4>1, <6>1, <6>2 DEF Conflicts
          <6> QED
            BY <6>1, <6>3 DEF ConflictOK
        <5> QED
          BY <5>1, <5>2
      <4> HIDE DEF w
      <4>3. c = [b EXCEPT !.conflict = w]
        BY <2>5, <3>1
      <4> QED
        BY <2>7, <4>2, <4>3, SetConflict
    <3>2. CASE ~(j.kind = "save" /\ b.open = j.o)
      BY <2>5, <2>7, <3>2 DEF Alike
    <3> QED
      BY <3>1, <3>2
  <2>9. Alike(app, c) /\ c.gen = app.gen /\ c.gens \subseteq {app.gen}
    BY <2>3, <2>7, <2>8, AlikeTrans
  <2>10. CASE isCurrent(j)
    <3>1. PICK m : m = Say(j, c)
      OBVIOUS
    <3>2. AppOK(F, hist, m) /\ Alike(app, m) /\ m.gen = app.gen /\ m.gens \subseteq {app.gen}
      BY <2>8, <2>9, <2>10, <3>1, SayMove
    <3>3. Moves(m)
      BY <2>6, <2>10, <3>1 DEF Moves
    <3> QED
      BY <1>1, <1>5, <2>1, <3>2, <3>3, EndMove
  <2>11. CASE ~isCurrent(j)
    <3>1. Moves(a)
      BY <2>6, <2>11 DEF Moves
    <3> QED
      BY <1>1, <1>5, <2>1, <2>3, <3>1, EndMove
  <2> QED
    BY <2>10, <2>11
<1> QED
  BY <1>4, <1>5

-----------------------------------------------------------------------------
(* Opening.                                                                *)

LEMMA OpeningOK ==
  ASSUME NEW F, NEW h, NEW n, NEW i \in KeyOrNot, NEW s \in Screens, NEW c,
         c = Opening(i, s, FALSE) \/ (c = Opening(i, s, TRUE) /\ s.text = 0)
  PROVE  c \in Composes /\ ComposeOK(F, h, n, c)
<1>1. s.text \in Nat
  BY DEF Screens
<1>2. Unasked \in Mints /\ Unasked.st = "no"
  BY DEF Unasked, Mints, KeyOrNot
<1>3. NoScreen \in Screens /\ NoScreen.key = 0 /\ NoScreen.v = 0
  BY DEF NoScreen, Screens, KeyOrNot
<1>4. /\ c \in Composes /\ c.wrote = NoScreen /\ c.minted = Unasked
      /\ c.opened = s.text /\ (c.fresh => s.text = 0)
  <2>1. ASSUME NEW f \in BOOLEAN, NEW d, d = Opening(i, s, f)
        PROVE  /\ d \in Composes /\ d.wrote = NoScreen /\ d.minted = Unasked
               /\ d.opened = s.text /\ d.fresh = f
    BY <1>1, <1>2, <1>3, <2>1 DEF Opening, Composes
  <2>2. CASE c = Opening(i, s, FALSE)
    BY <2>1, <2>2
  <2>3. CASE c = Opening(i, s, TRUE) /\ s.text = 0
    BY <2>1, <2>3
  <2> QED
    BY <2>2, <2>3
<1> QED
  BY <1>2, <1>3, <1>4 DEF ComposeOK, MintOK, Names

\* A text that is not another opening's, or need not be kept for it.
Apart(c, a, h, t) == t = 0 \/ Copied(a, t) \/ t \notin 1..c.texts \/ t \in h.stored

LEMMA OpenStep ==
  ASSUME NEW F, Now(F), cast' = cast, rows' = rows, jobs' = jobs, used' = used,
         NEW n, n = Len(app.ops) + 1, NEW c \in Composes, ComposeOK(F, hist', n, c),
         NEW s \in Screens, Names(F, hist', n, s.key, s.v), Apart(cast, app, hist, s.text),
         NEW t, t = (IF s.text \in hist.typed THEN s.text ELSE 0),
         NEW r \in NatSets, hist.restored \subseteq r,
         hist' = [hist EXCEPT !.known = @ \cup {<<n, s.text>>},
                              !.given = @ \cup CopyOf \cup {o \in {app.open} : o # 0},
                              !.mine = Append(@, t), !.restored = r],
         NEW m, m = [app EXCEPT !.ops = Append(@, c), !.open = n, !.scr = s],
         app' = Rendered(m, TRUE)
  PROVE  Now(F)'
<1>1. /\ AppOK(F, hist, app) /\ app \in Apps /\ app.ops \in ComposeSeqs /\ Len(app.ops) \in Nat
      /\ app.open \in 0..Len(app.ops) /\ app.open \in Nat /\ hist \in Hists /\ used \in Bounds
      /\ app.gens \subseteq {app.gen} /\ Log(F) /\ used.texts \in Nat /\ cast.texts \in Nat
      /\ TextsOK(cast, app, jobs, used, hist) /\ hist.blind \subseteq hist.crossed
  BY Facts
<1>2. n \in Nat /\ n # 0 /\ s.text \in Nat /\ s # None
  BY <1>1, NoneAssumption DEF Screens, KeyOrNot
<1>3. t \in 0..used.texts /\ t \in Nat
  BY <1>1, <1>2 DEF TextsOK
<1> DEFINE gg == hist.given \cup CopyOf \cup {o \in {app.open} : o # 0}
           kk == hist.known \cup {<<n, s.text>>}
<1>4. gg \in NatSets
  BY <1>1, CopyOfOK DEF Hists, NatSets
<1>5. kk \in SUBSET (Nat \X Nat)
  BY <1>1, <1>2 DEF Hists
<1>6. /\ hist.mine \in Seq(Nat) /\ Len(hist.mine) = Len(app.ops) /\ Append(hist.mine, t) \in Seq(Nat)
      /\ Len(Append(hist.mine, t)) = n /\ Append(hist.mine, t)[n] = t
      /\ \A o \in 1..Len(app.ops) : Append(hist.mine, t)[o] = hist.mine[o]
  <2>1. hist.mine \in Seq(Nat) /\ Len(hist.mine) = Len(app.ops)
    BY <1>1 DEF Hists, TextsOK
  <2> QED
    BY <1>3, <2>1, AppendProperties
<1>7. /\ hist' \in Hists /\ Grows(hist, hist') /\ hist'.typed = hist.typed /\ hist'.given = gg
      /\ hist'.known = kk /\ hist'.mine = Append(hist.mine, t)
      /\ hist'.blind = hist.blind /\ hist'.blind \subseteq hist'.crossed
  <2>1. hist' = [hist EXCEPT !.known = kk, !.given = gg, !.mine = Append(hist.mine, t),
                             !.restored = r]
    OBVIOUS
  <2> HIDE DEF kk, gg
  <2>2. /\ hist' \in Hists /\ hist'.typed = hist.typed /\ hist'.given = gg
        /\ hist'.known = kk /\ hist'.mine = Append(hist.mine, t) /\ hist'.restored = r
        /\ hist'.blind = hist.blind /\ hist'.crossed = hist.crossed /\ hist'.stored = hist.stored
    BY <1>1, <1>4, <1>5, <1>6, <2>1 DEF Hists
  <2>3. hist.known \subseteq kk /\ hist.given \subseteq gg
    BY DEF kk, gg
  <2> QED
    BY <1>1, <2>2, <2>3 DEF Grows
<1>8. /\ Append(app.ops, c) \in ComposeSeqs /\ Len(Append(app.ops, c)) = n
      /\ Append(app.ops, c)[n] = c
      /\ \A o \in 1..Len(app.ops) : Append(app.ops, c)[o] = app.ops[o]
  BY <1>1, AppendProperties DEF ComposeSeqs
<1>9. /\ m \in Apps /\ m.ops = Append(app.ops, c) /\ m.open = n /\ m.scr = s /\ m.list = app.list
      /\ m.dev = app.dev /\ m.thaw = app.thaw /\ m.conflict = app.conflict /\ m.gen = app.gen
      /\ m.gens = app.gens
  BY <1>1, <1>2, <1>8 DEF Apps
<1>10. AppOK(F, hist', m)
  <2>1. AppOK(F, hist', app)
    BY <1>1, <1>7, AppMono
  <2>2. ASSUME NEW o \in 1..n PROVE ComposeOK(F, hist', o, m.ops[o])
    <3>1. CASE o = n
      BY <1>8, <1>9, <3>1
    <3>2. CASE o # n
      <4>1. o \in 1..Len(app.ops)
        BY <1>1, <3>2
      <4> QED
        BY <1>8, <1>9, <2>1, <4>1 DEF AppOK, ComposesOK
    <3> QED
      BY <3>1, <3>2
  <2>3. ComposesOK(F, hist', m.ops)
    BY <1>8, <1>9, <2>2 DEF ComposesOK
  <2>4. m.open \in 0..Len(m.ops)
    BY <1>2, <1>8, <1>9
  <2> QED
    BY <1>2, <1>9, <2>1, <2>3, <2>4 DEF AppOK, ScreenOK
<1>11. AppOK(F, hist', app') /\ Shown(m, app')
  BY <1>1, <1>10, RenderedOK
<1>12. /\ app'.open = n /\ Len(app'.ops) = n /\ app'.gen = app.gen /\ app'.gens = app.gens
       /\ \/ app'.scr # None /\ app'.scr.text = s.text /\ app'.dev.scr.text = s.text
          \/ app'.scr = None /\ app'.dev = None /\ n \in Discarded(app')
  BY <1>2, <1>8, <1>9, <1>11 DEF Shown, SameTab
<1>13. Discarded(app) \subseteq Discarded(app')
  <2>1. Discarded(app) \subseteq Discarded(m)
    BY <1>1, <1>8, <1>9 DEF Discarded
  <2> QED
    BY <1>11, <2>1 DEF Shown
<1>14. ASSUME NEW o \in 1..Len(app.ops) PROVE Safe(app', jobs, hist', o)
  <2>1. Safe(app, jobs, hist, o) /\ hist'.mine[o] = hist.mine[o]
    BY <1>1, <1>6, <1>7 DEF TextsOK
  <2>2. CASE hist.mine[o] = 0 \/ o \in hist.given \/ o \in Discarded(app) \/ hist.mine[o] \in hist.stored
    BY <1>7, <1>13, <2>1, <2>2 DEF Safe, Grows
  <2>3. CASE app.open = o
    <3>1. o \in gg
      BY <2>3
    <3> QED
      BY <1>7, <3>1 DEF Safe
  <2>4. CASE Copied(app, hist.mine[o])
    <3>1. o \in gg
      BY <2>4, CopyOfOK
    <3> QED
      BY <1>7, <3>1 DEF Safe
  <2>5. CASE Flushes(jobs, o, hist.mine[o])
    BY <2>1, <2>5 DEF Safe
  <2> QED
    BY <2>1, <2>2, <2>3, <2>4, <2>5 DEF Safe
<1>15. Safe(app', jobs, hist', n)
  <2>1. hist'.mine[n] = t
    BY <1>6, <1>7
  <2>2. t = 0 \/ t = s.text
    OBVIOUS
  <2> QED
    BY <1>12, <2>1, <2>2 DEF Safe, Shows
<1>16. Alone(app', hist')
  <2> SUFFICES ASSUME NEW o \in 1..n, o # n, hist'.mine[o] # 0, Shows(app', hist'.mine[o])
               PROVE  hist'.mine[o] \in hist'.stored \/ o \in hist'.given
    BY <1>12 DEF Alone
  <2>1. o \in 1..Len(app.ops)
    BY <1>1
  <2>2. hist'.mine[o] = hist.mine[o] /\ hist.mine[o] \in 0..used.texts /\ used.texts <= cast.texts
    BY <1>1, <1>6, <1>7, <2>1 DEF TextsOK
  <2>3. hist.mine[o] = s.text
    BY <1>12, <2>2 DEF Shows
  <2>4. s.text \in 1..cast.texts
    <3>1. \A x, u, c0 \in Nat : x \in 0..u /\ u <= c0 /\ x # 0 => x \in 1..c0
      OBVIOUS
    <3>2. s.text \in 0..used.texts /\ s.text # 0 /\ used.texts <= cast.texts
      BY <2>2, <2>3
    <3> QED
      BY <1>1, <1>2, <3>1, <3>2
  <2>5. CASE Copied(app, s.text)
    <3>1. o \in gg
      BY <2>1, <2>3, <2>5, CopyOfOK
    <3> QED
      BY <1>7, <3>1
  <2>6. CASE s.text \in hist.stored
    BY <1>7, <2>2, <2>3, <2>6 DEF Grows
  <2> QED
    BY <2>2, <2>3, <2>4, <2>5, <2>6 DEF Apart
<1>17. TextsOK(cast, app', jobs', used', hist')
  <2>1. InStep(app')
    BY <1>12 DEF InStep
  <2>2. ASSUME NEW o \in 1..n PROVE hist'.mine[o] \in 0..used.texts /\ Safe(app', jobs, hist', o)
    <3>1. CASE o = n
      BY <1>3, <1>6, <1>7, <1>15, <3>1
    <3>2. CASE o # n
      <4>1. o \in 1..Len(app.ops)
        BY <1>1, <3>2
      <4>2. hist.mine[o] \in 0..used.texts
        BY <1>1, <4>1 DEF TextsOK
      <4> QED
        BY <1>6, <1>7, <1>14, <4>1, <4>2
    <3> QED
      BY <3>1, <3>2
  <2>3. used.texts <= cast.texts /\ Len(hist'.mine) = n /\ hist'.typed \subseteq 1..used.texts
    BY <1>1, <1>6, <1>7 DEF TextsOK
  <2> QED
    BY <1>12, <1>16, <2>1, <2>2, <2>3 DEF TextsOK
<1>18. JobsOK(F, hist', app'.gen, Len(app'.ops), jobs')
  <2>1. Len(app.ops) <= n
    BY <1>1
  <2>2. JobsOK(F, hist', app.gen, n, jobs)
    BY <1>1, <1>2, <1>7, <2>1, Facts, JobsMono
  <2> QED
    BY <1>12, <2>2
<1>19. /\ rows' \in [Keys -> Handles] /\ RowsOK(F, cast, rows', hist')
  BY <1>7, SameVault
<1>20. app'.gens \subseteq {app'.gen} /\ used' \in Bounds
  BY <1>1, <1>12
<1> QED
  BY <1>1, <1>7, <1>11, <1>17, <1>18, <1>19, <1>20, Assemble

-----------------------------------------------------------------------------
(* The list, and the records, under the steps that leave the screen alone. *)

\* A job of the list's, a settling or a follow goes on.
LEMMA IdleOK ==
  ASSUME NEW F, NEW h, NEW g, NEW n, NEW j, JobOK(F, h, g, n, j), NEW k \in Works,
         k.kind = j.kind, k.o = j.o, k.gen = j.gen, k.key = j.key, ListOK(F, k.list),
         k.kind \in {"abandon", "drop", "settle", "follow"},
         k.pc \notin {"mint", "create", "minted", "write", "claim"}, k.pc = "answer" => k.res # "ok"
  PROVE  JobOK(F, h, g, n, k)
  BY DEF JobOK, Writers

\* One entry of the tab's list.
WithEntry(a, k, x) == [a EXCEPT !.list[k] = x]

LEMMA SetEntry ==
  ASSUME NEW F, NEW h, NEW a, AppOK(F, h, a), NEW k, NEW x, Held(F, k, x),
         NEW b, b = WithEntry(a, k, x)
  PROVE  /\ AppOK(F, h, b) /\ Alike(a, b)
         /\ b.gen = a.gen /\ b.gens = a.gens
         /\ b.scr = a.scr /\ b.dev = a.dev /\ b.ops = a.ops /\ b.open = a.open
<1>1. a \in Apps /\ a.list \in Lists /\ ListOK(F, a.list)
  BY AppFields DEF AppOK
<1>2. PICK l : l = [a.list EXCEPT ![k] = x]
  OBVIOUS
<1>3. l \in Lists /\ ListOK(F, l)
  BY <1>1, <1>2, ListSet DEF Held
<1>4. b = [a EXCEPT !.list = l]
  BY <1>2 DEF WithEntry
<1> QED
  BY <1>3, <1>4, SetList

\* j's answer goes to the list, and j is over.
LEMMA EntryEnds ==
  ASSUME NEW F, Now(F), cast' = cast, rows' = rows, used' = used, hist' = hist,
         NEW j \in jobs, j.kind # "flush", isCurrent(j), End(j),
         NEW k, NEW x, Held(F, k, x), app' = Rendered(Say(j, [app EXCEPT !.list[k] = x]), FALSE)
  PROVE  Now(F)'
<1>1. PICK b : b = WithEntry(app, k, x)
  OBVIOUS
<1>2. AppOK(F, hist, b) /\ Alike(app, b) /\ b.gen = app.gen /\ b.gens \subseteq {app.gen}
  <2>1. AppOK(F, hist, app) /\ app.gens \subseteq {app.gen}
    BY AppStays
  <2>2. AppOK(F, hist, b) /\ Alike(app, b) /\ b.gen = app.gen /\ b.gens = app.gens
    BY <1>1, <2>1, SetEntry
  <2> QED
    BY <2>1, <2>2
<1>3. PICK m : m = Say(j, b)
  OBVIOUS
<1>4. AppOK(F, hist, m) /\ Alike(app, m) /\ m.gen = app.gen /\ m.gens \subseteq {app.gen}
  BY <1>2, <1>3, SayMove
<1>5. Moves(m)
  BY <1>1, <1>3 DEF Moves, WithEntry
<1> QED
  BY <1>4, <1>5, EndMove

\* A record changed that no opening of this tab wrote.
LEMMA PutOther ==
  ASSUME NEW F, Now(F), cast' = cast, app' = app, hist' = hist,
         NEW k \in Keys, NEW t \in Nat, NEW st \in States \ {"none"}, Put(k, t, st),
         Fits(cast, rows, hist, k, t), used' \in Bounds, used'.texts = used.texts,
         JobsOK(F, hist, app.gen, Len(app.ops), jobs'), Flushing(app, hist, hist, jobs, jobs')
  PROVE  \E G : Now(G)'
<1>1. /\ hist' \in Hists /\ Grows(hist, hist') /\ hist'.mine = hist.mine
      /\ hist'.typed = hist.typed /\ hist'.blind \subseteq hist'.crossed
      /\ used.texts \in Nat /\ used.texts <= used'.texts /\ used'.texts <= cast.texts
  BY Facts DEF Grows, TextsOK
<1>2. PICK n : n = rows[k].v + 1
  OBVIOUS
<1>3. PICK G : G = Logged(F, k, n, t)
  OBVIOUS
<1>4. F \subseteq G
  BY <1>3 DEF Logged
<1>5. rows' \in [Keys -> Handles] /\ Log(G) /\ RowsOK(G, cast, rows', hist')
  BY <1>1, <1>2, <1>3, PutStep
<1>6. AppOK(G, hist', app') /\ Calm(app, app') /\ app'.gens \subseteq {app.gen}
  <2>1. AppOK(F, hist, app) /\ Alike(app, app) /\ InStep(app) /\ app.gens \subseteq {app.gen}
    BY AppStays, Facts
  <2> QED
    BY <1>1, <1>4, <2>1, AppMono, AlikeCalm
<1>7. JobsOK(G, hist', app.gen, Len(app.ops), jobs')
  <2>1. Len(app.ops) \in Nat /\ Len(app.ops) <= Len(app.ops)
    BY Facts
  <2> QED
    BY <1>1, <1>4, <2>1, JobsMono
<1>8. Now(G)'
  BY <1>1, <1>5, <1>6, <1>7, CalmStep
<1> QED
  BY <1>8

LEMMA SettleStep ==
  ASSUME NEW F, Now(F), NEW j \in jobs, Settle(j) PROVE \E G : Now(G)'
<1>1. /\ j.kind = "settle" /\ j.pc = "run" /\ cast' = cast /\ app' = app /\ used' = used
      /\ hist' = hist
  BY DEF Settle
<1>2. PICK st \in {"gone", "sending", "live", "unsure"} :
        /\ IF st # "sending" /\ rows[j.key].v = j.v THEN Put(j.key, rows[j.key].text, st)
           ELSE UNCHANGED rows
        /\ \/ \E pc \in {"over", "list"} : Become(j, [j EXCEPT !.pc = pc])
           \/ st = "sending" /\ End(j)
  BY DEF Settle
<1>3. /\ JobOK(F, hist, app.gen, Len(app.ops), j) /\ j \in Works /\ j.key \in Keys
      /\ ListOK(F, j.list)
  BY <1>1, JobFacts DEF Writers
<1>4. CASE st = "sending" /\ End(j)
  BY <1>1, <1>2, <1>4, EndStep
<1>5. CASE \E pc \in {"over", "list"} : Become(j, [j EXCEPT !.pc = pc])
  <2>1. PICK pc \in {"over", "list"} : Become(j, [j EXCEPT !.pc = pc])
    BY <1>5
  <2>2. PICK k : k = [j EXCEPT !.pc = pc]
    OBVIOUS
  <2>3. /\ k \in Works /\ k.kind = j.kind /\ k.o = j.o /\ k.gen = j.gen /\ k.key = j.key
        /\ k.list = j.list /\ k.pc \in {"over", "list"}
    BY <1>3, <2>2 DEF Works
  <2>4. JobOK(F, hist, app.gen, Len(app.ops), k)
    BY <1>1, <1>3, <2>3, IdleOK
  <2>5. Become(j, k)
    BY <2>1, <2>2
  <2>6. CASE rows' = rows
    BY <1>1, <2>3, <2>4, <2>5, <2>6, BecomeStep
  <2>7. CASE Put(j.key, rows[j.key].text, st)
    <3>1. rows[j.key].text \in Nat /\ st \in States \ {"none"}
      BY <1>3, RowFacts DEF States
    <3>2. Fits(cast, rows, hist, j.key, rows[j.key].text)
      BY DEF Fits
    <3>3. Grows(hist, hist)
      BY DEF Grows
    <3>4. JobsOK(F, hist, app.gen, Len(app.ops), jobs')
      BY <2>4, <2>5, <3>3, BecomeOK
    <3>5. Flushing(app, hist, hist, jobs, jobs')
      BY <1>1, <2>5, FlushingKept DEF Become
    <3>6. used' \in Bounds /\ used'.texts = used.texts
      BY <1>1, AppStays
    <3> QED
      BY <1>1, <1>3, <2>7, <3>1, <3>2, <3>4, <3>5, <3>6, PutOther
  <2> QED
    BY <1>2, <2>6, <2>7
<1> QED
  BY <1>2, <1>4, <1>5

LEMMA dropSentStep ==
  ASSUME NEW F, Now(F), NEW j \in jobs, dropSent(j) PROVE \E G : Now(G)'
<1>1. /\ j.kind = "settle" /\ cast' = cast /\ rows' = rows /\ used' = used /\ hist' = hist
      /\ End(j)
  BY DEF dropSent
<1>2. CASE isCurrent(j)
  <2>1. PICK x : x = None
    OBVIOUS
  <2>2. Held(F, j.key, x)
    BY <1>1, <2>1, JobFacts DEF Held, Writers
  <2>3. app' = Rendered(Say(j, [app EXCEPT !.list[j.key] = x]), FALSE)
    BY <1>2, <2>1 DEF dropSent
  <2> QED
    BY <1>1, <1>2, <2>2, <2>3, EntryEnds
<1>3. CASE ~isCurrent(j)
  <2>1. app' = app
    BY <1>3 DEF dropSent
  <2> QED
    BY <1>1, <2>1, EndStep
<1> QED
  BY <1>2, <1>3

LEMMA FollowStep ==
  ASSUME NEW F, Now(F), Follow PROVE \E G : Now(G)'
<1>1. /\ Frozen(app) /\ cast' = cast /\ rows' = rows /\ used' = used /\ hist' = hist
      /\ app' = app
  BY DEF Follow
<1>2. PICK i : i = Job("follow", 0, app)
  OBVIOUS
<1>3. PICK k : k = [i EXCEPT !.key = app.scr.key, !.pc = "read"]
  OBVIOUS
<1>4. NoList \in Lists /\ ListOK(F, NoList) /\ app.gen \in Nat /\ app \in Apps
  BY NoListOK, Facts
<1>5. app.scr.key \in Keys
  BY <1>1, <1>4, HandleType DEF Frozen
<1>6. i \in Works /\ i.kind = "follow" /\ i.o = 0 /\ i.gen = app.gen /\ i.list = NoList
  BY <1>2, <1>4 DEF Job, Works, KeyOrNot
<1>7. /\ k \in Works /\ k.kind = "follow" /\ k.o = 0 /\ k.gen = app.gen /\ k.list = NoList
      /\ k.key \in Keys /\ k.pc = "read"
  BY <1>3, <1>5, <1>6 DEF Works, KeyOrNot
<1>8. JobOK(F, hist, app.gen, Len(app.ops), k)
  <2>1. 0 \in 0..Len(app.ops) /\ app.gen <= app.gen
    BY Facts
  <2> QED
    BY <1>4, <1>7, <2>1 DEF JobOK, Writers
<1>9. jobs' = jobs \cup {k}
  BY <1>2, <1>3 DEF Follow
<1> QED
  BY <1>1, <1>8, <1>9, AppStays, AddMove

LEMMA readDraftHandleStep ==
  ASSUME NEW F, Now(F), NEW j \in jobs, readDraftHandle(j) PROVE \E G : Now(G)'
<1>1. /\ j.kind = "follow" /\ cast' = cast /\ rows' = rows /\ used' = used /\ app' = app
      /\ hist' = hist
  BY DEF readDraftHandle
<1>2. JobOK(F, hist, app.gen, Len(app.ops), j) /\ j \in Works
  BY JobFacts
<1>3. PICK l : l = Live
  OBVIOUS
<1>4. l \in Lists /\ ListOK(F, l)
  BY <1>3, LiveOK
<1>5. PICK k : k = [j EXCEPT !.pc = "fresh", !.list = l]
  OBVIOUS
<1>6. /\ k \in Works /\ k.kind = j.kind /\ k.o = j.o /\ k.pc = "fresh" /\ k.gen = j.gen
      /\ k.key = j.key /\ k.list = l
  BY <1>2, <1>4, <1>5 DEF Works
<1>7. JobOK(F, hist, app.gen, Len(app.ops), k)
  BY <1>1, <1>2, <1>4, <1>6, IdleOK
<1>8. Become(j, k)
  BY <1>3, <1>5 DEF readDraftHandle
<1> QED
  BY <1>1, <1>6, <1>7, <1>8, BecomeStep

LEMMA FollowedStep ==
  ASSUME NEW F, Now(F), NEW j \in jobs, Followed(j) PROVE \E G : Now(G)'
<1>1. /\ j.kind = "follow" /\ cast' = cast /\ rows' = rows /\ used' = used /\ hist' = hist
      /\ End(j)
  BY DEF Followed
<1>2. CASE isCurrent(j)
  <2> DEFINE h == app.list[j.key]
             fresh == j.list[j.key]
  <2>1. PICK x : x = IF h = None \/ fresh = None THEN None ELSE IF h.v > fresh.v THEN h ELSE fresh
    OBVIOUS
  <2>2. j.key \in Keys /\ j.list \in Lists /\ ListOK(F, j.list)
    BY <1>1, JobFacts DEF Writers
  <2>3. app.list \in Lists /\ ListOK(F, app.list)
    BY Facts, AppFields DEF AppOK
  <2>4. /\ h = None \/ Held(F, j.key, h)
        /\ fresh = None \/ Held(F, j.key, fresh)
        /\ Held(F, j.key, None)
    BY <2>2, <2>3 DEF Held, Lists, ListOK
  <2>5. x = None \/ (x = h /\ h # None) \/ (x = fresh /\ fresh # None)
    BY <2>1
  <2>6. app' = Rendered(Say(j, [app EXCEPT !.list[j.key] = x]), FALSE)
    BY <1>2, <2>1 DEF Followed
  <2> HIDE DEF h, fresh
  <2>7. Held(F, j.key, x)
    BY <2>4, <2>5
  <2> QED
    BY <1>1, <1>2, <2>6, <2>7, EntryEnds
<1>3. CASE ~isCurrent(j)
  <2>1. app' = app
    BY <1>3 DEF Followed
  <2> QED
    BY <1>1, <2>1, EndStep
<1> QED
  BY <1>2, <1>3

LEMMA deleteDraftStep ==
  ASSUME NEW F, Now(F), NEW j \in jobs, deleteDraft(j) PROVE \E G : Now(G)'
<1>1. j.kind \in {"drop", "abandon"} /\ cast' = cast /\ app' = app /\ hist' = hist
  BY DEF deleteDraft
<1>2. /\ JobOK(F, hist, app.gen, Len(app.ops), j) /\ j \in Works /\ j.key \in Keys
      /\ ListOK(F, j.list)
  BY <1>1, JobFacts DEF Writers
<1>3. \/ End(j) /\ rows' = rows /\ used' = used
      \/ /\ used' = used \/ Fault
         /\ rows' = rows \/ Put(j.key, rows[j.key].text, "gone")
         /\ \E r \in {"absent", "sending", "conflict", "deleted", "refused", "offline"} :
              Become(j, [j EXCEPT !.pc = "answer", !.res = r])
  <2>1. Deletable(j.key, j.v) \in {"absent", "sending", "conflict", "deleted"}
    BY DEF Deletable
  <2> QED
    BY <2>1 DEF deleteDraft
<1>4. CASE End(j) /\ rows' = rows /\ used' = used
  BY <1>1, <1>4, EndStep
<1>5. CASE /\ used' = used \/ Fault
           /\ rows' = rows \/ Put(j.key, rows[j.key].text, "gone")
           /\ \E r \in {"absent", "sending", "conflict", "deleted", "refused", "offline"} :
                Become(j, [j EXCEPT !.pc = "answer", !.res = r])
  <2>1. PICK r \in {"absent", "sending", "conflict", "deleted", "refused", "offline"} :
          Become(j, [j EXCEPT !.pc = "answer", !.res = r])
    BY <1>5
  <2>2. PICK k : k = [j EXCEPT !.pc = "answer", !.res = r]
    OBVIOUS
  <2>3. /\ k \in Works /\ k.kind = j.kind /\ k.o = j.o /\ k.gen = j.gen /\ k.key = j.key
        /\ k.list = j.list /\ k.pc = "answer" /\ k.res # "ok"
    BY <1>2, <2>2 DEF Works
  <2>4. JobOK(F, hist, app.gen, Len(app.ops), k)
    BY <1>1, <1>2, <2>3, IdleOK
  <2>5. Become(j, k) /\ Grows(hist, hist)
    BY <2>1, <2>2 DEF Grows
  <2>6. JobsOK(F, hist, app.gen, Len(app.ops), jobs')
    BY <2>4, <2>5, BecomeOK
  <2>7. Flushing(app, hist, hist, jobs, jobs')
    BY <1>1, <2>5, FlushingKept DEF Become
  <2>8. used' \in Bounds /\ used'.texts = used.texts
    BY <1>5, FaultOK
  <2>9. CASE rows' = rows
    BY <1>1, <2>6, <2>7, <2>8, <2>9, AppStays, SameHist, Facts, MoveStep
  <2>10. CASE Put(j.key, rows[j.key].text, "gone")
    <3>1. PICK st : st = "gone"
      OBVIOUS
    <3>2. rows[j.key].text \in Nat /\ st \in States \ {"none"}
      BY <1>2, <3>1, RowFacts DEF States
    <3>3. Fits(cast, rows, hist, j.key, rows[j.key].text) /\ Put(j.key, rows[j.key].text, st)
      BY <2>10, <3>1 DEF Fits
    <3> QED
      BY <1>1, <1>2, <2>6, <2>7, <2>8, <3>2, <3>3, PutOther
  <2> QED
    BY <1>5, <2>9, <2>10
<1> QED
  BY <1>3, <1>4, <1>5

LEMMA DropEndsStep ==
  ASSUME NEW F, Now(F), NEW j \in jobs, DropEnds(j) PROVE \E G : Now(G)'
<1>1. /\ j.kind \in {"drop", "abandon"} /\ cast' = cast /\ rows' = rows /\ used' = used
      /\ hist' = hist
  BY DEF DropEnds
<1>2. /\ JobOK(F, hist, app.gen, Len(app.ops), j) /\ j \in Works /\ j.key \in Keys
      /\ ListOK(F, j.list) /\ j.list \in Lists
  BY <1>1, JobFacts DEF Writers
<1>3. CASE End(j) /\ app' = app
  BY <1>1, <1>3, EndStep
<1>4. CASE Become(j, [j EXCEPT !.pc = "reread"]) /\ app' = app
  <2>1. PICK k : k = [j EXCEPT !.pc = "reread"]
    OBVIOUS
  <2>2. /\ k \in Works /\ k.kind = j.kind /\ k.o = j.o /\ k.gen = j.gen /\ k.key = j.key
        /\ k.list = j.list /\ k.pc = "reread"
    BY <1>2, <2>1 DEF Works
  <2>3. JobOK(F, hist, app.gen, Len(app.ops), k)
    BY <1>1, <1>2, <2>2, IdleOK
  <2>4. Become(j, k)
    BY <1>4, <2>1
  <2> QED
    BY <1>1, <1>4, <2>2, <2>3, <2>4, BecomeStep
<1> DEFINE h == app.list[j.key]
           Ends(x) == /\ isCurrent(j) /\ End(j)
                      /\ app' = Rendered(Say(j, [app EXCEPT !.list[j.key] = x]), FALSE)
<1>5. ASSUME NEW x, x = None \/ x = (IF h = None THEN j.list[j.key] ELSE h), Ends(x)
      PROVE  \E G : Now(G)'
  <2>1. app.list \in Lists /\ ListOK(F, app.list)
    BY Facts, AppFields DEF AppOK
  <2>2. Held(F, j.key, None) /\ Held(F, j.key, h) /\ Held(F, j.key, j.list[j.key])
    BY <1>2, <2>1 DEF Held, Lists, ListOK
  <2>3. Held(F, j.key, x)
    BY <1>5, <2>2
  <2> QED
    BY <1>1, <1>5, <2>3, EntryEnds
<1>6. \/ End(j) /\ app' = app
      \/ Become(j, [j EXCEPT !.pc = "reread"]) /\ app' = app
      \/ Ends(None)
      \/ Ends(IF h = None THEN j.list[j.key] ELSE h)
  BY DEF DropEnds
<1> HIDE DEF Ends, h
<1> QED
  BY <1>3, <1>4, <1>5, <1>6

LEMMA DiscardOwnStep ==
  ASSUME NEW F, Now(F), NEW j \in jobs, DiscardOwn(j) PROVE \E G : Now(G)'
<1>1. /\ j.kind = "drop" /\ cast' = cast /\ rows' = rows /\ used' = used /\ hist' = hist
      /\ app' = app
  BY DEF DiscardOwn
<1>2. /\ JobOK(F, hist, app.gen, Len(app.ops), j) /\ j \in Works /\ j.key \in Keys
      /\ ListOK(F, j.list) /\ j.list \in Lists
  BY <1>1, JobFacts DEF Writers
<1>3. PICK k : k \in {[j EXCEPT !.pc = "again", !.v = rows[j.key].v],
                      [j EXCEPT !.pc = "answer", !.res = "refused"]} /\ Become(j, k)
  BY DEF DiscardOwn
<1>4. rows[j.key].v \in Nat
  BY <1>2, RowFacts
<1>5. /\ k \in Works /\ k.kind = j.kind /\ k.o = j.o /\ k.gen = j.gen /\ k.key = j.key
      /\ k.list = j.list /\ (k.pc = "again" \/ (k.pc = "answer" /\ k.res = "refused"))
  BY <1>2, <1>3, <1>4 DEF Works
<1>6. JobOK(F, hist, app.gen, Len(app.ops), k)
  BY <1>1, <1>2, <1>5, IdleOK
<1> QED
  BY <1>1, <1>3, <1>5, <1>6, BecomeStep

\* A drop that starts holds the list as it was.
LEMMA DropOK ==
  ASSUME NEW F, Now(F), NEW h, NEW n, NEW j \in Works, j.kind = "drop", j.pc = "start",
         j.o \in 0..n, j.gen = app.gen, j.key \in Keys, j.list = app.list
  PROVE  JobOK(F, h, app.gen, n, j)
<1>1. ListOK(F, app.list) /\ app.gen <= app.gen
  BY Facts DEF AppOK
<1> QED
  BY <1>1 DEF JobOK, Writers

LEMMA removeDraftStep ==
  ASSUME NEW F, Now(F), NEW i \in Keys, removeDraft(i) PROVE \E G : Now(G)'
<1>1. /\ app.list[i] # None /\ cast' = cast /\ rows' = rows /\ used' = used /\ hist' = hist
      /\ app.list \in Lists
  BY Facts, AppFields DEF removeDraft
<1>2. app.list[i].v \in Nat /\ 0 \in 0..Len(app.ops) /\ app.gen \in Nat
  BY <1>1, Facts DEF Lists, Handles
<1> DEFINE j == [Job("drop", 0, app) EXCEPT !.key = i, !.v = app.list[i].v]
<1>3. app' = Rendered([app EXCEPT !.list[j.key] = None], FALSE)
      /\ jobs' = jobs \cup {[j EXCEPT !.list = app.list]}
  BY DEF removeDraft, Dropping
<1>4. PICK q : q = Job("drop", 0, app)
  OBVIOUS
<1>5. PICK k : k = [q EXCEPT !.key = i, !.v = app.list[i].v, !.list = app.list]
  OBVIOUS
<1>6. /\ q \in Works /\ q.kind = "drop" /\ q.o = 0 /\ q.gen = app.gen /\ q.pc = "start"
  BY <1>2, <1>4, NoListOK DEF Job, Works, KeyOrNot
<1>7. JobOK(F, hist, app.gen, Len(app.ops), k) /\ j.key = i
  <2>1. /\ k \in Works /\ k.kind = "drop" /\ k.o = 0 /\ k.gen = app.gen /\ k.pc = "start"
        /\ k.key = i /\ k.list = app.list
    BY <1>1, <1>2, <1>5, <1>6 DEF Works, KeyOrNot
  <2>2. JobOK(F, hist, app.gen, Len(app.ops), k)
    BY <1>2, <2>1, DropOK
  <2>3. j.key = i
    BY <1>4, <1>6 DEF Works
  <2> QED
    BY <2>2, <2>3
<1>8. PICK m : m = WithEntry(app, i, None)
  OBVIOUS
<1>9. Held(F, i, None)
  BY DEF Held
<1>10. AppOK(F, hist, m) /\ Alike(app, m) /\ m.gen = app.gen /\ m.gens \subseteq {app.gen}
  <2>1. AppOK(F, hist, app) /\ app.gens \subseteq {app.gen}
    BY AppStays
  <2>2. AppOK(F, hist, m) /\ Alike(app, m) /\ m.gen = app.gen /\ m.gens = app.gens
    BY <1>8, <1>9, <2>1, SetEntry
  <2> QED
    BY <2>1, <2>2
<1>11. Moves(m) /\ jobs' = jobs \cup {k}
  <2>1. k = [j EXCEPT !.list = app.list]
    BY <1>4, <1>5
  <2> HIDE DEF j
  <2> QED
    BY <1>3, <1>7, <1>8, <2>1 DEF Moves, WithEntry
<1> QED
  BY <1>1, <1>7, <1>10, <1>11, AppStays, AddMove

LEMMA writeDraftStep ==
  ASSUME NEW F, Now(F), NEW i \in Keys, writeDraft(i) PROVE \E G : Now(G)'
<1>1. /\ app.list[i] # None /\ cast' = cast /\ rows' = rows /\ app' = app
      /\ used.texts < cast.texts /\ used' = [used EXCEPT !.texts = @ + 1]
      /\ hist' = [hist EXCEPT !.known = @ \cup {<<0, app.list[i].text>>}]
      /\ app.list \in Lists /\ ListOK(F, app.list)
  BY Facts, AppFields DEF writeDraft, AppOK
<1>2. /\ app.list[i].v \in Nat /\ app.list[i].text \in Nat /\ app.gen \in Nat
      /\ <<i, app.list[i].v, app.list[i].text>> \in F
  BY <1>1, Facts DEF Lists, Handles, ListOK
<1>3. PICK v : v = app.list[i].v
  OBVIOUS
<1>4. PICK t : t = app.list[i].text
  OBVIOUS
<1>5. PICK u : u = used.texts + 1
  OBVIOUS
<1>6. /\ u \in Nat /\ used.texts <= u /\ u <= cast.texts
      /\ used' \in Bounds /\ used'.texts = u
  BY <1>1, <1>5, Facts DEF Bounds
<1>7. /\ hist' \in Hists /\ Grows(hist, hist') /\ hist'.mine = hist.mine
      /\ hist'.typed = hist.typed /\ hist'.blind \subseteq hist'.crossed
      /\ <<0, t>> \in hist'.known
  <2>1. hist \in Hists /\ hist.blind \subseteq hist.crossed /\ t \in Nat
    BY <1>2, <1>4, Facts
  <2>2. PICK s : s = hist.known \cup {<<0, t>>}
    OBVIOUS
  <2>3. s \in SUBSET (Nat \X Nat) /\ hist.known \subseteq s /\ <<0, t>> \in s
    BY <2>1, <2>2 DEF Hists
  <2>4. hist' = [hist EXCEPT !.known = s]
    BY <1>1, <1>4, <2>2
  <2> QED
    BY <2>1, <2>3, <2>4 DEF Hists, Grows
<1>8. PICK q : q = Job("agent", 0, app)
  OBVIOUS
<1>9. /\ q \in Works /\ q.kind = "agent" /\ q.o = 0 /\ q.gen = app.gen /\ q.list = NoList
      /\ q.res = ""
  BY <1>2, <1>8, NoListOK DEF Job, Works, KeyOrNot
<1>10. PICK k : k = [q EXCEPT !.key = i, !.v = v, !.pc = "write", !.text = u]
  OBVIOUS
<1>11. /\ k \in Works /\ k.kind = "agent" /\ k.o = 0 /\ k.gen = app.gen /\ k.list = NoList
       /\ k.key = i /\ k.v = v /\ k.pc = "write"
  BY <1>2, <1>3, <1>6, <1>9, <1>10 DEF Works, KeyOrNot
<1>12. Knows(F, hist', 0, i, v)
  BY <1>2, <1>3, <1>4, <1>7 DEF Knows, KnowsText
<1>13. JobOK(F, hist', app.gen, Len(app.ops), k)
  <2>1. 0 \in 0..Len(app.ops) /\ app.gen <= app.gen
    BY Facts
  <2> QED
    BY <1>11, <1>12, <2>1, NoListOK DEF JobOK, Writers
<1>14. jobs' = jobs \cup {k}
  BY <1>3, <1>5, <1>8, <1>10 DEF writeDraft
<1>15. JobsOK(F, hist', app.gen, Len(app.ops), jobs')
  <2>1. Len(app.ops) \in Nat /\ Len(app.ops) <= Len(app.ops)
    BY Facts
  <2>2. JobsOK(F, hist', app.gen, Len(app.ops), jobs)
    BY <1>7, <2>1, JobsMono, Facts
  <2> QED
    BY <1>13, <1>14, <2>2, JobsSet
<1>16. Flushing(app, hist, hist', jobs, jobs')
  BY <1>14, FlushingKept
<1>17. rows' \in [Keys -> Handles] /\ Log(F) /\ RowsOK(F, cast, rows', hist')
  BY <1>1, <1>7, SameVault
<1>18. AppOK(F, hist', app') /\ Calm(app, app') /\ app'.gens \subseteq {app.gen} /\ app'.gen = app.gen
  <2>1. AppOK(F, hist, app) /\ Alike(app, app) /\ InStep(app) /\ app.gens \subseteq {app.gen}
    BY AppStays, Facts
  <2> QED
    BY <1>1, <1>7, <2>1, AppMono, AlikeCalm
<1> QED
  BY <1>1, <1>6, <1>7, <1>15, <1>16, <1>17, <1>18, CalmStep

LEMMA WriteDraftEndsStep ==
  ASSUME NEW F, Now(F), NEW j \in jobs, WriteDraftEnds(j) PROVE \E G : Now(G)'
<1>1. /\ j.kind = "agent" /\ cast' = cast /\ rows' = rows /\ used' = used /\ hist' = hist
      /\ app' = app
  BY DEF WriteDraftEnds
<1>2. CASE End(j)
  BY <1>1, <1>2, EndStep
<1>3. CASE Become(j, [j EXCEPT !.pc = "list"])
  <2>1. JobOK(F, hist, app.gen, Len(app.ops), j) /\ j \in Works
    BY JobFacts
  <2>2. PICK k : k = [j EXCEPT !.pc = "list"]
    OBVIOUS
  <2>3. /\ k \in Works /\ k.kind = j.kind /\ k.o = j.o /\ k.pc = "list" /\ k.gen = j.gen
        /\ k.key = j.key /\ k.list = j.list
    BY <2>1, <2>2 DEF Works
  <2>4. JobOK(F, hist, app.gen, Len(app.ops), k)
    BY <1>1, <2>1, <2>3 DEF JobOK, Writers
  <2>5. Become(j, k)
    BY <1>3, <2>2
  <2> QED
    BY <1>1, <2>3, <2>4, <2>5, BecomeStep
<1> QED
  BY <1>2, <1>3 DEF WriteDraftEnds

LEMMA UnlockStep ==
  ASSUME NEW F, Now(F), Unlock PROVE \E G : Now(G)'
<1>1. /\ cast' = cast /\ rows' = rows /\ used' = used /\ hist' = hist
      /\ app' = [app EXCEPT !.unlocked = TRUE]
  BY DEF Unlock
<1>2. app' \in Flagged(app, {}) /\ {} \in NatSets
  BY <1>1 DEF Flagged, NatSets
<1>3. AppOK(F, hist, app') /\ Alike(app, app') /\ app'.gen = app.gen /\ app'.gens \subseteq {app.gen}
  BY <1>2, AppStays, SetFlags
<1>4. PICK i : i = Job("load", 0, app)
  OBVIOUS
<1>5. PICK k : k = [i EXCEPT !.pc = "list"]
  OBVIOUS
<1>6. NoList \in Lists /\ ListOK(F, NoList) /\ app.gen \in Nat
  BY NoListOK, Facts
<1>7. i \in Works /\ i.kind = "load" /\ i.o = 0 /\ i.gen = app.gen /\ i.list = NoList
  BY <1>4, <1>6 DEF Job, Works, KeyOrNot
<1>8. /\ k \in Works /\ k.kind = "load" /\ k.o = 0 /\ k.gen = app.gen /\ k.list = NoList
      /\ k.pc = "list"
  BY <1>5, <1>7 DEF Works
<1>9. JobOK(F, hist, app.gen, Len(app.ops), k)
  <2>1. 0 \in 0..Len(app.ops) /\ app.gen <= app.gen
    BY Facts
  <2> QED
    BY <1>6, <1>8, <2>1 DEF JobOK, Writers
<1>10. jobs' = jobs \cup {k}
  BY <1>4, <1>5 DEF Unlock
<1>11. PICK m : m = app'
  OBVIOUS
<1>12. /\ AppOK(F, hist, m) /\ Alike(app, m) /\ m.gen = app.gen /\ m.gens \subseteq {app.gen}
       /\ Moves(m)
  BY <1>3, <1>11 DEF Moves
<1> QED
  BY <1>1, <1>9, <1>10, <1>12, AppStays, AddMove

LEMMA ElsewhereStep ==
  ASSUME NEW F, Now(F), NEW k \in Keys, NEW t, t = rows[k].text \/ t = Foreign,
         NEW st \in States \ {"none"}, Elsewhere(k, t, st)
  PROVE  \E G : Now(G)'
<1>1. /\ cast' = cast /\ app' = app /\ hist' = hist /\ jobs' = jobs /\ Put(k, t, st)
      /\ used' = [used EXCEPT !.others = @ + 1]
  BY DEF Elsewhere
<1>2. used \in Bounds /\ cast.texts \in Nat /\ rows[k].text \in Nat
  BY Facts, RowFacts
<1>3. used' \in Bounds /\ used'.texts = used.texts /\ used.others \in Nat
  BY <1>1, <1>2 DEF Bounds
<1>4. t \in Nat /\ Fits(cast, rows, hist, k, t)
  BY <1>2, <1>3 DEF Foreign, Fits
<1>5. JobsOK(F, hist, app.gen, Len(app.ops), jobs') /\ Flushing(app, hist, hist, jobs, jobs')
  BY <1>1, Facts, FlushingKept
<1> QED
  BY <1>1, <1>3, <1>4, <1>5, PutOther

LEMMA OthersStep ==
  ASSUME NEW F, Now(F), Others PROVE \E G : Now(G)'
<1>1. PICK k \in Keys : OtherEdits(k) \/ OtherDiscards(k) \/ OtherClaims(k) \/ OtherSettles(k)
  BY DEF Others
<1>2. rows[k].st \in States
  BY RowFacts
<1>3. \E t \in {rows[k].text, Foreign}, st \in States \ {"none"} : Elsewhere(k, t, st)
  BY <1>1, <1>2 DEF OtherEdits, OtherDiscards, OtherClaims, OtherSettles, States
<1>4. PICK t \in {rows[k].text, Foreign}, st \in States \ {"none"} : Elsewhere(k, t, st)
  BY <1>3
<1> QED
  BY <1>4, ElsewhereStep

LEMMA RestStep ==
  ASSUME NEW F, Now(F), UNCHANGED vars PROVE \E G : Now(G)'
<1>1. UNCHANGED <<cast, rows, used, app, hist>> /\ jobs' = jobs
  BY DEF vars
<1>2. JobsOK(F, hist, app.gen, Len(app.ops), jobs') /\ Flushing(app, hist, hist, jobs, jobs')
  BY <1>1, Facts, FlushingKept
<1> QED
  BY <1>1, <1>2, WaitStep

-----------------------------------------------------------------------------
(* Opening, typing, and the choice between two versions.                   *)

\* What an opening may have on screen: a new draft, or a version with its text.  A copy
\* restored from the device takes any version.
MayShow(F, i, s, f) ==
  \/ s.key = 0 /\ s.v = 0
  \/ \E t \in Nat : <<s.key, s.v, t>> \in F /\ (t = s.text \/ (f = FALSE /\ i = 0))

LEMMA OpenAsStep ==
  ASSUME NEW F, Now(F), NEW i \in KeyOrNot, NEW s \in Screens, NEW f \in {TRUE, FALSE},
         f = TRUE => s.text = 0, OpenAs(i, s, f), Apart(cast, app, hist, s.text),
         MayShow(F, i, s, f)
  PROVE  \E G : Now(G)'
<1>1. PICK n : n = Len(app.ops) + 1
  OBVIOUS
<1>2. PICK t : t = IF s.text \in hist.typed THEN s.text ELSE 0
  OBVIOUS
<1>3. PICK r : r = IF f = FALSE /\ i = 0 THEN hist.restored \cup {n} ELSE hist.restored
  OBVIOUS
<1>4. hist \in Hists /\ n \in Nat /\ Len(app.ops) \in Nat
  BY <1>1, Facts
<1>5. r \in NatSets /\ hist.restored \subseteq r /\ (f = FALSE /\ i = 0 => n \in r)
  BY <1>3, <1>4 DEF Hists, NatSets
<1>6. hist' = [hist EXCEPT !.known = @ \cup {<<n, s.text>>},
                           !.given = @ \cup CopyOf \cup {o \in {app.open} : o # 0},
                           !.mine = Append(@, t), !.restored = r]
  <2>1. (~f /\ i = 0) <=> (f = FALSE /\ i = 0)
    OBVIOUS
  <2> QED
    BY <1>1, <1>2, <1>3, <2>1 DEF OpenAs
<1>7. <<n, s.text>> \in hist'.known /\ hist'.restored = r
  BY <1>4, <1>6 DEF Hists
<1>8. Names(F, hist', n, s.key, s.v)
  <2>1. CASE s.key = 0 /\ s.v = 0
    BY <2>1 DEF Names
  <2>2. CASE \E u \in Nat : <<s.key, s.v, u>> \in F /\ (u = s.text \/ (f = FALSE /\ i = 0))
    <3>1. PICK u \in Nat : <<s.key, s.v, u>> \in F /\ (u = s.text \/ (f = FALSE /\ i = 0))
      BY <2>2
    <3>2. KnowsText(hist', n, u)
      BY <1>5, <1>7, <3>1 DEF KnowsText
    <3> QED
      BY <3>1, <3>2 DEF Names, Knows
  <2> QED
    BY <2>1, <2>2 DEF MayShow
<1>9. PICK c : c = Opening(i, s, f)
  OBVIOUS
<1>10. c \in Composes /\ ComposeOK(F, hist', n, c)
  <2>1. c = Opening(i, s, FALSE) \/ (c = Opening(i, s, TRUE) /\ s.text = 0)
    BY <1>9
  <2> QED
    BY <2>1, OpeningOK
<1>11. PICK m : m = [app EXCEPT !.ops = Append(@, c), !.open = n, !.scr = s]
  OBVIOUS
<1>12. app' = Rendered(m, TRUE) /\ cast' = cast /\ rows' = rows /\ jobs' = jobs /\ used' = used
  BY <1>1, <1>9, <1>11 DEF OpenAs
<1>13. Now(F)'
  BY <1>1, <1>2, <1>5, <1>6, <1>8, <1>10, <1>11, <1>12, OpenStep
<1> QED
  BY <1>13

LEMMA OpenNewStep ==
  ASSUME NEW F, Now(F), OpenNew PROVE \E G : Now(G)'
<1>1. app \in Apps /\ app.list \in Lists /\ ListOK(F, app.list) /\ CopyOK(F, app.dev)
      /\ app.dev \in Copies \cup {None} /\ 0 \in KeyOrNot
  BY Facts, AppFields DEF AppOK, KeyOrNot
<1>2. CASE OpenAs(0, NoScreen, TRUE)
  <2>1. NoScreen \in Screens /\ NoScreen.key = 0 /\ NoScreen.v = 0 /\ NoScreen.text = 0
    BY DEF NoScreen, Screens, KeyOrNot
  <2>2. Apart(cast, app, hist, NoScreen.text) /\ MayShow(F, 0, NoScreen, TRUE)
    BY <2>1 DEF Apart, MayShow
  <2> QED
    BY <1>1, <1>2, <2>1, <2>2, OpenAsStep
<1>3. CASE app.dev # None /\ app.dev.intent = 0
  <2> DEFINE s == app.dev.scr
             h == IF s.key = 0 THEN None ELSE app.list[s.key]
  <2>1. PICK x : x = IF h = None THEN s ELSE [s EXCEPT !.v = h.v]
    OBVIOUS
  <2>2. OpenAs(0, x, FALSE)
    BY <1>3, <2>1 DEF OpenNew
  <2>3. s \in Screens
    BY <1>1, <1>3 DEF Copies
  <2>4. h # None => /\ s.key \in Keys /\ h \in Handles /\ <<s.key, h.v, h.text>> \in F
                    /\ h.v \in Nat /\ h.text \in Nat
    BY <1>1, <2>3 DEF Screens, KeyOrNot, Lists, ListOK, Handles
  <2>5. \/ s.key = 0 /\ s.v = 0
        \/ \E t \in Nat : <<s.key, s.v, t>> \in F
    BY <1>1, <1>3 DEF CopyOK
  <2>6. s.key = 0 => h = None
    OBVIOUS
  <2>7. Copied(app, s.text)
    BY <1>3 DEF Copied
  <2> HIDE DEF s, h
  <2>8. /\ x \in Screens /\ x.text = s.text /\ x.key = s.key
        /\ x.v = IF h = None THEN s.v ELSE h.v
    BY <2>1, <2>3, <2>4 DEF Screens
  <2>9. MayShow(F, 0, x, FALSE)
    <3>1. CASE h = None
      BY <2>5, <2>8, <3>1 DEF MayShow
    <3>2. CASE h # None
      BY <2>4, <2>8, <3>2 DEF MayShow
    <3> QED
      BY <3>1, <3>2
  <2>10. Apart(cast, app, hist, x.text)
    BY <2>7, <2>8 DEF Apart
  <2> QED
    BY <1>1, <2>2, <2>8, <2>9, <2>10, OpenAsStep
<1> QED
  BY <1>2, <1>3 DEF OpenNew

\* A text under one of the log's ids was stored, or typed by none here.
LEMMA LoggedText ==
  ASSUME NEW F, Now(F), NEW k, NEW v, NEW t, <<k, v, t>> \in F
  PROVE  t \notin 1..cast.texts \/ t \in hist.stored
  BY Facts DEF RowsOK

LEMMA OpenDraftStep ==
  ASSUME NEW F, Now(F), NEW k \in Keys, OpenDraft(k) PROVE \E G : Now(G)'
<1>1. app.list \in Lists /\ ListOK(F, app.list) /\ app.list[k] # None
  BY Facts, AppFields DEF AppOK, OpenDraft
<1>2. app.list[k] \in Handles /\ <<k, app.list[k].v, app.list[k].text>> \in F
  BY <1>1 DEF Lists, ListOK
<1>3. PICK s : s = [key |-> k, v |-> app.list[k].v, text |-> app.list[k].text]
  OBVIOUS
<1>4. /\ s \in Screens /\ s.key = k /\ s.v = app.list[k].v /\ s.text = app.list[k].text
      /\ s.text \in Nat /\ k \in KeyOrNot
  BY <1>2, <1>3 DEF Screens, Handles, KeyOrNot
<1>5. OpenAs(k, s, FALSE)
  BY <1>3 DEF OpenDraft
<1>6. MayShow(F, k, s, FALSE) /\ Apart(cast, app, hist, s.text)
  BY <1>2, <1>4, LoggedText DEF MayShow, Apart
<1> QED
  BY <1>4, <1>5, <1>6, OpenAsStep

\* The text on screen becomes t, and what its opening typed last t or nothing.
Retyped(h, g, a, t, u) ==
  /\ g.mine = [h.mine EXCEPT ![a.open] = u] /\ u \in {0, t}
  /\ \A o \in 1..Len(a.ops) :
       o # a.open => h.mine[o] = 0 \/ h.mine[o] # t \/ h.mine[o] \in h.stored

LEMMA RetypeStep ==
  ASSUME NEW F, Now(F), cast' = cast, rows' = rows, jobs' = jobs, used' \in Bounds,
         used.texts <= used'.texts, used'.texts <= cast.texts, hist' \in Hists,
         Grows(hist, hist'), hist'.blind = hist.blind, hist'.typed \subseteq 1..used'.texts,
         app.open # 0, NEW t \in Nat, NEW u \in Nat, u <= used'.texts,
         Retyped(hist, hist', app, t, u),
         NEW m, AppOK(F, hist', m), m.open = app.open, m.gen = app.gen, m.gens = app.gens,
         Len(m.ops) = Len(app.ops),
         Discarded(app) \subseteq Discarded(m), m.scr # None, m.scr.text = t,
         app' = Rendered(m, TRUE)
  PROVE  Now(F)'
<1>1. /\ app.open \in 1..Len(app.ops) /\ Len(app.ops) \in Nat /\ Log(F) /\ used.texts \in Nat
      /\ cast.texts \in Nat /\ used'.texts \in Nat
      /\ TextsOK(cast, app, jobs, used, hist) /\ app.gens \subseteq {app.gen}
      /\ hist.blind \subseteq hist.crossed
  BY Facts DEF Bounds
<1>2. AppOK(F, hist', app') /\ Shown(m, app')
  BY <1>1, RenderedOK
<1>3. /\ app'.open = app.open /\ Len(app'.ops) = Len(app.ops) /\ app'.gen = app.gen
      /\ app'.gens = app.gens /\ Discarded(app) \subseteq Discarded(app')
      /\ \/ app'.scr # None /\ app'.scr.text = t /\ app'.dev.scr.text = t
         \/ app'.scr = None /\ app'.dev = None /\ app.open \in Discarded(app')
  BY <1>2 DEF Shown, SameTab
<1>4. /\ hist.mine \in Seq(Nat) /\ Len(hist.mine) = Len(app.ops)
      /\ Len(hist'.mine) = Len(app.ops) /\ hist'.mine[app.open] = u
      /\ \A o \in 1..Len(app.ops) : o # app.open => hist'.mine[o] = hist.mine[o]
  <2>1. hist.mine \in Seq(Nat) /\ Len(hist.mine) = Len(app.ops)
    BY <1>1, Facts DEF Hists, TextsOK
  <2>2. hist'.mine = [hist.mine EXCEPT ![app.open] = u]
    BY DEF Retyped
  <2> QED
    BY <1>1, <2>1, <2>2
<1>5. ASSUME NEW o \in 1..Len(app.ops)
      PROVE  hist'.mine[o] \in 0..used'.texts /\ Safe(app', jobs, hist', o)
  <2>1. CASE o = app.open
    <3>1. u = 0 \/ u = t
      BY DEF Retyped
    <3>2. Safe(app', jobs, hist', o)
      BY <1>3, <1>4, <2>1, <3>1 DEF Safe, Shows
    <3>3. u \in 0..used'.texts
      BY <1>1
    <3> QED
      BY <1>4, <2>1, <3>2, <3>3
  <2>2. CASE o # app.open
    <3>1. Safe(app, jobs, hist, o) /\ hist.mine[o] \in 0..used.texts /\ hist'.mine[o] = hist.mine[o]
      BY <1>1, <1>4, <2>2 DEF TextsOK
    <3>2. Safe(app', jobs, hist', o)
      BY <1>3, <2>2, <3>1 DEF Safe, Grows
    <3>3. \A x \in 0..used.texts : x \in 0..used'.texts
      BY <1>1
    <3> QED
      BY <3>1, <3>2, <3>3
  <2> QED
    BY <2>1, <2>2
<1>6. Alone(app', hist') /\ InStep(app')
  <2>1. ASSUME NEW o \in 1..Len(app.ops), o # app.open, hist'.mine[o] # 0, Shows(app', hist'.mine[o])
        PROVE  hist'.mine[o] \in hist'.stored
    <3>1. hist'.mine[o] = hist.mine[o] /\ hist.mine[o] = t
      BY <1>3, <1>4, <2>1 DEF Shows
    <3> QED
      BY <2>1, <3>1 DEF Retyped, Grows
  <2>2. Alone(app', hist')
    BY <1>3, <2>1 DEF Alone
  <2> QED
    BY <1>3, <2>2 DEF InStep
<1>7. TextsOK(cast, app', jobs', used', hist')
  BY <1>3, <1>4, <1>5, <1>6 DEF TextsOK
<1>8. JobsOK(F, hist', app'.gen, Len(app'.ops), jobs')
  <2>1. JobsOK(F, hist, app.gen, Len(app.ops), jobs) /\ Len(app.ops) <= Len(app.ops)
    BY <1>1, Facts
  <2>2. JobsOK(F, hist', app.gen, Len(app.ops), jobs)
    BY <1>1, <2>1, JobsMono
  <2> QED
    BY <1>3, <2>2
<1>9. rows' \in [Keys -> Handles] /\ RowsOK(F, cast, rows', hist')
  BY SameVault
<1>10. app'.gens \subseteq {app'.gen} /\ hist'.blind \subseteq hist'.crossed
  BY <1>1, <1>3 DEF Grows
<1> QED
  BY <1>1, <1>2, <1>7, <1>8, <1>9, <1>10, Assemble

LEMMA updateDraftStep ==
  ASSUME NEW F, Now(F), updateDraft PROVE \E G : Now(G)'
<1>1. PICK t : t = used.texts + 1
  OBVIOUS
<1>2. /\ app.scr # None /\ app.open # 0 /\ used.texts < cast.texts
      /\ used' = [used EXCEPT !.texts = t]
      /\ app' = Rendered([app EXCEPT !.scr.text = t], TRUE)
      /\ hist' = [hist EXCEPT !.mine[app.open] = t, !.known = @ \cup {<<app.open, t>>},
                              !.typed = @ \cup {t},
                              !.iced = IF Frozen(app) THEN @ \cup {t} ELSE @]
      /\ cast' = cast /\ rows' = rows /\ jobs' = jobs
  BY <1>1 DEF updateDraft
<1>3. /\ AppOK(F, hist, app) /\ app.scr \in Screens /\ hist \in Hists /\ used \in Bounds
      /\ used.texts \in Nat /\ cast.texts \in Nat /\ app.open \in Nat /\ hist.mine \in Seq(Nat)
      /\ Names(F, hist, app.open, app.scr.key, app.scr.v) /\ Len(app.ops) \in Nat
      /\ app.open \in 1..Len(hist.mine) /\ hist.typed \subseteq 1..used.texts
      /\ TextsOK(cast, app, jobs, used, hist)
  BY <1>2, Facts, AppFields DEF AppOK, ScreenOK, Hists, TextsOK
<1>4. t \in Nat /\ used.texts <= t /\ t <= cast.texts
  BY <1>1, <1>2, <1>3
<1>5. used' \in Bounds /\ used'.texts = t
  BY <1>2, <1>3, <1>4 DEF Bounds
<1>6. PICK q : q = [hist.mine EXCEPT ![app.open] = t]
  OBVIOUS
<1>7. PICK i : i = IF Frozen(app) THEN hist.iced \cup {t} ELSE hist.iced
  OBVIOUS
<1>8. q \in Seq(Nat) /\ i \in NatSets
  BY <1>3, <1>4, <1>6, <1>7 DEF Hists, NatSets
<1>9. /\ hist' \in Hists /\ Grows(hist, hist') /\ hist'.blind = hist.blind
      /\ hist'.mine = q /\ hist'.typed = hist.typed \cup {t}
  <2>1. hist' = [hist EXCEPT !.mine = q, !.known = @ \cup {<<app.open, t>>},
                             !.typed = @ \cup {t}, !.iced = i]
    BY <1>2, <1>6, <1>7
  <2>2. /\ hist.known \cup {<<app.open, t>>} \in SUBSET (Nat \X Nat)
        /\ hist.typed \cup {t} \in NatSets
    BY <1>3, <1>4 DEF Hists, NatSets
  <2> QED
    BY <1>3, <1>8, <2>1, <2>2 DEF Hists, Grows
<1>10. hist'.typed \subseteq 1..used'.texts
  <2>1. \A x \in 1..used.texts : x \in 1..t
    BY <1>3, <1>4
  <2>2. t \in 1..t
    BY <1>1, <1>3
  <2> QED
    BY <1>3, <1>5, <1>9, <2>1, <2>2
<1>11. Retyped(hist, hist', app, t, t)
  <2>1. ASSUME NEW o \in 1..Len(app.ops) PROVE hist.mine[o] # t
    <3>1. hist.mine[o] \in 0..used.texts
      BY <1>3 DEF TextsOK
    <3> QED
      BY <1>1, <1>3, <3>1
  <2> QED
    BY <1>6, <1>9, <2>1 DEF Retyped
<1>12. PICK s : s = [app.scr EXCEPT !.text = t]
  OBVIOUS
<1>13. s \in Screens /\ s.key = app.scr.key /\ s.v = app.scr.v /\ s.text = t /\ s # None
  BY <1>3, <1>4, <1>12, NoneAssumption DEF Screens, KeyOrNot
<1>14. PICK m : m = [app EXCEPT !.scr = s]
  OBVIOUS
<1>15. AppOK(F, hist', app) /\ ScreenOK(F, hist', app.open, s)
  <2>1. Names(F, hist', app.open, app.scr.key, app.scr.v)
    BY <1>3, <1>9 DEF Names, Knows, KnowsText, Grows
  <2> QED
    BY <1>2, <1>3, <1>9, <1>13, <2>1, AppMono DEF ScreenOK
<1>16. AppOK(F, hist', m) /\ m.scr = s /\ m.ops = app.ops
       /\ m.open = app.open /\ m.gen = app.gen /\ m.gens = app.gens
       /\ Discarded(m) = Discarded(app)
  BY <1>13, <1>14, <1>15, SetScreen DEF SameTab
<1>17. app' = Rendered(m, TRUE)
  BY <1>2, <1>12, <1>14
<1>18. t <= used'.texts /\ used.texts <= used'.texts /\ used'.texts <= cast.texts
  BY <1>4, <1>5
<1>19. Now(F)'
  BY <1>2, <1>4, <1>5, <1>9, <1>10, <1>11, <1>13, <1>16, <1>17, <1>18, RetypeStep
<1> QED
  BY <1>19

\* The choice made: the id it names is the opening's, and the notice goes.
Resolved(a, w) == [a EXCEPT !.conflict = None, !.ops[a.open].wrote = w]

LEMMA ResolvedOK ==
  ASSUME NEW F, NEW h, NEW a, AppOK(F, h, a), a.open \in 1..Len(a.ops), NEW w,
         HasWritten(F, h, a.open, w), NEW b, b = Resolved(a, w)
  PROVE  /\ AppOK(F, h, b) /\ Alike(a, b) /\ b.scr = a.scr /\ b.open = a.open
         /\ b.gen = a.gen /\ b.gens = a.gens /\ b.dev = a.dev
<1> DEFINE c == [a.ops[a.open] EXCEPT !.wrote = w]
<1>1. a.ops[a.open] \in Composes /\ ComposeOK(F, h, a.open, a.ops[a.open])
  BY AppFields, ComposeAt DEF AppOK, ComposesOK
<1>2. /\ c \in Composes /\ c.wrote = w /\ c.minted = a.ops[a.open].minted
      /\ c.fresh = a.ops[a.open].fresh /\ c.opened = a.ops[a.open].opened
      /\ StaysOff(a.ops[a.open], c)
  BY <1>1 DEF Composes, StaysOff, HasWritten
<1>3. b = [WithCompose(a, a.open, c) EXCEPT !.conflict = None]
  <2>1. a \in Apps
    BY DEF AppOK
  <2> QED
    BY <2>1 DEF Resolved, WithCompose, Apps
<1> HIDE DEF c
<1>4. ComposeOK(F, h, a.open, c)
  BY <1>1, <1>2 DEF ComposeOK, HasWritten
<1>5. PICK d : d = WithCompose(a, a.open, c)
  OBVIOUS
<1>6. AppOK(F, h, d) /\ Alike(a, d) /\ SameTab(a, d) /\ d.scr = a.scr /\ d.dev = a.dev
  BY <1>2, <1>4, <1>5, SetCompose
<1>7. ConflictOK(F, None) /\ b = [d EXCEPT !.conflict = None]
  BY <1>3, <1>5 DEF ConflictOK
<1>8. /\ AppOK(F, h, b) /\ Alike(d, b) /\ b.gen = d.gen /\ b.gens = d.gens
      /\ b.scr = d.scr /\ b.dev = d.dev /\ b.open = d.open
  BY <1>6, <1>7, SetConflict
<1> QED
  BY <1>6, <1>8, AlikeTrans DEF SameTab

LEMMA resolveDraftConflictStep ==
  ASSUME NEW F, Now(F), NEW choice \in {"mine", "theirs"}, resolveDraftConflict(choice)
  PROVE  \E G : Now(G)'
<1>1. /\ app.conflict # None /\ app.open # 0 /\ cast' = cast /\ rows' = rows /\ jobs' = jobs
      /\ used' = used
  BY DEF resolveDraftConflict
<1>2. PICK c : c = app.conflict
  OBVIOUS
<1>3. /\ c \in Conflicts /\ c.key \in Keys /\ c.h.v \in Nat /\ c.h.text \in Nat
      /\ <<c.key, c.h.v, c.h.text>> \in F
  BY <1>1, <1>2, Facts, AppFields DEF AppOK, ConflictOK, Conflicts, Handles
<1>4. /\ AppOK(F, hist, app) /\ app.scr \in Screens \cup {None} /\ hist \in Hists
      /\ used \in Bounds /\ app.open \in Nat /\ app.open \in 1..Len(app.ops)
      /\ hist.mine \in Seq(Nat) /\ app.open \in 1..Len(hist.mine)
      /\ TextsOK(cast, app, jobs, used, hist) /\ app.gens \subseteq {app.gen}
      /\ used.texts \in Nat /\ used.texts <= cast.texts /\ cast.texts \in Nat
  BY <1>1, Facts, AppFields DEF AppOK, Hists, TextsOK
<1> DEFINE hit == app.scr # None /\ app.scr.key = c.key
           theirs == hit /\ choice = "theirs"
<1>5. PICK w : w = IdOf(c.key, c.h.v)
  OBVIOUS
<1>6. PICK s : s = IF hit THEN [app.scr EXCEPT !.v = c.h.v,
                                               !.text = IF choice = "mine" THEN @ ELSE c.h.text]
                   ELSE app.scr
  OBVIOUS
<1>7. app' = Rendered([Resolved(app, w) EXCEPT !.scr = s], hit)
  <2>1. PICK b : b = Resolved(app, w)
    OBVIOUS
  <2>2. app \in Apps
    BY Facts
  <2>3. b.scr = app.scr
    BY <2>1, <2>2 DEF Resolved, Apps
  <2> QED
    BY <1>2, <1>5, <1>6, <2>1, <2>3 DEF resolveDraftConflict, Resolved
<1>8. hist' = [hist EXCEPT !.known = IF hit THEN @ \cup {<<app.open, c.h.text>>} ELSE @,
                           !.crossed = IF hit THEN @ ELSE @ \cup {app.open},
                           !.mine[app.open] = IF theirs THEN 0 ELSE @]
  BY <1>2 DEF resolveDraftConflict
<1>9. PICK z : z = IF theirs THEN 0 ELSE hist.mine[app.open]
  OBVIOUS
<1>24. PICK q : q = [hist.mine EXCEPT ![app.open] = z]
  OBVIOUS
<1>10. q \in Seq(Nat) /\ (~theirs => q = hist.mine)
  <2>1. hist.mine[app.open] \in Nat
    BY <1>4
  <2>2. z \in Nat /\ (~theirs => z = hist.mine[app.open])
    BY <1>9, <2>1
  <2> HIDE DEF theirs
  <2>3. q \in Seq(Nat)
    BY <1>4, <1>24, <2>2
  <2>4. ASSUME z = hist.mine[app.open] PROVE q = hist.mine
    <3>1. Len(q) = Len(hist.mine)
      BY <1>4, <1>24, <2>2
    <3>2. \A o \in 1..Len(hist.mine) : q[o] = hist.mine[o]
      BY <1>4, <1>24, <2>4
    <3> QED
      BY <1>4, <2>3, <3>1, <3>2, SeqEqual
  <2> QED
    BY <2>2, <2>3, <2>4
<1> HIDE DEF hit
<1>11. /\ hist' \in Hists /\ Grows(hist, hist') /\ hist'.blind = hist.blind
       /\ hist'.mine = q /\ hist'.typed = hist.typed
       /\ hit => <<app.open, c.h.text>> \in hist'.known
       /\ ~hit => app.open \in hist'.crossed
  <2>1. PICK k : k = IF hit THEN hist.known \cup {<<app.open, c.h.text>>} ELSE hist.known
    OBVIOUS
  <2>2. PICK x : x = IF hit THEN hist.crossed ELSE hist.crossed \cup {app.open}
    OBVIOUS
  <2>3. /\ k \in SUBSET (Nat \X Nat) /\ hist.known \subseteq k
        /\ hit => <<app.open, c.h.text>> \in k
    BY <1>3, <1>4, <2>1 DEF Hists
  <2>4. x \in NatSets /\ hist.crossed \subseteq x /\ (~hit => app.open \in x)
    BY <1>4, <2>2 DEF Hists, NatSets
  <2>5. hist' = [hist EXCEPT !.known = k, !.crossed = x, !.mine = q]
    BY <1>8, <1>9, <1>24, <2>1, <2>2
  <2> QED
    BY <1>4, <1>10, <2>3, <2>4, <2>5 DEF Hists, Grows
<1>12. Knows(F, hist', app.open, c.key, c.h.v) /\ Names(F, hist', app.open, c.key, c.h.v)
  <2>1. KnowsText(hist', app.open, c.h.text)
    BY <1>11 DEF KnowsText
  <2> QED
    BY <1>3, <2>1 DEF Knows, Names
<1>13. HasWritten(F, hist', app.open, w)
  BY <1>3, <1>5, <1>12 DEF HasWritten, IdOf, Screens, KeyOrNot
<1>14. AppOK(F, hist', app)
  BY <1>4, <1>11, AppMono
<1>15. PICK b : b = Resolved(app, w)
  OBVIOUS
<1>16. /\ AppOK(F, hist', b) /\ Alike(app, b) /\ b.scr = app.scr /\ b.open = app.open
       /\ b.gen = app.gen /\ b.gens = app.gens /\ b.dev = app.dev
  BY <1>4, <1>13, <1>14, <1>15, ResolvedOK
<1>17. PICK m : m = [b EXCEPT !.scr = s]
  OBVIOUS
<1>18. app' = Rendered(m, hit)
  BY <1>7, <1>15, <1>17
<1>19. /\ s \in Screens \cup {None} /\ (~hit => s = app.scr)
       /\ hit => /\ s # None /\ s \in Screens /\ s.key = c.key /\ s.v = c.h.v
                 /\ ~theirs => s.text = app.scr.text
                 /\ theirs => s.text = c.h.text
  <2>1. CASE ~hit
    BY <1>4, <1>6, <1>16, <2>1
  <2>2. CASE hit
    <3>1. app.scr # None /\ app.scr.key = c.key /\ app.scr \in Screens /\ app.scr.text \in Nat
      BY <1>4, <2>2 DEF hit, Screens
    <3>2. PICK t : t = IF choice = "mine" THEN app.scr.text ELSE c.h.text
      OBVIOUS
    <3>3. t \in Nat /\ s = [app.scr EXCEPT !.v = c.h.v, !.text = t]
      BY <1>3, <1>6, <2>2, <3>1, <3>2
    <3>4. s \in Screens /\ s.key = c.key /\ s.v = c.h.v /\ s.text = t
      BY <1>3, <3>1, <3>3 DEF Screens
    <3>5. s # None
      BY <3>4, NoneAssumption DEF Screens, KeyOrNot
    <3> QED
      BY <2>2, <3>2, <3>4, <3>5
  <2> QED
    BY <2>1, <2>2
<1>20. ScreenOK(F, hist', b.open, s) /\ (b.armed => s # None)
  <2>1. CASE ~hit
    BY <1>16, <1>19, <2>1 DEF AppOK
  <2>2. CASE hit
    BY <1>1, <1>12, <1>16, <1>19, <2>2 DEF ScreenOK
  <2> QED
    BY <2>1, <2>2
<1>21. /\ AppOK(F, hist', m) /\ SameTab(b, m) /\ m.scr = s /\ m.dev = b.dev /\ m.ops = b.ops
       /\ Discarded(m) = Discarded(b)
       /\ b.scr # None /\ s # None /\ s.text = b.scr.text => Alike(b, m)
  BY <1>16, <1>17, <1>19, <1>20, SetScreen
<1>22. CASE ~theirs
  <2>1. hist'.mine = hist.mine
    BY <1>10, <1>11, <1>22
  <2>2. Alike(app, m)
    <3>1. CASE hit
      <4>1. app.scr # None
        BY <3>1 DEF hit
      <4>2. Alike(b, m)
        BY <1>16, <1>19, <1>21, <1>22, <3>1, <4>1
      <4> QED
        BY <1>16, <4>2, AlikeTrans
    <3>2. CASE ~hit
      <4>1. Alike(b, m)
        BY <1>19, <1>21, <3>2, <1>16 DEF Alike, SameTab
      <4> QED
        BY <1>16, <4>1, AlikeTrans
    <3> QED
      BY <3>1, <3>2
  <2>3. m.gen = app.gen /\ m.gens \subseteq {app.gen}
    BY <1>4, <1>16, <1>21 DEF SameTab
  <2>4. Moves(m)
    <3>1. hit \in BOOLEAN
      BY DEF hit
    <3> QED
      BY <1>18, <3>1 DEF Moves
  <2>5. JobsOK(F, hist', app.gen, Len(app.ops), jobs')
    <3>1. Len(app.ops) \in Nat /\ Len(app.ops) <= Len(app.ops)
      BY Facts
    <3> QED
      BY <1>1, <1>11, <3>1, JobsMono, Facts
  <2>6. Flushing(app, hist, hist', jobs, jobs')
    BY <1>1, FlushingKept
  <2>7. used' \in Bounds /\ used'.texts = used.texts
    BY <1>1, <1>4
  <2>8. Now(F)'
    BY <1>1, <1>11, <1>21, <2>1, <2>2, <2>3, <2>4, <2>5, <2>6, <2>7, MoveStep
  <2> QED
    BY <2>8
<1>23. CASE theirs
  <2>1. hit /\ hit = TRUE
    BY <1>23 DEF hit
  <2>2. PICK t : t = c.h.text
    OBVIOUS
  <2>3. PICK u : u = 0
    OBVIOUS
  <2>4. m.scr # None /\ m.scr.text = t /\ t \in Nat /\ u \in Nat /\ u <= used'.texts
    BY <1>1, <1>3, <1>4, <1>19, <1>21, <1>23, <2>1, <2>2, <2>3
  <2>5. Retyped(hist, hist', app, t, u)
    <3>1. ASSUME NEW o \in 1..Len(app.ops), hist.mine[o] # 0, hist.mine[o] = t
          PROVE  hist.mine[o] \in hist.stored
      <4>1. hist.mine[o] \in 0..used.texts
        BY <1>4 DEF TextsOK
      <4>2. t \in 1..cast.texts
        BY <1>4, <3>1, <4>1
      <4> QED
        BY <1>3, <2>2, <3>1, <4>2, LoggedText
    <3>2. hist'.mine = [hist.mine EXCEPT ![app.open] = u]
      BY <1>9, <1>11, <1>23, <1>24, <2>3
    <3> QED
      BY <2>3, <3>1, <3>2 DEF Retyped
  <2>6. /\ m.open = app.open /\ m.gen = app.gen /\ m.gens = app.gens
        /\ Len(m.ops) = Len(app.ops) /\ Discarded(app) \subseteq Discarded(m)
    BY <1>16, <1>21 DEF SameTab, Alike
  <2>7. app' = Rendered(m, TRUE)
    BY <1>18, <2>1
  <2>8. /\ used' \in Bounds /\ used.texts <= used'.texts /\ used'.texts <= cast.texts
        /\ hist'.typed \subseteq 1..used'.texts
    BY <1>1, <1>4, <1>11 DEF TextsOK
  <2>9. Now(F)'
    BY <1>1, <1>11, <1>21, <2>4, <2>5, <2>6, <2>7, <2>8, RetypeStep
  <2> QED
    BY <2>9
<1> QED
  BY <1>22, <1>23

-----------------------------------------------------------------------------
(* Closing, and the flush.                                                 *)

Shut(a)     == [a EXCEPT !.open = 0, !.scr = None, !.armed = FALSE]
ShutBare(a) == [Shut(a) EXCEPT !.dev = None]

LEMMA ShutOK ==
  ASSUME NEW F, NEW h, NEW a, AppOK(F, h, a), NEW b, b \in {Shut(a), ShutBare(a)}
  PROVE  /\ AppOK(F, h, b) /\ b.open = 0 /\ b.scr = None /\ b.ops = a.ops
         /\ b.gen = a.gen /\ b.gens = a.gens /\ b.list = a.list
         /\ Discarded(b) = Discarded(a)
<1>1. a \in Apps /\ Len(a.ops) \in Nat
  BY AppFields DEF AppOK, ComposeSeqs
<1>2. b \in Apps
  <2>1. PICK c : c = Shut(a)
    OBVIOUS
  <2>2. c \in Apps
    BY <1>1, <2>1 DEF Shut, Apps
  <2>3. b = c \/ b = [c EXCEPT !.dev = None]
    BY <2>1 DEF ShutBare
  <2> QED
    BY <2>2, <2>3 DEF Apps
<1>3. /\ b.open = 0 /\ b.scr = None /\ b.armed = FALSE /\ b.ops = a.ops /\ b.gen = a.gen
      /\ b.gens = a.gens /\ b.list = a.list /\ b.thaw = a.thaw /\ b.conflict = a.conflict
      /\ b.dev = a.dev \/ b.dev = None
  BY <1>1 DEF Shut, ShutBare, Apps
<1>4. CopyOK(F, b.dev) /\ ScreenOK(F, h, b.open, b.scr)
  BY <1>3 DEF AppOK, CopyOK, ScreenOK
<1>5. b.open \in 0..Len(b.ops) /\ Discarded(b) = Discarded(a)
  BY <1>1, <1>3 DEF Discarded
<1> QED
  BY <1>2, <1>3, <1>4, <1>5 DEF AppOK

\* The text on screen is safe when it leaves it.
Parts(b, js) ==
  Shows(app, hist.mine[app.open]) => Safe(b, js, hist, app.open)

LEMMA CloseStep ==
  ASSUME NEW F, Now(F), cast' = cast, rows' = rows, used' = used, hist' = hist, app.open # 0,
         NEW b, b \in {Shut(app), ShutBare(app)}, app' = b, jobs \subseteq jobs',
         JobsOK(F, hist, app.gen, Len(app.ops), jobs'), Parts(b, jobs')
  PROVE  Now(F)'
<1>1. /\ AppOK(F, hist, app) /\ TextsOK(cast, app, jobs, used, hist) /\ hist \in Hists
      /\ used \in Bounds /\ app.gens \subseteq {app.gen} /\ Grows(hist, hist)
      /\ app.open \in 1..Len(app.ops)
  BY Facts DEF Grows
<1>2. /\ AppOK(F, hist, b) /\ b.open = 0 /\ b.scr = None /\ b.ops = app.ops
      /\ b.gen = app.gen /\ b.gens = app.gens /\ Discarded(b) = Discarded(app)
  BY <1>1, ShutOK
<1>3. Safe(b, jobs', hist, app.open)
  <2>1. Safe(app, jobs, hist, app.open)
    BY <1>1 DEF TextsOK
  <2>2. \A o, t : Flushes(jobs, o, t) => Flushes(jobs', o, t)
    BY DEF Flushes
  <2> QED
    BY <1>2, <2>1, <2>2 DEF Safe, Parts
<1>4. Flushing(app, hist, hist, jobs, jobs')
  BY DEF Flushing, Flushed, Flushes
<1>5. TextsOK(cast, b, jobs', used, hist)
  BY <1>1, <1>2, <1>3, <1>4, LeaveTexts
<1>6. Alike(b, b) /\ Moves(b) /\ b.gens \subseteq {b.gen} /\ Len(b.ops) = Len(app.ops)
  BY <1>1, <1>2 DEF Alike, Moves
<1>7. /\ AppOK(F, hist', b) /\ TextsOK(cast, b, jobs', used', hist')
      /\ JobsOK(F, hist', b.gen, Len(b.ops), jobs')
      /\ hist' \in Hists /\ Grows(hist, hist') /\ hist'.blind = hist.blind /\ used' \in Bounds
  BY <1>1, <1>2, <1>5
<1> QED
  BY <1>6, <1>7, Arrive

LEMMA ClosedStep ==
  ASSUME NEW F, Now(F), Close PROVE \E G : Now(G)'
<1>1. /\ cast' = cast /\ rows' = rows /\ used' = used /\ hist' = hist /\ app.open # 0
      /\ app.open \in Nat /\ app.open \in 1..Len(app.ops) /\ AppOK(F, hist, app) /\ app \in Apps
      /\ app.scr \in Screens \cup {None} /\ TextsOK(cast, app, jobs, used, hist)
      /\ used.texts \in Nat /\ used.texts <= cast.texts /\ cast.texts \in Nat
      /\ JobsOK(F, hist, app.gen, Len(app.ops), jobs) /\ app.gen \in Nat
      /\ hist.mine[app.open] \in 0..used.texts
  BY Facts, AppFields DEF Close, TextsOK
<1> DEFINE k1 == [Job("abandon", app.open, app) EXCEPT !.key = app.scr.key, !.v = app.scr.v]
           k2 == [Job("flush", app.open, app) EXCEPT !.key = app.scr.key, !.v = app.scr.v,
                                                     !.text = app.scr.text]
<1>2. \/ (app.scr = None \/ Op(app).discarded) /\ app' = ShutBare(app) /\ jobs' = jobs
      \/ /\ app.scr # None /\ Abandoned(app) /\ app' = ShutBare(app)
         /\ jobs' = jobs \/ (app.scr.key # 0 /\ jobs' = jobs \cup {k1})
      \/ app.scr # None /\ Holds(app) /\ app' = ShutBare(app) /\ jobs' = jobs
      \/ app.scr # None /\ app' = Shut(app) /\ jobs' = jobs \cup {k2}
  BY DEF Close, Shut, ShutBare, Content
<1>3. CASE (app.scr = None \/ Op(app).discarded) /\ app' = ShutBare(app) /\ jobs' = jobs
  <2>1. PICK b : b = ShutBare(app)
    OBVIOUS
  <2>2. b.ops = app.ops /\ Discarded(b) = Discarded(app)
    BY <1>1, <2>1, ShutOK
  <2>3. Parts(b, jobs')
    BY <1>1, <1>3, <2>2 DEF Parts, Shows, Safe, Discarded, Op
  <2> QED
    BY <1>1, <1>3, <2>1, <2>3, CloseStep
<1>4. CASE /\ app.scr # None /\ Abandoned(app) /\ app' = ShutBare(app)
           /\ jobs' = jobs \/ (app.scr.key # 0 /\ jobs' = jobs \cup {k1})
  <2>1. PICK b : b = ShutBare(app)
    OBVIOUS
  <2>2. app.scr.text = 0
    BY <1>1, <1>4 DEF Abandoned, Op, AppOK, ComposesOK, ComposeOK
  <2>3. Parts(b, jobs')
    BY <2>2 DEF Parts, Shows, Safe
  <2>4. ASSUME app.scr.key # 0 PROVE JobOK(F, hist, app.gen, Len(app.ops), k1)
    <3>1. PICK i : i = Job("abandon", app.open, app)
      OBVIOUS
    <3>2. /\ i \in Works /\ i.kind = "abandon" /\ i.o = app.open /\ i.pc = "start"
          /\ i.gen = app.gen /\ i.list = NoList
      BY <1>1, <3>1, NoListOK DEF Job, Works, KeyOrNot
    <3>3. app.scr.key \in Keys /\ app.scr.v \in Nat
      BY <1>1, <1>4, <2>4 DEF Screens, KeyOrNot
    <3>4. /\ k1 \in Works /\ k1.kind = "abandon" /\ k1.o = app.open /\ k1.pc = "start"
          /\ k1.gen = app.gen /\ k1.list = NoList /\ k1.key = app.scr.key
      BY <3>1, <3>2, <3>3 DEF Works, KeyOrNot
    <3> HIDE DEF k1
    <3>5. app.open \in 0..Len(app.ops) /\ k1.kind \notin Writers \cup {"settle"}
      BY <3>4, Facts DEF Writers
    <3> QED
      BY <3>3, <3>4, <3>5, StartOK
  <2>5. JobsOK(F, hist, app.gen, Len(app.ops), jobs') /\ jobs \subseteq jobs'
    <3> HIDE DEF k1
    <3> QED
      BY <1>1, <1>4, <2>4, JobsSet
  <2> QED
    BY <1>1, <1>4, <2>1, <2>3, <2>5, CloseStep
<1>5. CASE app.scr # None /\ Holds(app) /\ app' = ShutBare(app) /\ jobs' = jobs
  <2>1. PICK b : b = ShutBare(app)
    OBVIOUS
  <2>2. <<app.scr.key, app.scr.v, app.scr.text>> \in F
    <3>1. /\ HandleOf(app) # None /\ HandleOf(app).v = app.scr.v
          /\ HandleOf(app).text = app.scr.text
      BY <1>5 DEF Holds, Content
    <3>2. app.scr.key \in Keys /\ HandleOf(app) = app.list[app.scr.key]
      BY <1>1, <3>1, HandleType
    <3> QED
      BY <1>1, <3>1, <3>2 DEF AppOK, ListOK
  <2>3. app.scr.text \notin 1..cast.texts \/ app.scr.text \in hist.stored
    BY <2>2, LoggedText
  <2>4. ASSUME app.scr.text = hist.mine[app.open], hist.mine[app.open] # 0
        PROVE  hist.mine[app.open] \in hist.stored
    <3>1. \A x, u, c \in Nat : x \in 0..u /\ u <= c /\ x # 0 => x \in 1..c
      OBVIOUS
    <3>2. app.scr.text \in Nat
      BY <1>1, <1>5 DEF Screens
    <3> QED
      BY <1>1, <2>3, <2>4, <3>1, <3>2
  <2>5. Parts(b, jobs')
    BY <2>4 DEF Parts, Shows, Safe
  <2> QED
    BY <1>1, <1>5, <2>1, <2>5, CloseStep
<1>6. CASE app.scr # None /\ app' = Shut(app) /\ jobs' = jobs \cup {k2}
  <2>1. PICK b : b = Shut(app)
    OBVIOUS
  <2>2. /\ app.scr \in Screens /\ app.scr.key \in KeyOrNot /\ app.scr.v \in Nat
        /\ app.scr.text \in Nat /\ Names(F, hist, app.open, app.scr.key, app.scr.v)
    BY <1>1, <1>6 DEF Screens, AppOK, ScreenOK
  <2>3. PICK i : i = Job("flush", app.open, app)
    OBVIOUS
  <2>4. /\ i \in Works /\ i.kind = "flush" /\ i.o = app.open /\ i.pc = "start"
        /\ i.gen = app.gen /\ i.list = NoList
    BY <1>1, <2>3, NoListOK DEF Job, Works, KeyOrNot
  <2>5. /\ k2 \in Works /\ k2.kind = "flush" /\ k2.o = app.open /\ k2.pc = "start"
        /\ k2.gen = app.gen /\ k2.list = NoList /\ k2.key = app.scr.key /\ k2.v = app.scr.v
        /\ k2.text = app.scr.text
    BY <2>2, <2>3, <2>4 DEF Works
  <2> HIDE DEF k2
  <2>6. JobOK(F, hist, app.gen, Len(app.ops), k2)
    <3>1. app.open \in 0..Len(app.ops) /\ app.open # 0
      BY <1>1, Facts
    <3>2. Names(F, hist, k2.o, k2.key, k2.v) /\ k2.kind \in Writers
      BY <2>2, <2>5 DEF Writers
    <3> QED
      BY <2>5, <3>1, <3>2, StartOK
  <2>7. JobsOK(F, hist, app.gen, Len(app.ops), jobs') /\ jobs \subseteq jobs'
    BY <1>1, <1>6, <2>6, JobsSet
  <2>8. Parts(b, jobs')
    <3>1. ASSUME Shows(app, hist.mine[app.open]) PROVE Flushes(jobs', app.open, hist.mine[app.open])
      BY <1>6, <2>5, <3>1 DEF Shows, Flushes
    <3> QED
      BY <3>1 DEF Parts, Safe
  <2> QED
    BY <1>1, <1>6, <2>1, <2>7, <2>8, CloseStep
<1> HIDE DEF k1, k2
<1> QED
  BY <1>2, <1>3, <1>4, <1>5, <1>6

\* What was let go of by the code's own exceptions.
LEMMA GivenOK ==
  ASSUME NEW F, Now(F), NEW g \in NatSets, hist.given \subseteq g,
         hist' = [hist EXCEPT !.given = g]
  PROVE  /\ hist' \in Hists /\ Grows(hist, hist') /\ hist'.mine = hist.mine
         /\ hist'.typed = hist.typed /\ hist'.blind = hist.blind /\ hist'.given = g
         /\ hist'.known = hist.known
<1>1. hist \in Hists
  BY Facts
<1> QED
  BY <1>1 DEF Hists, Grows

\* A flush is over: its opening was given up, its text stored, or the copy holds it.
LEMMA FlushOver ==
  ASSUME NEW F, Now(F), NEW j \in jobs, End(j), NEW h, Grows(hist, h),
         j.text \in h.stored \/ j.o \in h.given \/ j.o \in CopyOf
  PROVE  Flushing(app, hist, h, jobs, jobs')
<1>1. ASSUME NEW i \in jobs, i.kind = "flush" PROVE Flushed(app, hist, h, jobs', i)
  <2>1. CASE i = j
    BY <2>1 DEF Flushed, CopyOf, InCopy, Copied
  <2>2. CASE i # j
    BY <1>1, <2>2 DEF Flushed, Flushes, End
  <2> QED
    BY <2>1, <2>2
<1> QED
  BY <1>1 DEF Flushing

LEMMA FlushStartsStep ==
  ASSUME NEW F, Now(F), NEW j \in jobs, FlushStarts(j) PROVE \E G : Now(G)'
<1>1. j.kind = "flush" /\ j.pc = "start" /\ cast' = cast /\ rows' = rows /\ used' = used
  BY DEF FlushStarts
<1>2. /\ JobOK(F, hist, app.gen, Len(app.ops), j) /\ j \in Works /\ j.o \in 1..Len(app.ops)
      /\ j.o \in Nat /\ j.o # 0 /\ Names(F, hist, j.o, j.key, j.v)
      /\ (~isCurrent(j) => j.o \in hist.given)
  <2>1. JobOK(F, hist, app.gen, Len(app.ops), j) /\ j \in Works /\ j.o \in 1..Len(app.ops)
        /\ j.o \in Nat
    BY <1>1, JobFacts DEF Writers
  <2>2. j.o # 0
    BY <2>1
  <2> QED
    BY <1>1, <2>1, <2>2 DEF JobOK, Writers, isCurrent
<1>3. /\ hist \in Hists /\ CopyOf \in NatSets /\ AppOK(F, hist, app) /\ used \in Bounds
      /\ app.gens \subseteq {app.gen} /\ JobsOK(F, hist, app.gen, Len(app.ops), jobs)
  BY Facts, CopyOfOK
<1> DEFINE sent == app.ops[j.o].sending = "claimed"
           lost == Leaves(j) \/ app.ops[j.o].sending = "threw"
<1>4. PICK g : g = IF sent THEN hist.given \cup CopyOf \cup {j.o}
                   ELSE IF lost /\ j.o \notin CopyOf THEN hist.given \cup {j.o} ELSE hist.given
  OBVIOUS
<1>5. g \in NatSets /\ hist.given \subseteq g
  BY <1>2, <1>3, <1>4 DEF Hists, NatSets
<1>6. hist' = [hist EXCEPT !.given = g]
  BY <1>4 DEF FlushStarts
<1>7. /\ hist' \in Hists /\ Grows(hist, hist') /\ hist'.mine = hist.mine
      /\ hist'.typed = hist.typed /\ hist'.blind = hist.blind /\ hist'.given = g
  BY <1>5, <1>6, GivenOK
<1>8. /\ JobsOK(F, hist', app.gen, Len(app.ops), jobs)
      /\ JobOK(F, hist', app.gen, Len(app.ops), j)
  <2>1. Len(app.ops) \in Nat /\ Len(app.ops) <= Len(app.ops)
    BY Facts
  <2>2. JobsOK(F, hist', app.gen, Len(app.ops), jobs)
    BY <1>3, <1>7, <2>1, JobsMono
  <2> QED
    BY <2>2 DEF JobsOK
<1> DEFINE pc == IF j.v = 0 THEN "mint" ELSE "write"
<1>9. \/ End(j) /\ app' = app /\ (j.o \in g \/ j.o \in CopyOf)
      \/ End(j) /\ app' = [app EXCEPT !.dev = None] /\ j.o \in g /\ CopyOf \subseteq g
      \/ Become(j, [j EXCEPT !.pc = pc]) /\ app' = app
  <2>1. CASE ~isCurrent(j) \/ app.ops[j.o].sending = "threw"
    <3>1. End(j) /\ app' = app
      BY <2>1 DEF FlushStarts
    <3>2. j.o \in g \/ j.o \in CopyOf
      BY <1>2, <1>4, <1>5, <2>1
    <3> QED
      BY <3>1, <3>2
  <2>2. CASE isCurrent(j) /\ sent
    BY <1>4, <2>2 DEF FlushStarts
  <2>3. CASE isCurrent(j) /\ ~sent /\ Leaves(j) /\ ~(app.ops[j.o].sending = "threw")
    BY <1>4, <2>3 DEF FlushStarts
  <2>4. CASE isCurrent(j) /\ ~sent /\ ~lost
    BY <2>4 DEF FlushStarts
  <2> QED
    BY <2>1, <2>2, <2>3, <2>4
<1> HIDE DEF sent, lost, pc
<1>10. CASE End(j) /\ app' = app /\ (j.o \in g \/ j.o \in CopyOf)
  <2>1. Flushing(app, hist, hist', jobs, jobs')
    BY <1>7, <1>10, FlushOver
  <2>2. TextsOK(cast, app, jobs', used, hist') /\ AppOK(F, hist', app)
    BY <1>7, <2>1, StayTexts
  <2>3. JobsOK(F, hist', app.gen, Len(app.ops), jobs')
    BY <1>8, <1>10, JobsSet DEF End
  <2>4. Alike(app, app) /\ Moves(app) /\ used' \in Bounds /\ TextsOK(cast, app, jobs', used', hist')
    BY <1>1, <1>3, <1>10, <2>2, AppStays
  <2>5. Now(F)'
    BY <1>1, <1>3, <1>7, <2>2, <2>3, <2>4, Arrive
  <2> QED
    BY <2>5
<1>11. CASE End(j) /\ app' = [app EXCEPT !.dev = None] /\ j.o \in g /\ CopyOf \subseteq g
  <2>1. Flushing(app, hist, hist', jobs, jobs')
    BY <1>7, <1>11, FlushOver
  <2>2. TextsOK(cast, app, jobs', used, hist') /\ AppOK(F, hist', app)
    BY <1>7, <2>1, StayTexts
  <2>3. JobsOK(F, hist', app.gen, Len(app.ops), jobs')
    BY <1>8, <1>11, JobsSet DEF End
  <2>4. PICK n : n = [app EXCEPT !.dev = None]
    OBVIOUS
  <2>5. \A o \in 1..Len(app.ops) : app.open = 0 /\ Copied(app, hist'.mine[o]) => o \in hist'.given
    BY <1>7, <1>11, CopyOfOK
  <2>6. /\ AppOK(F, hist', n) /\ TextsOK(cast, n, jobs', used, hist')
        /\ n.gen = app.gen /\ n.gens = app.gens /\ Len(n.ops) = Len(app.ops)
    BY <2>2, <2>4, <2>5, LoseCopy
  <2>7. /\ Alike(n, n) /\ Moves(n) /\ used' \in Bounds /\ TextsOK(cast, n, jobs', used', hist')
        /\ n.gens \subseteq {n.gen} /\ JobsOK(F, hist', n.gen, Len(n.ops), jobs')
    BY <1>1, <1>3, <1>11, <2>3, <2>4, <2>6 DEF Alike, Moves
  <2>8. Now(F)'
    BY <1>1, <1>7, <2>6, <2>7, Arrive
  <2> QED
    BY <2>8
<1>12. CASE Become(j, [j EXCEPT !.pc = pc]) /\ app' = app
  <2>1. PICK k : k = [j EXCEPT !.pc = pc]
    OBVIOUS
  <2>2. /\ k \in Works /\ k.kind = j.kind /\ k.o = j.o /\ k.gen = j.gen
        /\ k.key = j.key /\ k.v = j.v /\ k.text = j.text /\ k.res = j.res /\ k.list = j.list
        /\ k.pc = "mint" \/ (k.pc = "write" /\ j.v # 0)
    BY <1>2, <2>1 DEF Works, pc
  <2>3. k.pc = "write" => Knows(F, hist', k.o, k.key, k.v)
    <3>1. Names(F, hist', j.o, j.key, j.v)
      BY <1>2, <1>7 DEF Names, Knows, KnowsText, Grows
    <3> QED
      BY <2>2, <3>1 DEF Names
  <2>4. JobOK(F, hist', app.gen, Len(app.ops), k)
    BY <1>1, <1>8, <2>2, <2>3 DEF JobOK, Writers
  <2>5. Become(j, k)
    BY <1>12, <2>1
  <2>6. JobsOK(F, hist', app.gen, Len(app.ops), jobs')
    BY <1>8, <2>4, <2>5, JobsSet DEF Become
  <2>7. Flushing(app, hist, hist', jobs, jobs')
    BY <2>2, <2>5, FlushingKept DEF Become
  <2>8. AppOK(F, hist', app) /\ Alike(app, app) /\ Moves(app)
    BY <1>3, <1>7, <1>12, AppMono, AppStays
  <2>9. Now(F)'
    BY <1>1, <1>3, <1>7, <2>6, <2>7, <2>8, MoveStep
  <2> QED
    BY <2>9
<1> QED
  BY <1>9, <1>10, <1>11, <1>12

LEMMA FlushEndsStep ==
  ASSUME NEW F, Now(F), NEW j \in jobs, FlushEnds(j) PROVE \E G : Now(G)'
<1>1. j.kind = "flush" /\ j.pc = "answer" /\ cast' = cast /\ rows' = rows /\ used' = used
  BY DEF FlushEnds
<1>2. /\ JobOK(F, hist, app.gen, Len(app.ops), j) /\ j \in Works /\ j.o \in 1..Len(app.ops)
      /\ j.o \in Nat /\ j.o # 0 /\ (~isCurrent(j) => j.o \in hist.given)
      /\ (isCurrent(j) /\ j.res = "ok" => j.text \in hist.stored)
  <2>1. JobOK(F, hist, app.gen, Len(app.ops), j) /\ j \in Works /\ j.o \in 1..Len(app.ops)
        /\ j.o \in Nat
    BY <1>1, JobFacts DEF Writers
  <2>2. j.o # 0
    BY <2>1
  <2> QED
    BY <1>1, <2>1, <2>2 DEF JobOK, Writers, isCurrent, Wrote
<1>3. /\ hist \in Hists /\ AppOK(F, hist, app) /\ used \in Bounds
      /\ app.gens \subseteq {app.gen} /\ JobsOK(F, hist, app.gen, Len(app.ops), jobs)
  BY Facts
<1>4. PICK g : g = IF j.res = "ok" \/ j.o \in CopyOf THEN hist.given ELSE hist.given \cup {j.o}
  OBVIOUS
<1>5. g \in NatSets /\ hist.given \subseteq g
  BY <1>2, <1>3, <1>4 DEF Hists, NatSets
<1>6. hist' = [hist EXCEPT !.given = g]
  BY <1>4 DEF FlushEnds
<1>7. /\ hist' \in Hists /\ Grows(hist, hist') /\ hist'.mine = hist.mine
      /\ hist'.typed = hist.typed /\ hist'.blind = hist.blind /\ hist'.given = g
  BY <1>5, <1>6, GivenOK
<1>8. /\ JobsOK(F, hist', app.gen, Len(app.ops), jobs)
      /\ JobOK(F, hist', app.gen, Len(app.ops), j) /\ AppOK(F, hist', app)
  <2>1. Len(app.ops) \in Nat /\ Len(app.ops) <= Len(app.ops)
    BY Facts
  <2>2. JobsOK(F, hist', app.gen, Len(app.ops), jobs)
    BY <1>3, <1>7, <2>1, JobsMono
  <2>3. AppOK(F, hist', app)
    BY <1>3, <1>7, AppMono
  <2> QED
    BY <2>2, <2>3 DEF JobsOK
<1>9. CASE End(j) /\ (j.o \in g \/ j.o \in CopyOf)
  <2>1. Flushing(app, hist, hist', jobs, jobs')
    BY <1>7, <1>9, FlushOver
  <2>2. JobsOK(F, hist', app.gen, Len(app.ops), jobs')
    BY <1>8, <1>9, JobsSet DEF End
  <2>3. CASE app' = app
    <3>1. Alike(app, app) /\ Moves(app)
      BY <2>3, AppStays
    <3>2. Now(F)'
      BY <1>1, <1>3, <1>7, <1>8, <2>1, <2>2, <3>1, MoveStep
    <3> QED
      BY <3>2
  <2>4. CASE isCurrent(j) /\ app' = Say(j, [app EXCEPT !.err = TRUE])
    <3>1. PICK b : b = [app EXCEPT !.err = TRUE]
      OBVIOUS
    <3>2. b \in Flagged(app, {}) /\ {} \in NatSets
      BY <3>1 DEF Flagged, NatSets
    <3>3. /\ AppOK(F, hist', b) /\ Alike(app, b) /\ b.gen = app.gen
          /\ b.gens = app.gens \/ b.gens = {}
      BY <1>8, <3>2, SetFlags
    <3>4. PICK m : m = Say(j, b)
      OBVIOUS
    <3>5. /\ AppOK(F, hist', m) /\ Alike(b, m) /\ m.gen = app.gen /\ m.gens \subseteq {app.gen}
      BY <1>3, <2>4, <3>3, <3>4, SayAt
    <3>6. Alike(app, m) /\ Moves(m)
      BY <2>4, <3>1, <3>3, <3>4, <3>5, AlikeTrans DEF Moves
    <3>7. Now(F)'
      BY <1>1, <1>3, <1>7, <2>1, <2>2, <3>5, <3>6, MoveStep
    <3> QED
      BY <3>7
  <2>5. app' = app \/ (isCurrent(j) /\ app' = Say(j, [app EXCEPT !.err = TRUE]))
    BY DEF FlushEnds
  <2> QED
    BY <2>3, <2>4, <2>5
<1>10. CASE isCurrent(j) /\ j.res = "ok" /\ Become(j, [j EXCEPT !.pc = "list"]) /\ app' = app
  <2>1. PICK k : k = [j EXCEPT !.pc = "list"]
    OBVIOUS
  <2>2. /\ k \in Works /\ k.kind = j.kind /\ k.o = j.o /\ k.gen = j.gen /\ k.pc = "list"
        /\ k.key = j.key /\ k.v = j.v /\ k.text = j.text /\ k.res = j.res /\ k.list = j.list
    BY <1>2, <2>1 DEF Works
  <2>3. JobOK(F, hist', app.gen, Len(app.ops), k)
    <3>1. j.text \in hist'.stored
      BY <1>2, <1>7, <1>10 DEF Grows
    <3> QED
      BY <1>1, <1>8, <2>2, <3>1 DEF JobOK, Writers
  <2>4. Become(j, k)
    BY <1>10, <2>1
  <2>5. JobsOK(F, hist', app.gen, Len(app.ops), jobs')
    BY <1>8, <2>3, <2>4, JobsSet DEF Become
  <2>6. Flushing(app, hist, hist', jobs, jobs')
    BY <2>2, <2>4, FlushingKept DEF Become
  <2>7. Alike(app, app) /\ Moves(app)
    BY <1>10, AppStays
  <2>8. Now(F)'
    BY <1>1, <1>3, <1>7, <1>8, <2>5, <2>6, <2>7, MoveStep
  <2> QED
    BY <2>8
<1>11. \/ End(j) /\ (j.o \in g \/ j.o \in CopyOf)
       \/ isCurrent(j) /\ j.res = "ok" /\ Become(j, [j EXCEPT !.pc = "list"]) /\ app' = app
  <2>1. CASE ~isCurrent(j)
    BY <1>2, <1>5, <2>1 DEF FlushEnds
  <2>2. CASE isCurrent(j) /\ j.res = "ok"
    BY <2>2 DEF FlushEnds
  <2>3. CASE isCurrent(j) /\ j.res # "ok"
    BY <1>4, <2>3 DEF FlushEnds
  <2> QED
    BY <2>1, <2>2, <2>3
<1> QED
  BY <1>9, <1>10, <1>11

-----------------------------------------------------------------------------
(* Sending.                                                                *)

\* What a Send is at, which the invariant says nothing of.
AtSend(a, o, x) == [a EXCEPT !.ops[o].pend = x.pend, !.ops[o].sending = x.sending]
SendStates == [pend : BOOLEAN, sending : {"none", "waiting", "claimed", "refused", "threw"}]

LEMMA SetSending ==
  ASSUME NEW F, NEW h, NEW a, AppOK(F, h, a), NEW o \in 1..Len(a.ops), NEW x \in SendStates,
         NEW b, b = AtSend(a, o, x)
  PROVE  /\ AppOK(F, h, b) /\ Alike(a, b) /\ SameTab(a, b)
         /\ b.scr = a.scr /\ b.dev = a.dev
         /\ b.gen = a.gen /\ b.gens = a.gens /\ b.open = a.open /\ b.list = a.list
         /\ Len(b.ops) = Len(a.ops)
<1> DEFINE c == [a.ops[o] EXCEPT !.pend = x.pend, !.sending = x.sending]
<1>1. a.ops[o] \in Composes /\ ComposeOK(F, h, o, a.ops[o]) /\ a \in Apps /\ a.ops \in ComposeSeqs
  BY AppFields, ComposeAt DEF AppOK, ComposesOK
<1>2. b = WithCompose(a, o, c)
  BY <1>1 DEF WithCompose, AtSend, Apps, ComposeSeqs
<1>3. /\ c \in Composes /\ c.wrote = a.ops[o].wrote /\ c.minted = a.ops[o].minted
      /\ c.fresh = a.ops[o].fresh /\ c.opened = a.ops[o].opened
      /\ StaysOff(a.ops[o], c)
  BY <1>1 DEF Composes, StaysOff, SendStates
<1> HIDE DEF c
<1>4. ComposeOK(F, h, o, c)
  BY <1>1, <1>3 DEF ComposeOK
<1>5. /\ AppOK(F, h, b) /\ Alike(a, b) /\ SameTab(a, b) /\ b.scr = a.scr /\ b.dev = a.dev
  BY <1>2, <1>3, <1>4, SetCompose
<1> QED
  BY <1>5 DEF SameTab, Alike

LEMMA sendStep ==
  ASSUME NEW F, Now(F), send PROVE \E G : Now(G)'
<1>1. /\ cast' = cast /\ rows' = rows /\ hist' = hist /\ app.scr # None
      /\ used' = [used EXCEPT !.sends = @ + 1] /\ app.open # 0
      /\ AppOK(F, hist, app) /\ app.gens \subseteq {app.gen} /\ used \in Bounds
      /\ app.open \in 1..Len(app.ops) /\ app.open \in Nat /\ app \in Apps /\ app.gen \in Nat
      /\ app.scr \in Screens \cup {None}
  BY Facts, AppFields DEF send
<1>2. used' \in Bounds /\ used'.texts = used.texts
  BY <1>1 DEF Bounds
<1>3. PICK x : x = [pend |-> TRUE, sending |-> "waiting"]
  OBVIOUS
<1>4. PICK b : b = AtSend(app, app.open, x)
  OBVIOUS
<1>5. x \in SendStates
  BY <1>3 DEF SendStates
<1>6. /\ AppOK(F, hist, b) /\ Alike(app, b) /\ b.gen = app.gen /\ b.gens = app.gens
  BY <1>1, <1>4, <1>5, SetSending
<1>7. PICK m : m = [b EXCEPT !.armed = FALSE]
  OBVIOUS
<1>8. m \in Flagged(b, {}) /\ {} \in NatSets
  BY <1>7 DEF Flagged, NatSets
<1>9. AppOK(F, hist, m) /\ Alike(b, m) /\ m.gen = b.gen /\ (m.gens = b.gens \/ m.gens = {})
  BY <1>6, <1>8, SetFlags
<1>10. Alike(app, m) /\ m.gen = app.gen /\ m.gens \subseteq {app.gen} /\ Moves(m)
  <2>1. app' = m
    BY <1>3, <1>4, <1>7 DEF send, AtSend
  <2> QED
    BY <1>1, <1>6, <1>9, <2>1, AlikeTrans DEF Moves
<1>11. /\ app.scr \in Screens /\ app.scr.key \in KeyOrNot /\ app.scr.v \in Nat
       /\ app.scr.text \in Nat /\ Names(F, hist, app.open, app.scr.key, app.scr.v)
  BY <1>1 DEF Screens, AppOK, ScreenOK
<1>12. PICK i : i = Job("send", app.open, app)
  OBVIOUS
<1>13. /\ i \in Works /\ i.kind = "send" /\ i.o = app.open /\ i.pc = "start"
       /\ i.gen = app.gen /\ i.list = NoList
  BY <1>1, <1>12, NoListOK DEF Job, Works, KeyOrNot
<1>14. PICK k : k = [i EXCEPT !.key = app.scr.key, !.v = app.scr.v, !.text = app.scr.text]
  OBVIOUS
<1>15. /\ k \in Works /\ k.kind = "send" /\ k.o = app.open /\ k.pc = "start"
       /\ k.gen = app.gen /\ k.list = NoList /\ k.key = app.scr.key /\ k.v = app.scr.v
  BY <1>11, <1>13, <1>14 DEF Works
<1>16. JobOK(F, hist, app.gen, Len(app.ops), k)
  <2>1. app.open \in 0..Len(app.ops)
    BY Facts
  <2>2. Names(F, hist, k.o, k.key, k.v) /\ k.kind \in Writers
    BY <1>11, <1>15 DEF Writers
  <2> QED
    BY <1>1, <1>15, <2>1, <2>2, StartOK
<1>17. jobs' = jobs \cup {k}
  BY <1>12, <1>14 DEF send
<1>18. Now(F)'
  BY <1>1, <1>2, <1>9, <1>10, <1>16, <1>17, AddMove
<1> QED
  BY <1>18

\* A Send refused: its opening may save and send again.
LEMMA RefusedStep ==
  ASSUME NEW F, Now(F), NEW j \in jobs, j.kind = "send", NEW how,
         how \in {"refused", "threw"}, Refused(j, how), End(j),
         cast' = cast, rows' = rows, used' = used, hist' = hist
  PROVE  Now(F)'
<1>1. AppOK(F, hist, app) /\ app.gens \subseteq {app.gen} /\ j.o \in 1..Len(app.ops)
  BY AppStays, JobFacts DEF Writers
<1>2. PICK x : x = [pend |-> FALSE, sending |-> how]
  OBVIOUS
<1>3. x \in SendStates
  BY <1>2 DEF SendStates
<1>4. PICK b : b = AtSend(app, j.o, x)
  OBVIOUS
<1>5. AppOK(F, hist, b) /\ Alike(app, b) /\ b.gen = app.gen /\ b.gens = app.gens
  BY <1>1, <1>3, <1>4, SetSending
<1>6. Moves(b)
  <2>1. b = [app EXCEPT !.ops[j.o].pend = FALSE, !.ops[j.o].sending = how]
    BY <1>2, <1>4 DEF AtSend
  <2>2. Rearms(b) \in BOOLEAN
    BY DEF Rearms
  <2>3. app' = IF b.open = j.o THEN Rendered(b, Rearms(b)) ELSE b
    BY <2>1 DEF Refused
  <2> QED
    BY <2>2, <2>3 DEF Moves
<1> QED
  BY <1>1, <1>5, <1>6, EndMove

LEMMA SendStartsStep ==
  ASSUME NEW F, Now(F), NEW j \in jobs, SendStarts(j) PROVE \E G : Now(G)'
<1>1. /\ j.kind = "send" /\ j.pc = "start" /\ cast' = cast /\ rows' = rows /\ used' = used
      /\ hist' = hist
  BY DEF SendStarts
<1>2. /\ JobOK(F, hist, app.gen, Len(app.ops), j) /\ j \in Works /\ j.o \in 1..Len(app.ops)
      /\ j.key \in KeyOrNot /\ j.v \in Nat /\ j.text \in Nat
      /\ Names(F, hist, j.o, j.key, j.v)
  <2>1. /\ JobOK(F, hist, app.gen, Len(app.ops), j) /\ j \in Works /\ j.o \in 1..Len(app.ops)
        /\ j.key \in KeyOrNot /\ j.v \in Nat /\ j.text \in Nat
    BY <1>1, JobFacts DEF Writers
  <2> QED
    BY <1>1, <2>1 DEF JobOK, Writers
<1>3. CASE ~isCurrent(j)
  <2>1. Refused(j, "refused") /\ End(j)
    BY <1>3 DEF SendStarts
  <2>2. PICK how : how = "refused"
    OBVIOUS
  <2>3. Now(F)'
    BY <1>1, <2>1, <2>2, RefusedStep
  <2> QED
    BY <2>3
<1>4. CASE isCurrent(j)
  <2>1. PICK s : s = IF app.open = j.o /\ app.scr # None THEN app.scr
                     ELSE [key |-> j.key, v |-> j.v, text |-> j.text]
    OBVIOUS
  <2>2. PICK w : w = app.ops[j.o].wrote
    OBVIOUS
  <2>3. PICK id : id = IF w.key # 0 THEN w ELSE IdOf(s.key, s.v)
    OBVIOUS
  <2>4. /\ Become(j, [j EXCEPT !.pc = IF id.key = 0 THEN "mint" ELSE "claim",
                               !.key = id.key, !.v = id.v, !.text = s.text])
        /\ app' = app
    BY <1>4, <2>1, <2>2, <2>3 DEF SendStarts
  <2>5. s \in Screens /\ Names(F, hist, j.o, s.key, s.v)
    <3>1. CASE app.open = j.o /\ app.scr # None
      <4>1. app.scr \in Screens \cup {None} /\ ScreenOK(F, hist, app.open, app.scr)
        BY Facts, AppFields DEF AppOK
      <4> QED
        BY <2>1, <3>1, <4>1 DEF ScreenOK
    <3>2. CASE ~(app.open = j.o /\ app.scr # None)
      BY <1>2, <2>1, <3>2 DEF Screens
    <3> QED
      BY <3>1, <3>2
  <2>6. w \in Screens /\ Names(F, hist, j.o, w.key, w.v)
    <3>1. app.ops[j.o] \in Composes /\ ComposeOK(F, hist, j.o, app.ops[j.o])
      BY <1>2, Facts, ComposeAt DEF AppOK, ComposesOK
    <3> QED
      BY <2>2, <3>1 DEF Composes, ComposeOK
  <2>7. id \in Screens /\ Names(F, hist, j.o, id.key, id.v)
    BY <2>3, <2>5, <2>6 DEF IdOf, Screens
  <2>8. PICK k : k = [j EXCEPT !.pc = IF id.key = 0 THEN "mint" ELSE "claim",
                               !.key = id.key, !.v = id.v, !.text = s.text]
    OBVIOUS
  <2>9. /\ k \in Works /\ k.kind = j.kind /\ k.o = j.o /\ k.gen = j.gen
        /\ k.key = id.key /\ k.v = id.v /\ k.res = j.res /\ k.list = j.list
        /\ k.pc = "mint" \/ (k.pc = "claim" /\ id.key # 0)
    BY <1>2, <2>5, <2>7, <2>8 DEF Works, Screens
  <2>10. k.pc = "claim" => Knows(F, hist, k.o, k.key, k.v)
    BY <2>7, <2>9 DEF Names
  <2>11. JobOK(F, hist, app.gen, Len(app.ops), k)
    BY <1>1, <1>2, <2>9, <2>10 DEF JobOK, Writers
  <2>12. Become(j, k)
    BY <2>4, <2>8
  <2>13. Now(F)'
    BY <1>1, <2>4, <2>9, <2>11, <2>12, BecomeStep
  <2> QED
    BY <2>13
<1> QED
  BY <1>3, <1>4

LEMMA claimSendStep ==
  ASSUME NEW F, Now(F), NEW j \in jobs, claimSend(j) PROVE \E G : Now(G)'
<1>1. j.kind = "send" /\ j.pc = "claim" /\ cast' = cast
  BY DEF claimSend
<1>2. /\ Knows(F, hist, j.o, j.key, j.v) /\ j \in Works /\ j.v \in Nat
      /\ j.key \in Keys /\ rows[j.key].v \in Nat
  <2>1. Knows(F, hist, j.o, j.key, j.v)
    BY <1>1, JobFacts DEF JobOK
  <2> QED
    BY <2>1, JobFacts, CurrentText
<1>3. CASE Refused(j, "refused") /\ End(j) /\ UNCHANGED <<rows, used, hist>>
  <2>1. PICK how : how = "refused"
    OBVIOUS
  <2>2. Now(F)'
    BY <1>1, <1>3, <2>1, RefusedStep
  <2> QED
    BY <2>2
<1>4. CASE /\ Refusal(j.key, j.v) = "ok"
           /\ Put(j.key, j.text, "sending") /\ Record(j, rows[j.key].text)
           /\ Become(j, [j EXCEPT !.pc = "answer", !.res = "ok", !.v = @ + 1])
           /\ UNCHANGED <<app, used>>
  <2>1. PICK v \in Nat : v = j.v + 1
    BY <1>2
  <2>2. PICK G : G = Logged(F, j.key, j.v + 1, j.text)
    OBVIOUS
  <2>3. PICK st : st = "sending"
    OBVIOUS
  <2>4. st \in States \cup {rows[j.key].st} /\ st # "none" /\ Put(j.key, j.text, st)
    BY <1>4, <2>3 DEF States
  <2>5. /\ rows' \in [Keys -> Handles] /\ Log(G) /\ RowsOK(G, cast, rows', hist')
        /\ hist' \in Hists /\ Grows(hist, hist') /\ hist'.mine = hist.mine /\ hist'.typed = hist.typed
        /\ hist'.blind \subseteq hist'.crossed
        /\ <<j.o, j.text>> \in hist'.known /\ j.text \in hist'.stored
    BY <1>2, <1>4, <2>2, <2>4, WriteLands
  <2>6. F \subseteq G /\ Landed(G, hist', j, v)
    BY <2>1, <2>2, <2>5 DEF Logged, Landed
  <2>7. /\ JobOK(G, hist', app.gen, Len(app.ops), Answered(j, "ok", v))
        /\ Answered(j, "ok", v).kind = j.kind
    BY <1>1, <2>5, <2>6, AnswerOK, ZenonT(60)
  <2>8. Become(j, Answered(j, "ok", v))
    BY <1>4, <2>1 DEF Answered
  <2>9. Now(G)'
    BY <1>1, <1>4, <2>5, <2>6, <2>7, <2>8, VaultStep
  <2> QED
    BY <2>9
<1>5. CASE /\ \E r \in {"refused", "threw"} : Become(j, [j EXCEPT !.pc = "answer", !.res = r])
           /\ Fault \/ used' = used
           /\ UNCHANGED <<rows, app, hist>>
  <2>1. PICK r \in {"refused", "threw"} : Become(j, [j EXCEPT !.pc = "answer", !.res = r])
    BY <1>5
  <2>2. PICK k : k = Answered(j, r, j.v)
    OBVIOUS
  <2>3. Become(j, k)
    BY <1>2, <2>1, <2>2 DEF Works, Answered
  <2>4. hist' \in Hists /\ Grows(hist, hist') /\ hist'.blind \subseteq hist'.crossed
        /\ hist'.mine = hist.mine /\ hist'.typed = hist.typed
    BY <1>5, ThrewOK
  <2>5. r # "ok" /\ r \in {"ok", "threw", "offline", "sending", "conflict", "refused"}
    OBVIOUS
  <2>6. JobOK(F, hist', app.gen, Len(app.ops), k) /\ k.kind = j.kind
    BY <1>1, <1>2, <2>2, <2>4, <2>5, AnswerOK
  <2>7. rows' \in [Keys -> Handles] /\ Log(F) /\ RowsOK(F, cast, rows', hist')
    BY <1>5, <2>4, SameVault
  <2>8. Now(F)'
    BY <1>1, <1>5, <2>3, <2>4, <2>6, <2>7, VaultStep
  <2> QED
    BY <2>8
<1>6. \/ Refused(j, "refused") /\ End(j) /\ UNCHANGED <<rows, used, hist>>
      \/ /\ Refusal(j.key, j.v) = "ok"
         /\ Put(j.key, j.text, "sending") /\ Record(j, rows[j.key].text)
         /\ Become(j, [j EXCEPT !.pc = "answer", !.res = "ok", !.v = @ + 1])
         /\ UNCHANGED <<app, used>>
      \/ /\ \E r \in {"refused", "threw"} : Become(j, [j EXCEPT !.pc = "answer", !.res = r])
         /\ Fault \/ used' = used
         /\ UNCHANGED <<rows, app, hist>>
  BY DEF claimSend
<1> QED
  BY <1>3, <1>4, <1>5, <1>6

\* The claim lets go of the compose on screen.
Cleared(a) == [a EXCEPT !.scr = None, !.dev = None, !.armed = FALSE]

LEMMA ClearedOK ==
  ASSUME NEW F, NEW h, NEW a, AppOK(F, h, a), NEW b, b = Cleared(a)
  PROVE  /\ AppOK(F, h, b) /\ b.open = a.open /\ b.scr = None /\ b.dev = None /\ b.ops = a.ops
         /\ b.gen = a.gen /\ b.gens = a.gens /\ b.list = a.list
         /\ Discarded(b) = Discarded(a)
<1>1. a \in Apps
  BY DEF AppOK
<1>2. b \in Apps
  BY <1>1 DEF Cleared, Apps
<1>3. /\ b.open = a.open /\ b.scr = None /\ b.dev = None /\ b.armed = FALSE /\ b.ops = a.ops
      /\ b.gen = a.gen /\ b.gens = a.gens /\ b.list = a.list /\ b.thaw = a.thaw
      /\ b.conflict = a.conflict
  BY <1>1 DEF Cleared, Apps
<1>4. CopyOK(F, b.dev) /\ ScreenOK(F, h, b.open, b.scr)
  BY <1>3 DEF CopyOK, ScreenOK
<1>5. Discarded(b) = Discarded(a)
  BY <1>3 DEF Discarded
<1> QED
  BY <1>2, <1>3, <1>4, <1>5 DEF AppOK

\* The opening whose message went, and the draft's entry on the list.
Claimed(a, o)    == [a EXCEPT !.ops[o].sending = "claimed"]
Frost(j)         == [v |-> j.v, text |-> j.text, st |-> "sending"]
EntryAfter(a, j) == IF isCurrent(j) /\ a.list[j.key] # None THEN Frost(j) ELSE a.list[j.key]
Gone(j)          == WithEntry(Claimed(app, j.o), j.key, EntryAfter(app, j))

LEMMA GoneOK ==
  ASSUME NEW F, Now(F), NEW h, Grows(hist, h), NEW j \in jobs, j.kind = "send",
         j.pc = "answer", j.res = "ok", NEW b, b = Gone(j)
  PROVE  /\ AppOK(F, h, b) /\ Alike(app, b) /\ b.gen = app.gen /\ b.gens = app.gens
         /\ b.open = app.open /\ Len(b.ops) = Len(app.ops)
<1>1. /\ AppOK(F, hist, app) /\ j.o \in 1..Len(app.ops) /\ app \in Apps
      /\ app.ops \in ComposeSeqs /\ app.list \in Lists
  BY JobFacts, Facts, AppFields DEF Writers
<1>2. AppOK(F, h, app)
  BY <1>1, AppMono
<1>3. PICK c : c = Claimed(app, j.o)
  OBVIOUS
<1>4. /\ AppOK(F, h, c) /\ Alike(app, c) /\ c.gen = app.gen /\ c.gens = app.gens
      /\ c.open = app.open /\ Len(c.ops) = Len(app.ops)
  <2>1. PICK o \in 1..Len(app.ops) : o = j.o
    BY <1>1
  <2> DEFINE q == [app.ops[o] EXCEPT !.sending = "claimed"]
  <2>2. app.ops[o] \in Composes /\ ComposeOK(F, h, o, app.ops[o])
    BY <1>1, <1>2, ComposeAt DEF AppOK, ComposesOK
  <2>3. c = WithCompose(app, o, q)
    BY <1>3, <2>1 DEF WithCompose, Claimed
  <2>4. /\ q \in Composes /\ q.wrote = app.ops[o].wrote /\ q.minted = app.ops[o].minted
        /\ q.fresh = app.ops[o].fresh /\ q.opened = app.ops[o].opened
        /\ StaysOff(app.ops[o], q)
    BY <2>2 DEF Composes, StaysOff
  <2> HIDE DEF q
  <2>5. ComposeOK(F, h, o, q)
    BY <2>2, <2>4 DEF ComposeOK
  <2>6. AppOK(F, h, c) /\ Alike(app, c) /\ SameTab(app, c)
    BY <1>2, <2>3, <2>4, <2>5, SetCompose
  <2> QED
    BY <2>6 DEF SameTab, Alike
<1>5. PICK x : x = EntryAfter(app, j)
  OBVIOUS
<1>6. Held(F, j.key, x)
  <2>1. /\ j.key \in Keys /\ (isCurrent(j) => Wrote(F, hist, j)) /\ j.v \in Nat /\ j.text \in Nat
    BY JobFacts DEF JobOK, isCurrent
  <2>2. PICK k \in Keys : k = j.key
    BY <2>1
  <2>3. /\ app.list[k] \in Handles \cup {None}
        /\ app.list[k] = None \/ <<k, app.list[k].v, app.list[k].text>> \in F
    BY <1>1 DEF AppOK, ListOK, Lists
  <2>4. CASE isCurrent(j) /\ app.list[j.key] # None
    <3>1. PICK y : y = Frost(j)
      OBVIOUS
    <3>2. y \in Handles /\ y.v = j.v /\ y.text = j.text
      BY <2>1, <3>1 DEF Frost, Handles, States
    <3>3. x = y /\ <<j.key, y.v, y.text>> \in F
      BY <1>5, <2>1, <2>4, <3>1, <3>2 DEF EntryAfter, Wrote
    <3> QED
      BY <2>1, <3>2, <3>3 DEF Held
  <2>5. CASE ~(isCurrent(j) /\ app.list[j.key] # None)
    <3>1. x = app.list[k]
      BY <1>5, <2>2, <2>5 DEF EntryAfter
    <3> QED
      BY <2>2, <2>3, <3>1 DEF Held
  <2> QED
    BY <2>4, <2>5
<1>7. b = WithEntry(c, j.key, x)
  BY <1>3, <1>5 DEF Gone
<1>8. AppOK(F, h, b) /\ Alike(c, b) /\ b.gen = c.gen /\ b.gens = c.gens /\ b.open = c.open
      /\ b.ops = c.ops
  BY <1>4, <1>6, <1>7, SetEntry
<1> QED
  BY <1>4, <1>8, AlikeTrans

LEMMA SendEndsStep ==
  ASSUME NEW F, Now(F), NEW j \in jobs, SendEnds(j) PROVE \E G : Now(G)'
<1>1. j.kind = "send" /\ j.pc = "answer" /\ cast' = cast /\ rows' = rows /\ used' = used
  BY DEF SendEnds
<1>2. /\ JobOK(F, hist, app.gen, Len(app.ops), j) /\ j \in Works /\ j.o \in 1..Len(app.ops)
      /\ j.o \in Nat
  BY <1>1, JobFacts DEF Writers
<1>3. /\ hist \in Hists /\ AppOK(F, hist, app) /\ used \in Bounds
      /\ app.gens \subseteq {app.gen} /\ JobsOK(F, hist, app.gen, Len(app.ops), jobs)
      /\ TextsOK(cast, app, jobs, used, hist) /\ app.list \in Lists /\ app \in Apps
  BY Facts, AppFields
<1>4. CASE j.res # "ok"
  <2>1. hist' = hist
    BY <1>3, <1>4 DEF SendEnds, Hists
  <2>2. PICK how : how = IF j.res = "threw" THEN "threw" ELSE "refused"
    OBVIOUS
  <2>3. Refused(j, how) /\ End(j) /\ how \in {"refused", "threw"}
    BY <1>4, <2>2 DEF SendEnds
  <2>4. Now(F)'
    BY <1>1, <2>1, <2>3, RefusedStep
  <2> QED
    BY <2>4
<1>5. CASE j.res = "ok"
  <2>1. PICK g : g = IF app.open = j.o THEN hist.given \cup {j.o} ELSE hist.given
    OBVIOUS
  <2>2. g \in NatSets /\ hist.given \subseteq g /\ (app.open = j.o => j.o \in g)
    BY <1>2, <1>3, <2>1 DEF Hists, NatSets
  <2>3. hist' = [hist EXCEPT !.given = g]
    BY <1>5, <2>1 DEF SendEnds
  <2>4. /\ hist' \in Hists /\ Grows(hist, hist') /\ hist'.mine = hist.mine
        /\ hist'.typed = hist.typed /\ hist'.blind = hist.blind /\ hist'.given = g
    BY <2>2, <2>3, GivenOK
  <2>5. /\ JobsOK(F, hist', app.gen, Len(app.ops), jobs)
        /\ JobOK(F, hist', app.gen, Len(app.ops), j)
    <3>1. Len(app.ops) \in Nat /\ Len(app.ops) <= Len(app.ops)
      BY Facts
    <3>2. JobsOK(F, hist', app.gen, Len(app.ops), jobs)
      BY <1>3, <2>4, <3>1, JobsMono
    <3> QED
      BY <3>2 DEF JobsOK
  <2>6. PICK k : k = [j EXCEPT !.kind = "settle", !.pc = "run"]
    OBVIOUS
  <2>7. /\ k \in Works /\ k.kind = "settle" /\ k.pc = "run" /\ k.o = j.o /\ k.gen = j.gen
        /\ k.key = j.key /\ k.list = j.list
    BY <1>2, <2>6 DEF Works
  <2>8. JobOK(F, hist', app.gen, Len(app.ops), k)
    <3>1. j.o # 0 /\ j.key \in Keys
      BY <1>1, <1>2, <1>5 DEF JobOK, Writers
    <3> QED
      BY <2>5, <2>7, <3>1 DEF JobOK, Writers
  <2>9. Become(j, k)
    BY <1>5, <2>6 DEF SendEnds
  <2>10. JobsOK(F, hist', app.gen, Len(app.ops), jobs')
    BY <2>5, <2>8, <2>9, JobsSet DEF Become
  <2>11. Flushing(app, hist, hist', jobs, jobs')
    BY <1>1, <2>9, FlushingKept DEF Become
  <2>12. PICK a : a = Gone(j)
    OBVIOUS
  <2>13. /\ AppOK(F, hist', a) /\ Alike(app, a) /\ a.gen = app.gen /\ a.gens = app.gens
         /\ a.open = app.open /\ Len(a.ops) = Len(app.ops)
    BY <1>1, <1>5, <2>4, <2>12, GoneOK
  <2>14. PICK b : b = IF a.open = j.o THEN Cleared(a) ELSE a
    OBVIOUS
  <2>15. app' = Rendered(IF isCurrent(j) THEN Say(j, b) ELSE b, FALSE)
    <3>1. a = [app EXCEPT !.ops[j.o].sending = "claimed",
                          !.list[j.key] = IF isCurrent(j) /\ @ # None THEN Frost(j) ELSE @]
      BY <1>3, <2>12 DEF Gone, Claimed, WithEntry, EntryAfter, Apps
    <3> QED
      BY <1>5, <2>14, <3>1 DEF SendEnds, Frost, Cleared
  <2>16. /\ AppOK(F, hist', b) /\ b.gen = app.gen /\ b.gens \subseteq {app.gen}
         /\ Len(b.ops) = Len(app.ops) /\ b.open = app.open
    <3>1. CASE a.open = j.o
      BY <1>3, <2>13, <2>14, <3>1, ClearedOK
    <3>2. CASE a.open # j.o
      BY <1>3, <2>13, <2>14, <3>2
    <3> QED
      BY <3>1, <3>2
  <2>17. TextsOK(cast, b, jobs', used', hist')
    <3>1. CASE a.open = j.o
      <4>1. /\ b.scr = None /\ b.dev = None /\ b.ops = a.ops /\ Discarded(b) = Discarded(a)
        BY <2>13, <2>14, <3>1, ClearedOK
      <4>2. Discarded(app) \subseteq Discarded(b)
        BY <2>13, <4>1 DEF Alike
      <4>3. Safe(b, jobs', hist', app.open)
        BY <2>2, <2>4, <2>13, <3>1 DEF Safe
      <4>4. app.open \in 1..Len(app.ops)
        BY <1>2, <2>13, <3>1
      <4>5. TextsOK(cast, b, jobs', used, hist')
        BY <1>3, <2>4, <2>11, <2>16, <4>1, <4>2, <4>3, <4>4, LeaveTexts
      <4> QED
        BY <1>1, <4>5
    <3>2. CASE a.open # j.o
      <4>1. Calm(app, a) /\ a = b
        BY <2>13, <2>14, <3>2, Facts, AlikeCalm
      <4>2. used.texts \in Nat /\ used.texts <= used.texts /\ used.texts <= cast.texts
            /\ app.open \in 0..Len(app.ops)
        BY Facts DEF TextsOK
      <4>3. TextsOK(cast, b, jobs', used, hist')
        BY <1>3, <2>4, <2>11, <4>1, <4>2, CalmTexts
      <4> QED
        BY <1>1, <4>3
    <3> QED
      BY <3>1, <3>2
  <2>18. PICK m : m = IF isCurrent(j) THEN Say(j, b) ELSE b
    OBVIOUS
  <2>19. /\ AppOK(F, hist', m) /\ Alike(b, m) /\ m.gen = app.gen /\ m.gens \subseteq {m.gen}
         /\ Len(m.ops) = Len(app.ops)
    <3>1. CASE isCurrent(j)
      <4>1. m = Say(j, b)
        BY <2>18, <3>1
      <4>2. /\ AppOK(F, hist', b) /\ b.gen = app.gen /\ b.gens \subseteq {app.gen}
        BY <2>16
      <4>3. /\ AppOK(F, hist', m) /\ Alike(b, m) /\ m.gen = app.gen
            /\ m.gens \subseteq {m.gen} /\ Len(m.ops) = Len(b.ops)
        <5>1. PICK h : h = hist'
          OBVIOUS
        <5>2. AppOK(F, h, b)
          BY <4>2, <5>1
        <5>3. AppOK(F, h, m) /\ Alike(b, m) /\ m.gen = app.gen
          BY <3>1, <4>1, <4>2, <5>2, SayAt
        <5>4. m.gens \subseteq {app.gen}
          BY <3>1, <4>1, <4>2, <5>2, SayAt
        <5> QED
          BY <5>1, <5>3, <5>4 DEF Alike
      <4> QED
        BY <2>16, <4>3
    <3>2. CASE ~isCurrent(j)
      BY <2>16, <2>18, <3>2 DEF Alike
    <3> QED
      BY <3>1, <3>2
  <2>20. Moves(m)
    BY <2>15, <2>18 DEF Moves
  <2>21. used' \in Bounds /\ JobsOK(F, hist', m.gen, Len(m.ops), jobs')
    BY <1>1, <1>3, <2>10, <2>19
  <2>22. Now(F)'
    BY <1>1, <2>4, <2>16, <2>17, <2>19, <2>20, <2>21, Arrive
  <2> QED
    BY <2>22
<1> QED
  BY <1>4, <1>5

-----------------------------------------------------------------------------
(* Discarding what is on screen.                                           *)

Thrown(a) == [a EXCEPT !.ops[a.open].discarded = TRUE]

LEMMA ThrownOK ==
  ASSUME NEW F, NEW h, NEW a, AppOK(F, h, a), a.open \in 1..Len(a.ops), NEW b, b = Thrown(a)
  PROVE  /\ AppOK(F, h, b) /\ Alike(a, b) /\ b.gen = a.gen /\ b.gens = a.gens
         /\ b.open = a.open /\ b.list = a.list /\ Len(b.ops) = Len(a.ops)
<1>1. a \in Apps /\ a.ops \in ComposeSeqs
  BY AppFields DEF AppOK
<1>2. PICK o \in 1..Len(a.ops) : o = a.open
  OBVIOUS
<1> DEFINE q == [a.ops[o] EXCEPT !.discarded = TRUE]
<1>3. a.ops[o] \in Composes /\ ComposeOK(F, h, o, a.ops[o])
  BY <1>1, ComposeAt DEF AppOK, ComposesOK
<1>4. b = WithCompose(a, o, q)
  BY <1>2 DEF WithCompose, Thrown
<1>5. /\ q \in Composes /\ q.wrote = a.ops[o].wrote /\ q.minted = a.ops[o].minted
      /\ q.fresh = a.ops[o].fresh /\ q.opened = a.ops[o].opened
      /\ StaysOff(a.ops[o], q)
  BY <1>3 DEF Composes, StaysOff
<1> HIDE DEF q
<1>6. ComposeOK(F, h, o, q)
  BY <1>3, <1>5 DEF ComposeOK
<1>7. AppOK(F, h, b) /\ Alike(a, b) /\ SameTab(a, b)
  BY <1>4, <1>5, <1>6, SetCompose
<1> QED
  BY <1>7 DEF SameTab, Alike

LEMMA discardDraftStep ==
  ASSUME NEW F, Now(F), discardDraft PROVE \E G : Now(G)'
<1>1. /\ cast' = cast /\ rows' = rows /\ used' = used /\ app.open # 0 /\ app.scr # None
      /\ hist \in Hists /\ AppOK(F, hist, app) /\ used \in Bounds /\ app.open \in Nat
      /\ app.gens \subseteq {app.gen} /\ JobsOK(F, hist, app.gen, Len(app.ops), jobs)
      /\ TextsOK(cast, app, jobs, used, hist) /\ app.list \in Lists /\ app \in Apps
      /\ app.open \in 1..Len(app.ops) /\ app.gen \in Nat /\ app.scr \in Screens \cup {None}
  BY Facts, AppFields DEF discardDraft
<1>2. PICK g : g = hist.given \cup {app.open}
  OBVIOUS
<1>3. g \in NatSets /\ hist.given \subseteq g /\ app.open \in g
  BY <1>1, <1>2 DEF Hists, NatSets
<1>4. hist' = [hist EXCEPT !.given = g]
  BY <1>2 DEF discardDraft
<1>5. /\ hist' \in Hists /\ Grows(hist, hist') /\ hist'.mine = hist.mine
      /\ hist'.typed = hist.typed /\ hist'.blind = hist.blind /\ hist'.given = g
  BY <1>3, <1>4, GivenOK
<1>6. AppOK(F, hist', app) /\ JobsOK(F, hist', app.gen, Len(app.ops), jobs)
  <2>1. Len(app.ops) \in Nat /\ Len(app.ops) <= Len(app.ops)
    BY Facts
  <2> QED
    BY <1>1, <1>5, <2>1, AppMono, JobsMono
<1>7. PICK a : a = Thrown(app)
  OBVIOUS
<1>8. /\ AppOK(F, hist', a) /\ Alike(app, a) /\ a.gen = app.gen /\ a.gens = app.gens
      /\ a.open = app.open /\ a.list = app.list /\ Len(a.ops) = Len(app.ops)
  BY <1>1, <1>6, <1>7, ThrownOK
<1>9. PICK b : b = ShutBare(a)
  OBVIOUS
<1>10. /\ AppOK(F, hist', b) /\ b.open = 0 /\ b.scr = None /\ b.ops = a.ops
       /\ b.gen = app.gen /\ b.gens = app.gens /\ b.list = app.list
       /\ Discarded(b) = Discarded(a) /\ Len(b.ops) = Len(app.ops)
  BY <1>8, <1>9, ShutOK
<1> DEFINE i == Job("drop", app.open, app)
           k0 == [i EXCEPT !.key = app.scr.key, !.v = app.scr.v, !.text = app.scr.text]
<1>11. \/ app' = b /\ jobs' = jobs
       \/ /\ app.scr.key # 0
          /\ app' = Rendered([b EXCEPT !.list[k0.key] = None], FALSE)
          /\ jobs' = jobs \cup {[k0 EXCEPT !.list = b.list]}
  <2>1. b = [[app EXCEPT !.ops[app.open].discarded = TRUE, !.dev = None]
               EXCEPT !.open = 0, !.scr = None, !.armed = FALSE]
    BY <1>1, <1>7, <1>9 DEF ShutBare, Shut, Thrown, Apps
  <2> QED
    BY <2>1 DEF discardDraft, Dropping
<1>12. \A js : jobs \subseteq js => TextsOK(cast, b, js, used, hist')
  <2> SUFFICES ASSUME NEW js, jobs \subseteq js PROVE TextsOK(cast, b, js, used, hist')
    OBVIOUS
  <2>1. Flushing(app, hist, hist', jobs, js)
    BY DEF Flushing, Flushed, Flushes
  <2>2. Safe(b, js, hist', app.open)
    BY <1>3, <1>5 DEF Safe
  <2>3. Discarded(app) \subseteq Discarded(b)
    BY <1>8, <1>10 DEF Alike
  <2> QED
    BY <1>1, <1>5, <1>10, <2>1, <2>2, <2>3, LeaveTexts
<1>13. CASE app' = b /\ jobs' = jobs
  <2>1. TextsOK(cast, b, jobs', used', hist')
    BY <1>1, <1>12, <1>13
  <2>2. Alike(b, b) /\ Moves(b) /\ b.gens \subseteq {b.gen} /\ used' \in Bounds
        /\ JobsOK(F, hist', b.gen, Len(b.ops), jobs')
    BY <1>1, <1>6, <1>10, <1>13 DEF Alike, Moves
  <2>3. Now(F)'
    BY <1>1, <1>5, <1>10, <2>1, <2>2, Arrive
  <2> QED
    BY <2>3
<1>14. CASE /\ app.scr.key # 0
            /\ app' = Rendered([b EXCEPT !.list[k0.key] = None], FALSE)
            /\ jobs' = jobs \cup {[k0 EXCEPT !.list = b.list]}
  <2>1. app.scr.key \in Keys /\ app.scr.v \in Nat /\ app.scr.text \in Nat
    BY <1>1, <1>14 DEF Screens, KeyOrNot
  <2>2. PICK q : q = i
    OBVIOUS
  <2>3. /\ q \in Works /\ q.kind = "drop" /\ q.o = app.open /\ q.gen = app.gen /\ q.pc = "start"
    BY <1>1, <2>2, NoListOK DEF Job, Works, KeyOrNot
  <2> HIDE DEF i
  <2>4. PICK k : k = [k0 EXCEPT !.list = b.list]
    OBVIOUS
  <2>5. /\ k \in Works /\ k.kind = "drop" /\ k.o = app.open /\ k.gen = app.gen /\ k.pc = "start"
        /\ k.key = app.scr.key /\ k.list = app.list
    BY <1>1, <1>10, <2>1, <2>2, <2>3, <2>4 DEF Works, KeyOrNot
  <2>6. k0.key = app.scr.key
    BY <2>2, <2>3 DEF Works
  <2>7. jobs' = jobs \cup {k}
    BY <1>14, <2>4
  <2> HIDE DEF k0
  <2>8. JobOK(F, hist', app.gen, Len(app.ops), k)
    <3>1. app.open \in 0..Len(app.ops)
      BY Facts
    <3> QED
      BY <2>1, <2>5, <3>1, DropOK
  <2>9. JobsOK(F, hist', app.gen, Len(app.ops), jobs')
    BY <1>6, <2>7, <2>8, JobsSet
  <2>10. TextsOK(cast, b, jobs', used', hist')
    BY <1>1, <1>12, <2>7
  <2>11. PICK m : m = WithEntry(b, app.scr.key, None)
    OBVIOUS
  <2>12. Held(F, app.scr.key, None)
    BY <2>1 DEF Held
  <2>13. /\ AppOK(F, hist', m) /\ Alike(b, m) /\ m.gen = app.gen /\ m.gens = app.gens
         /\ m.ops = b.ops
    BY <1>10, <2>11, <2>12, SetEntry
  <2>14. Moves(m) /\ m.gens \subseteq {m.gen} /\ used' \in Bounds
         /\ JobsOK(F, hist', m.gen, Len(m.ops), jobs')
    BY <1>1, <1>10, <1>14, <2>6, <2>9, <2>11, <2>13 DEF Moves, WithEntry
  <2>15. Now(F)'
    BY <1>1, <1>5, <1>10, <2>10, <2>13, <2>14, Arrive
  <2> QED
    BY <2>15
<1> HIDE DEF i, k0
<1> QED
  BY <1>11, <1>13, <1>14

-----------------------------------------------------------------------------
(* The session's end.                                                      *)

\* A tab with nothing open.
Bare(a, b) ==
  /\ b.unlocked \in BOOLEAN /\ b.gen = a.gen + 1 /\ b.list = NoList /\ b.open = 0
  /\ b.scr = None /\ b.conflict = None /\ b.err = FALSE /\ b.armed = FALSE /\ b.gens = {}
  /\ b.ops = a.ops

LEMMA BareOK ==
  ASSUME NEW F, NEW h, NEW a, AppOK(F, h, a), NEW b, b \in Apps, Bare(a, b),
         b.dev = None \/ b.dev = a.dev, b.thaw = None \/ b.thaw = a.thaw
  PROVE  /\ AppOK(F, h, b) /\ Discarded(b) = Discarded(a) /\ b.gens \subseteq {b.gen}
<1>1. ListOK(F, b.list) /\ Len(a.ops) \in Nat
  BY NoListOK, AppFields DEF Bare, AppOK, ComposeSeqs
<1>2. /\ CopyOK(F, b.dev) /\ ThawOK(h, b.thaw) /\ ConflictOK(F, b.conflict)
      /\ ScreenOK(F, h, b.open, b.scr)
  BY DEF Bare, AppOK, CopyOK, ThawOK, ConflictOK, ScreenOK
<1>3. b.open \in 0..Len(b.ops) /\ Discarded(b) = Discarded(a)
  BY <1>1 DEF Bare, Discarded
<1> QED
  BY <1>1, <1>2, <1>3 DEF AppOK, Bare

\* Work begun before the end stays true, for an opening that was let go of.
LEMMA EndedJobOK ==
  ASSUME NEW F, NEW h, NEW gen \in Nat, NEW n \in Nat, NEW j, JobOK(F, h, gen, n, j),
         \A o \in 1..n : o \in h.given, NEW up, up = gen + 1
  PROVE  JobOK(F, h, up, n, j)
<1>1. j.gen \in Nat /\ j.gen <= gen /\ j.o \in 0..n
  BY DEF JobOK, Works
<1>2. j.gen <= up /\ j.gen # up
  BY <1>1
<1>3. j.o = 0 \/ j.o \in h.given
  BY <1>1
<1> QED
  BY <1>2, <1>3 DEF JobOK

LEMMA resetStep ==
  ASSUME NEW F, Now(F), reset PROVE \E G : Now(G)'
<1>1. /\ cast' = cast /\ rows' = rows /\ used' = used /\ jobs' = jobs
      /\ hist \in Hists /\ AppOK(F, hist, app) /\ used \in Bounds /\ app \in Apps
      /\ app.gen \in Nat /\ JobsOK(F, hist, app.gen, Len(app.ops), jobs)
      /\ TextsOK(cast, app, jobs, used, hist) /\ Len(app.ops) \in Nat
      /\ hist.blind \subseteq hist.crossed
  BY Facts DEF reset
<1>2. PICK g : g = hist.given \cup (1..Len(app.ops))
  OBVIOUS
<1>3. g \in NatSets /\ hist.given \subseteq g /\ \A o \in 1..Len(app.ops) : o \in g
  BY <1>1, <1>2 DEF Hists, NatSets
<1>4. hist' = [hist EXCEPT !.given = g]
  BY <1>2 DEF reset
<1>5. /\ hist' \in Hists /\ Grows(hist, hist') /\ hist'.mine = hist.mine
      /\ hist'.typed = hist.typed /\ hist'.blind = hist.blind /\ hist'.given = g
  BY <1>3, <1>4, GivenOK
<1>6. AppOK(F, hist', app) /\ JobsOK(F, hist', app.gen, Len(app.ops), jobs)
  <2>1. Len(app.ops) <= Len(app.ops)
    BY <1>1
  <2> QED
    BY <1>1, <1>5, <2>1, AppMono, JobsMono
<1>7. app' \in Apps /\ Bare(app, app') /\ app'.dev = None /\ app'.thaw = app.thaw
  <2>1. NoList \in Lists /\ app.gen + 1 \in Nat /\ {} \in NatSets /\ 0 \in Nat
    BY <1>1, NoListOK DEF NatSets
  <2>2. app' = [app EXCEPT !.unlocked = FALSE, !.gen = app.gen + 1, !.list = NoList, !.open = 0,
                           !.scr = None, !.conflict = None, !.err = FALSE, !.armed = FALSE,
                           !.dev = None, !.gens = {}]
    BY DEF reset
  <2>3. app' \in Apps
    BY <1>1, <2>1, <2>2 DEF Apps
  <2> QED
    BY <1>1, <2>2, <2>3 DEF Apps, Bare
<1>8. AppOK(F, hist', app') /\ Discarded(app') = Discarded(app) /\ app'.gens \subseteq {app'.gen}
  BY <1>6, <1>7, BareOK
<1>9. JobsOK(F, hist', app'.gen, Len(app'.ops), jobs')
  <2>1. ASSUME NEW j \in jobs PROVE JobOK(F, hist', app'.gen, Len(app.ops), j)
    <3>1. JobOK(F, hist', app.gen, Len(app.ops), j)
      BY <1>6 DEF JobsOK
    <3>2. app'.gen = app.gen + 1 /\ \A o \in 1..Len(app.ops) : o \in hist'.given
      BY <1>3, <1>5, <1>7 DEF Bare
    <3> QED
      BY <1>1, <3>1, <3>2, EndedJobOK
  <2> QED
    BY <1>1, <1>7, <2>1 DEF JobsOK, Bare
<1>10. TextsOK(cast, app', jobs', used', hist')
  <2>1. /\ Len(app'.ops) = Len(app.ops) /\ app'.scr = None /\ app'.open = 0
    BY <1>7 DEF Bare
  <2>2. \A o \in 1..Len(app.ops) : Safe(app', jobs', hist', o)
    BY <1>3, <1>5 DEF Safe
  <2>3. InStep(app') /\ Alone(app', hist')
    BY <2>1 DEF InStep, Alone, Shows
  <2> QED
    BY <1>1, <1>5, <2>1, <2>2, <2>3 DEF TextsOK
<1>11. /\ rows' \in [Keys -> Handles] /\ Log(F) /\ RowsOK(F, cast, rows', hist')
       /\ hist'.blind \subseteq hist'.crossed /\ used' \in Bounds
  <2>1. rows' \in [Keys -> Handles] /\ Log(F) /\ RowsOK(F, cast, rows', hist')
    BY <1>1, <1>5, SameVault
  <2> QED
    BY <1>1, <1>5, <2>1 DEF Grows
<1>12. Now(F)'
  BY <1>1, <1>5, <1>8, <1>9, <1>10, <1>11, Assemble
<1> QED
  BY <1>12

LEMMA ReloadStep ==
  ASSUME NEW F, Now(F), Reload PROVE \E G : Now(G)'
<1>1. /\ cast' = cast /\ rows' = rows /\ used' = used /\ jobs' = {}
      /\ hist \in Hists /\ AppOK(F, hist, app) /\ used \in Bounds /\ app \in Apps
      /\ app.gen \in Nat /\ app.open \in Nat
      /\ TextsOK(cast, app, jobs, used, hist) /\ Len(app.ops) \in Nat
      /\ hist.blind \subseteq hist.crossed
  BY Facts, AppFields DEF Reload
<1>2. PICK g : g = hist.given \cup {o \in 1..Len(app.ops) : o # app.open}
                              \cup {o \in {app.open} : o # 0 /\ o \notin CopyOf}
  OBVIOUS
<1>3. /\ g \in NatSets /\ hist.given \subseteq g
      /\ \A o \in 1..Len(app.ops) : o \in g \/ o \in CopyOf
  BY <1>1, <1>2 DEF Hists, NatSets
<1>4. hist' = [hist EXCEPT !.given = g]
  BY <1>2 DEF Reload
<1>5. /\ hist' \in Hists /\ Grows(hist, hist') /\ hist'.mine = hist.mine
      /\ hist'.typed = hist.typed /\ hist'.blind = hist.blind /\ hist'.given = g
  BY <1>3, <1>4, GivenOK
<1>6. AppOK(F, hist', app)
  BY <1>1, <1>5, AppMono
<1>7. app' \in Apps /\ Bare(app, app') /\ app'.dev = app.dev /\ app'.thaw = None
  <2>1. NoList \in Lists /\ app.gen + 1 \in Nat /\ {} \in NatSets /\ 0 \in Nat
    BY <1>1, NoListOK DEF NatSets
  <2>2. app' = [app EXCEPT !.unlocked = FALSE, !.gen = app.gen + 1, !.list = NoList, !.open = 0,
                           !.scr = None, !.conflict = None, !.err = FALSE, !.armed = FALSE,
                           !.last = None, !.thaw = None, !.gens = {}]
    BY DEF Reload
  <2>3. app' \in Apps
    BY <1>1, <2>1, <2>2 DEF Apps
  <2> QED
    BY <1>1, <2>2, <2>3 DEF Apps, Bare
<1>8. AppOK(F, hist', app') /\ Discarded(app') = Discarded(app) /\ app'.gens \subseteq {app'.gen}
  BY <1>6, <1>7, BareOK
<1>9. JobsOK(F, hist', app'.gen, Len(app'.ops), jobs')
  BY <1>1 DEF JobsOK
<1>10. TextsOK(cast, app', jobs', used', hist')
  <2>1. /\ Len(app'.ops) = Len(app.ops) /\ app'.scr = None /\ app'.open = 0
    BY <1>7 DEF Bare
  <2>2. ASSUME NEW o \in 1..Len(app.ops) PROVE Safe(app', jobs', hist', o)
    <3>1. CASE o \in g
      BY <1>5, <3>1 DEF Safe
    <3>2. CASE o \in CopyOf
      <4>1. Copied(app', hist'.mine[o])
        BY <1>5, <1>7, <3>2 DEF CopyOf, InCopy, Copied
      <4> QED
        BY <2>1, <4>1 DEF Safe
    <3> QED
      BY <1>3, <3>1, <3>2
  <2>3. InStep(app') /\ Alone(app', hist')
    BY <2>1 DEF InStep, Alone, Shows
  <2> QED
    BY <1>1, <1>5, <2>1, <2>2, <2>3 DEF TextsOK
<1>11. /\ rows' \in [Keys -> Handles] /\ Log(F) /\ RowsOK(F, cast, rows', hist')
       /\ hist'.blind \subseteq hist'.crossed /\ used' \in Bounds
  <2>1. rows' \in [Keys -> Handles] /\ Log(F) /\ RowsOK(F, cast, rows', hist')
    BY <1>1, <1>5, SameVault
  <2> QED
    BY <1>1, <1>5, <2>1 DEF Grows
<1>12. Now(F)'
  BY <1>1, <1>5, <1>8, <1>9, <1>10, <1>11, Assemble
<1> QED
  BY <1>12

-----------------------------------------------------------------------------
(* The first state, every step, and the properties.                        *)

\* The log of the records as they begin.
First == {<<k, rows[k].v, rows[k].text>> : k \in {i \in Keys : rows[i].v # 0}}

LEMMA InitHolds ==
  ASSUME Init PROVE IInv
<1>1. cast \in Casts /\ cast.texts \in Nat /\ cast.row \in {"none", "live", "sending", "unsure"}
  BY CastsAssumption DEF Init
<1>2. rows \in [Keys -> Handles]
  <2>1. NoRow \in Handles /\ [v |-> 1, text |-> cast.texts + 1, st |-> cast.row] \in Handles
    BY <1>1 DEF NoRow, Handles, States
  <2> QED
    BY <2>1 DEF Init
<1>3. ASSUME NEW k \in Keys
      PROVE  /\ rows[k].v = 0 => rows[k].text = 0
             /\ rows[k].st = "none" <=> rows[k].v = 0
             /\ rows[k].text \notin 1..cast.texts
             /\ rows[k].v \in Nat /\ rows[k].text \in Nat
  <2>1. CASE rows[k] = NoRow
    BY <1>1, <2>1 DEF NoRow
  <2>2. CASE cast.row # "none" /\ rows[k] = [v |-> 1, text |-> cast.texts + 1, st |-> cast.row]
    BY <1>1, <2>2
  <2> QED
    BY <2>1, <2>2 DEF Init
<1>4. \A k, v, t : <<k, v, t>> \in First
                     => k \in Keys /\ v = rows[k].v /\ t = rows[k].text /\ v # 0
  BY DEF First
<1>5. \A k \in Keys : rows[k].v # 0 => <<k, rows[k].v, rows[k].text>> \in First
  BY DEF First
<1>6. Log(First)
  BY <1>3, <1>4 DEF Log
<1>7. RowsOK(First, cast, rows, hist)
  <2>1. ASSUME NEW k, NEW v, NEW t, <<k, v, t>> \in First
        PROVE  v <= rows[k].v /\ (t \in 1..cast.texts => t \in hist.stored)
    BY <1>3, <1>4, <2>1
  <2> QED
    BY <1>3, <1>5, <2>1 DEF RowsOK
<1>8. hist \in Hists /\ used \in Bounds
  BY DEF Init, Hists, NatSets, Bounds
<1>9. PICK l : l = [k \in Keys |-> IF rows[k].v = 0 THEN None ELSE rows[k]]
  OBVIOUS
<1>10. l \in Lists /\ ListOK(First, l)
  BY <1>2, <1>5, <1>9 DEF Lists, ListOK
<1>11. app = [gen |-> 1, unlocked |-> TRUE, list |-> l,
              open |-> 0, scr |-> None, conflict |-> None, err |-> FALSE, armed |-> FALSE,
              last |-> None, thaw |-> None, dev |-> None, ops |-> <<>>, gens |-> {}]
  BY <1>9 DEF Init
<1>12. << >> \in ComposeSeqs /\ {} \in NatSets /\ Len(app.ops) = 0
  BY <1>11, EmptySeq DEF ComposeSeqs, NatSets
<1>13. app \in Apps
  BY <1>10, <1>11, <1>12 DEF Apps
<1>14. AppOK(First, hist, app)
  <2>1. /\ app.open = 0 /\ app.scr = None /\ app.armed = FALSE /\ app.list = l
        /\ app.dev = None /\ app.thaw = None /\ app.conflict = None /\ Len(app.ops) = 0
    BY <1>11, <1>12
  <2>2. /\ CopyOK(First, app.dev) /\ ThawOK(hist, app.thaw) /\ ConflictOK(First, app.conflict)
        /\ ScreenOK(First, hist, app.open, app.scr)
    BY <2>1 DEF CopyOK, ThawOK, ConflictOK, ScreenOK
  <2>3. ComposesOK(First, hist, app.ops) /\ app.open \in 0..Len(app.ops)
    BY <2>1 DEF ComposesOK
  <2> QED
    BY <1>10, <1>13, <2>1, <2>2, <2>3 DEF AppOK
<1>15. JobsOK(First, hist, app.gen, Len(app.ops), jobs)
  BY DEF Init, JobsOK
<1>16. TextsOK(cast, app, jobs, used, hist)
  <2>1. used.texts = 0 /\ hist.mine = << >> /\ hist.typed = {} /\ app.open = 0
    BY <1>11 DEF Init
  <2>2. Len(hist.mine) = Len(app.ops) /\ used.texts <= cast.texts
    BY <1>1, <1>11, <2>1
  <2>3. InStep(app) /\ Alone(app, hist)
    BY <1>12, <2>1 DEF InStep, Alone
  <2> QED
    BY <1>12, <2>1, <2>2, <2>3 DEF TextsOK
<1>17. hist.blind \subseteq hist.crossed /\ app.gens \subseteq {app.gen}
  BY <1>11 DEF Init
<1>18. Now(First)
  BY <1>1, <1>2, <1>6, <1>7, <1>8, <1>14, <1>15, <1>16, <1>17 DEF Now, Good
<1> QED
  BY <1>18 DEF IInv

LEMMA TabHolds ==
  ASSUME NEW F, Now(F), NEW j \in jobs, Tab(j) PROVE \E G : Now(G)'
<1>1. CASE SaveStarts(j) BY <1>1, SaveStartsStep
<1>2. CASE Writes(j) BY <1>2, WritesStep
<1>3. CASE SaveEnds(j) BY <1>3, SaveEndsStep
<1>4. CASE Mint(j) BY <1>4, MintStep
<1>5. CASE createDraft(j) BY <1>5, createDraftStep
<1>6. CASE mintRecord(j) BY <1>6, mintRecordStep
<1>7. CASE listDrafts(j) BY <1>7, listDraftsStep
<1>8. CASE Listed(j) BY <1>8, ListedStep
<1>9. CASE FlushStarts(j) BY <1>9, FlushStartsStep
<1>10. CASE FlushEnds(j) BY <1>10, FlushEndsStep
<1>11. CASE SendStarts(j) BY <1>11, SendStartsStep
<1>12. CASE claimSend(j) BY <1>12, claimSendStep
<1>13. CASE SendEnds(j) BY <1>13, SendEndsStep
<1>14. CASE Settle(j) BY <1>14, SettleStep
<1>15. CASE dropSent(j) BY <1>15, dropSentStep
<1>16. CASE readDraftHandle(j) BY <1>16, readDraftHandleStep
<1>17. CASE Followed(j) BY <1>17, FollowedStep
<1>18. CASE deleteDraft(j) BY <1>18, deleteDraftStep
<1>19. CASE DropEnds(j) BY <1>19, DropEndsStep
<1>20. CASE DiscardOwn(j) BY <1>20, DiscardOwnStep
<1>21. CASE WriteDraftEnds(j) BY <1>21, WriteDraftEndsStep
<1> QED
  BY <1>1, <1>2, <1>3, <1>4, <1>5, <1>6, <1>7, <1>8, <1>9, <1>10, <1>11, <1>12, <1>13,
     <1>14, <1>15, <1>16, <1>17, <1>18, <1>19, <1>20, <1>21 DEF Tab

LEMMA PersonHolds ==
  ASSUME NEW F, Now(F), Person PROVE \E G : Now(G)'
<1>1. CASE OpenNew BY <1>1, OpenNewStep
<1>2. CASE \E k \in Keys : OpenDraft(k) BY <1>2, OpenDraftStep
<1>3. CASE updateDraft BY <1>3, updateDraftStep
<1>4. CASE Close BY <1>4, ClosedStep
<1>5. CASE send BY <1>5, sendStep
<1>6. CASE discardDraft BY <1>6, discardDraftStep
<1>7. CASE \E choice \in {"mine", "theirs"} : resolveDraftConflict(choice)
  <2>1. PICK choice \in {"mine", "theirs"} : resolveDraftConflict(choice)
    BY <1>7
  <2> QED
    BY <2>1, resolveDraftConflictStep
<1> QED
  BY <1>1, <1>2, <1>3, <1>4, <1>5, <1>6, <1>7 DEF Person

LEMMA StepHolds ==
  ASSUME IInv, [Next]_vars PROVE IInv'
<1>1. PICK F : Now(F)
  BY DEF IInv
<1>2. \E G : Now(G)'
  <2>1. CASE Person BY <1>1, <2>1, PersonHolds
  <2>2. CASE Agent
    <3>1. PICK k \in Keys : writeDraft(k) \/ removeDraft(k)
      BY <2>2 DEF Agent
    <3> QED
      BY <1>1, <3>1, writeDraftStep, removeDraftStep
  <2>3. CASE AutosaveFires BY <1>1, <2>3, AutosaveFiresStep
  <2>4. CASE Follow BY <1>1, <2>4, FollowStep
  <2>5. CASE \E j \in jobs : Tab(j) BY <1>1, <2>5, TabHolds
  <2>6. CASE reset BY <1>1, <2>6, resetStep
  <2>7. CASE Unlock BY <1>1, <2>7, UnlockStep
  <2>8. CASE Reload BY <1>1, <2>8, ReloadStep
  <2>9. CASE Others BY <1>1, <2>9, OthersStep
  <2>10. CASE UNCHANGED vars BY <1>1, <2>10, RestStep
  <2> QED
    BY <2>1, <2>2, <2>3, <2>4, <2>5, <2>6, <2>7, <2>8, <2>9, <2>10 DEF Next, Rest
<1> QED
  BY <1>2 DEF IInv

\* One log explains, in every state, every id the tab, its work and the device hold: each names
\* a version the record had, and an opening has had on screen what the id it writes by stands for.
THEOREM OneLogExplainsAll == Spec => []IInv
<1>1. Init => IInv
  BY InitHolds
<1>2. IInv /\ [Next]_vars => IInv'
  BY StepHolds
<1> QED
  BY <1>1, <1>2, PTL DEF Spec

\* Everything the tab, its work, the vault and the device hold is of its type.
TypesHold ==
  /\ app \in Apps /\ jobs \subseteq Works /\ rows \in [Keys -> Handles]
  /\ used \in Bounds /\ hist \in Hists

\* The types hold in every state, whatever the tab, the vault and the other devices do.
THEOREM ComposerTypes == Spec => []TypesHold
<1>1. IInv => TypesHold
  BY Facts, JobFacts DEF IInv, TypesHold
<1> QED
  BY <1>1, OneLogExplainsAll, PTL

\* Through every close, mint, Send, refusal, discard, reload and lock, with any number of records,
\* openings and faults, a text typed last into an opening is in the vault, on screen, in the
\* device's copy or on its way, but for the code's own exceptions.
THEOREM TypedTextSurvivesAlways == Spec => []TypedTextSurvives
<1>1. IInv => TypedTextSurvives
  <2> SUFFICES ASSUME IInv, NEW o \in Openings, hist.mine[o] # 0, o \notin hist.given,
                      ~app.ops[o].discarded
               PROVE  Kept(o)
    BY DEF TypedTextSurvives
  <2>1. PICK F : Now(F)
    BY DEF IInv
  <2>2. Safe(app, jobs, hist, o)
    BY <2>1, Facts DEF TextsOK, Openings
  <2> QED
    BY <2>2 DEF Safe, Kept, Discarded, Shows, Copied, InCopy, Flushes
<1> QED
  BY <1>1, OneLogExplainsAll, PTL

\* No save, flush, claim or agent's write replaces a text its opening never had on screen, unless
\* the opening took its id by another's answer, or by a copy restored under the listed version.
THEOREM NothingUnseenIsOverwrittenAlways == Spec => []NothingUnseenIsOverwritten
<1>1. IInv => NothingUnseenIsOverwritten
  BY Facts DEF IInv, NothingUnseenIsOverwritten
<1> QED
  BY <1>1, OneLogExplainsAll, PTL

\* Nothing an ended session is answered, by a lock or a reload, reaches the next one's screen.
THEOREM EndedSessionsSayNothingAlways == Spec => []EndedSessionsSayNothing
<1>1. IInv => EndedSessionsSayNothing
  BY Facts DEF IInv, EndedSessionsSayNothing
<1> QED
  BY <1>1, OneLogExplainsAll, PTL
=============================================================================
