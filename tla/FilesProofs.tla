------------------------------ MODULE FilesProofs ------------------------------
(***************************************************************************)
(* What Files promises, for any images, predicates, files and streams: an  *)
(* app runs under the permissions saved last, and a name never stands for  *)
(* a part of a file. The two invariants do not need each other: an action  *)
(* on permissions leaves the files of the App alone, but for what it had   *)
(* open when its process ends.                                             *)
(***************************************************************************)
EXTENDS Files, WellFoundedInduction, TLAPS

-----------------------------------------------------------------------------
(* Permissions *)

Screens == {"app", "permissions", "editor", "copied", "off"}

PermTypes ==
    /\ config \in [Image -> Seq(Perms)]
    /\ perms \in [Image -> Perms]
    /\ predicate \in [Image -> Body]
    /\ screen \in [Image -> Screens]
    /\ copied = [p \in Image |-> copied[p]]
    /\ kept \in [Image -> Perms]
    /\ overtaken \in SUBSET Image

\* The predicate that answers is the one on the screen (not so in its editor).
InForce == \A p \in Image : screen[p] \in {"app", "permissions"} => predicate[p] = perms[p].body

\* An image's entries mean permissions: there are no others, and the default needs none.
Means(entries, permissions) ==
    /\ permissions # Initially => entries # <<>>
    /\ \A i \in 1..Len(entries) : entries[i] = permissions

Follows(p) ==
    /\ screen[p] = "app" /\ p \notin overtaken => perms[p] = kept[p]
    /\ Means(config[p], kept[p])

\* A copy that waits to be saved has the entries of the other images as they
\* were when it was read, which is as they are unless it is stale.
Copied(p) ==
    /\ copied[p] \in [entries : [Image -> Seq(Perms)], was : [Image -> Perms], stale : SUBSET Image]
    /\ copied[p].entries[p] = <<>>
    /\ \A q \in Image : q # p => Means(copied[p].entries[q], copied[p].was[q])
    /\ \A q \in Image : q # p /\ q \notin copied[p].stale => copied[p].was[q] = kept[q]

PermInv ==
    /\ PermTypes
    /\ InForce
    /\ \A p \in Image : Follows(p)
    /\ \A p \in Image : screen[p] = "copied" => Copied(p)

LEMMA InitiallyPerms == Initially \in Perms
  BY FilesAssumption DEF Initially, Perms

LEMMA PermInvInit == FilesInit => PermInv
  <1> SUFFICES ASSUME FilesInit PROVE PermInv
    OBVIOUS
  <1> USE InitiallyPerms
  <1>1. PICK own \in OwnEntries : config = [p \in Image |-> IF p = App THEN own ELSE <<>>]
    BY DEF FilesInit
  <1>2. own = <<>> \/ \E b \in Body, ask \in BOOLEAN : own = <<[body |-> b, ask |-> ask, net |-> FALSE]>>
    <2>1. own \in {<<>>} \/ own \in {<<[body |-> b, ask |-> ask, net |-> FALSE]>> : b \in Body, ask \in BOOLEAN}
      BY <1>1 DEF OwnEntries
    <2>2. QED
      BY <2>1, SMT
  <1>3. own \in Seq(Perms) /\ (own = <<>> \/ (own # <<>> /\ Len(own) = 1))
    <2>1. CASE own = <<>>
      BY <2>1
    <2>2. CASE own # <<>>
      <3>1. PICK b \in Body, ask \in BOOLEAN : own = <<[body |-> b, ask |-> ask, net |-> FALSE]>>
        BY <1>2, <2>2
      <3>2. [body |-> b, ask |-> ask, net |-> FALSE] \in Perms
        BY DEF Perms
      <3> DEFINE e == [body |-> b, ask |-> ask, net |-> FALSE]
      <3>3. e \in Perms /\ own = <<e>>
        BY <3>1, <3>2
      <3> HIDE DEF e
      <3>4. QED
        BY <3>3
    <2>3. QED
      BY <2>1, <2>2
  <1>4. config \in [Image -> Seq(Perms)]
    BY <1>1, <1>3
  <1>5. PermTypes
    <2>1. kept \in [Image -> Perms]
      <3>1. ASSUME NEW p \in Image
            PROVE  (IF config[p] = <<>> THEN Initially ELSE config[p][1]) \in Perms
        <4>1. CASE config[p] = <<>>
          BY <4>1
        <4>2. CASE config[p] # <<>>
          <5>1. config[p] \in Seq(Perms) /\ 1 \in 1..Len(config[p])
            BY <4>2, <1>4
          <5>2. QED
            BY <5>1, <4>2
        <4>3. QED
          BY <4>1, <4>2
      <3>2. QED
        BY <3>1 DEF FilesInit
    <2>2. perms \in [Image -> Perms] /\ predicate \in [Image -> Body] /\ screen \in [Image -> Screens]
      BY FilesAssumption DEF FilesInit, Screens
    <2>3. QED
      BY <1>4, <2>1, <2>2 DEF FilesInit, PermTypes
  <1>6. \A p \in Image : screen[p] = "off"
    BY DEF FilesInit
  <1>7. ASSUME NEW p \in Image PROVE Means(config[p], kept[p])
    <2>1. kept[p] = IF config[p] = <<>> THEN Initially ELSE config[p][1]
      BY DEF FilesInit
    <2>2. config[p] = <<>> \/ Len(config[p]) = 1
      BY <1>1, <1>3
    <2>3. CASE config[p] = <<>>
      BY <2>1, <2>3 DEF Means
    <2>4. CASE config[p] # <<>>
      BY <2>1, <2>2, <2>4 DEF Means
    <2>5. QED
      BY <2>3, <2>4
  <1>8. QED
    BY <1>5, <1>6, <1>7 DEF PermInv, InForce, Follows

\* A process that ends leaves no permissions behind but those in the configuration.
LEMMA PermInvEnd ==
    ASSUME PermInv, NEW p \in Image, ProcessEnds(p), UNCHANGED <<config, kept, overtaken>>,
           copied' = copied \/ copied' = [copied EXCEPT ![p] = Nil]
    PROVE  PermInv'
  <1> USE DEF PermInv
  <1>1. /\ screen' = [screen EXCEPT ![p] = "off"]
        /\ perms' = [perms EXCEPT ![p] = Initially]
        /\ predicate' = [predicate EXCEPT ![p] = Default]
    BY DEF ProcessEnds
  <1>2. PermTypes'
    BY <1>1, InitiallyPerms, FilesAssumption DEF PermTypes, Screens
  <1>3. InForce'
    BY <1>1 DEF InForce, PermTypes
  <1>4. ASSUME NEW q \in Image PROVE Follows(q)'
    BY <1>1, <1>4 DEF Follows, Means, PermTypes
  <1>5. ASSUME NEW q \in Image, screen'[q] = "copied" PROVE Copied(q)'
    <2>1. q # p /\ screen[q] = "copied" /\ copied'[q] = copied[q]
      BY <1>1, <1>5 DEF PermTypes
    <2>2. QED
      BY <2>1 DEF Copied
  <1>6. QED
    BY <1>2, <1>3, <1>4, <1>5

\* Nothing of what counts changes in the editor of a predicate, or on the screen.
LEMMA PermInvScreen ==
    ASSUME PermInv, NEW p \in Image, NEW s \in {"permissions", "editor"},
           screen' = [screen EXCEPT ![p] = s],
           perms' \in [Image -> Perms], predicate' \in [Image -> Body],
           \A q \in Image : q # p => perms'[q] = perms[q] /\ predicate'[q] = predicate[q],
           s = "permissions" => predicate'[p] = perms'[p].body,
           UNCHANGED <<config, copied, kept, overtaken>>
    PROVE  PermInv'
  <1> USE DEF PermInv
  <1>1. PermTypes'
    BY DEF PermTypes, Screens
  <1>2. InForce'
    BY DEF InForce, PermTypes
  <1>3. ASSUME NEW q \in Image PROVE Follows(q)'
    BY <1>3 DEF Follows, Means, PermTypes
  <1>4. ASSUME NEW q \in Image, screen'[q] = "copied" PROVE Copied(q)'
    <2>1. screen[q] = "copied" /\ copied'[q] = copied[q]
      BY <1>4 DEF PermTypes
    <2>2. QED
      BY <2>1 DEF Copied
  <1>5. QED
    BY <1>1, <1>2, <1>3, <1>4

\* A save that replaces the configuration, whatever it leaves of it.
LEMMA PermInvReplace ==
    ASSUME PermInv, NEW p \in Image,
           NEW entries \in [Image -> Seq(Perms)], NEW means \in [Image -> Perms], NEW changed \in SUBSET Image,
           Replace(p, entries, means, changed),
           \A q \in Image : Means(entries[q], means[q]),
           \A q \in Image : q \notin changed => means[q] = kept[q]
    PROVE  PermInv'
  <1> USE DEF PermInv
  <1>1. /\ config' = entries /\ kept' = means
        /\ overtaken' = {q \in Image \ {p} : q \in overtaken \/ means[q] # kept[q]}
        /\ copied' = [q \in Image |->
                        IF q = p \/ screen[q] # "copied" THEN Nil
                        ELSE [copied[q] EXCEPT !.stale = @ \cup changed]]
    BY DEF Replace
  <1>2. /\ screen' = [screen EXCEPT ![p] = "off"]
        /\ perms' = [perms EXCEPT ![p] = Initially]
        /\ predicate' = [predicate EXCEPT ![p] = Default]
    BY DEF Replace, ProcessEnds
  <1>3. PermTypes'
    <2>1. copied' = [q \in Image |-> copied'[q]] /\ overtaken' \in SUBSET Image
      BY <1>1
    <2>2. QED
      BY <1>1, <1>2, <2>1, InitiallyPerms, FilesAssumption DEF PermTypes, Screens
  <1>4. InForce'
    BY <1>2 DEF InForce, PermTypes
  <1>5. ASSUME NEW q \in Image PROVE Follows(q)'
    <2>1. Means(config[q], kept[q])'
      BY <1>1 DEF Means
    <2>2. ASSUME screen'[q] = "app", q \notin overtaken' PROVE perms'[q] = kept'[q]
      <3>1. q # p /\ screen[q] = "app" /\ perms'[q] = perms[q]
        BY <1>2, <2>2 DEF PermTypes
      <3>2. q \notin overtaken /\ means[q] = kept[q]
        BY <1>1, <2>2, <3>1
      <3>3. QED
        BY <1>1, <3>1, <3>2 DEF Follows
    <2>3. QED
      BY <2>1, <2>2 DEF Follows
  <1>6. ASSUME NEW q \in Image, screen'[q] = "copied" PROVE Copied(q)'
    <2>1. q # p /\ screen[q] = "copied"
      BY <1>2, <1>6 DEF PermTypes
    <2>2. Copied(q)
      BY <2>1
    <2>3. copied'[q] = [copied[q] EXCEPT !.stale = @ \cup changed]
      BY <1>1, <2>1
    <2> DEFINE Copies == [entries : [Image -> Seq(Perms)], was : [Image -> Perms], stale : SUBSET Image]
    <2>4. /\ copied'[q] \in Copies
          /\ copied'[q].entries = copied[q].entries /\ copied'[q].was = copied[q].was
          /\ copied'[q].stale = copied[q].stale \cup changed
      <3>1. copied[q] \in Copies
        BY <2>2 DEF Copied
      <3>2. copied[q].stale \cup changed \in SUBSET Image
        BY <3>1
      <3>3. QED
        BY <2>3, <3>1, <3>2
    <2>5. ASSUME NEW r \in Image, r # q, r \notin copied'[q].stale PROVE copied'[q].was[r] = kept'[r]
      <3>1. copied[q].was[r] = kept[r]
        BY <2>2, <2>4, <2>5 DEF Copied
      <3>2. means[r] = kept[r]
        BY <2>4, <2>5
      <3>3. QED
        BY <1>1, <2>4, <3>1, <3>2
    <2>6. \A r \in Image : r # q => Means(copied'[q].entries[r], copied'[q].was[r])
      BY <2>2, <2>4 DEF Copied
    <2>7. QED
      BY <2>2, <2>4, <2>5, <2>6 DEF Copied, Means
  <1>7. QED
    BY <1>3, <1>4, <1>5, <1>6

\* What the copied entries of another image mean after the save.
LEMMA Survivors ==
    ASSUME NEW p \in Image, Copied(p), kept \in [Image -> Perms], NEW through \in SUBSET Image
    PROVE  /\ Survive(p, through) \in [Image -> Perms]
           /\ \A q \in Image : q # p /\ q \in through => Survive(p, through)[q] = copied[p].was[q]
           /\ \A q \in Image : q \notin through => Survive(p, through)[q] = Initially
           /\ \A q \in through : q \notin copied[p].stale => Survive(p, through)[q] = kept[q]
  <1>1. copied[p].was \in [Image -> Perms]
    BY DEF Copied
  <1>2. QED
    BY <1>1, InitiallyPerms DEF Survive, Copied

LEMMA PermInvSave ==
    ASSUME PermInv, NEW p \in Image, SaveReplaces(p) \/ SaveIsCut(p)
    PROVE  PermInv'
  <1>1. Copied(p)
    BY DEF PermInv, SaveReplaces, SaveIsCut, Replace
  <1>2. /\ copied[p].entries \in [Image -> Seq(Perms)] /\ copied[p].stale \in SUBSET Image
        /\ copied[p].entries[p] = <<>>
        /\ \A q \in Image : q # p => Means(copied[p].entries[q], copied[p].was[q])
    BY <1>1 DEF Copied
  <1>3. perms[p] \in Perms /\ kept \in [Image -> Perms]
    BY DEF PermInv, PermTypes
  <1>4. CASE SaveReplaces(p)
    <2> DEFINE entries == [copied[p].entries EXCEPT ![p] = Append(@, perms[p])]
               means == [Survive(p, Image) EXCEPT ![p] = perms[p]]
               changed == copied[p].stale \cup {p}
    <2>1. Replace(p, entries, means, changed)
      BY <1>4 DEF SaveReplaces
    <2>2. /\ Survive(p, Image) \in [Image -> Perms]
          /\ \A q \in Image : q # p => Survive(p, Image)[q] = copied[p].was[q]
          /\ \A q \in Image : q \notin copied[p].stale => Survive(p, Image)[q] = kept[q]
      BY <1>1, <1>3, Survivors
    <2>3. /\ entries \in [Image -> Seq(Perms)] /\ entries[p] = <<perms[p]>>
          /\ \A q \in Image : q # p => entries[q] = copied[p].entries[q]
      BY <1>2, <1>3
    <2>4. /\ means \in [Image -> Perms] /\ means[p] = perms[p]
          /\ \A q \in Image : q # p => means[q] = Survive(p, Image)[q]
      BY <1>3, <2>2
    <2>5. changed \in SUBSET Image /\ p \in changed /\ copied[p].stale \subseteq changed
      BY <1>2
    <2> HIDE DEF entries, means, changed
    <2>6. ASSUME NEW q \in Image PROVE Means(entries[q], means[q])
      <3>1. CASE q = p
        <4>1. entries[q] = <<perms[p]>> /\ means[q] = perms[p]
          BY <2>3, <2>4, <3>1
        <4>2. entries[q] # <<>> /\ Len(entries[q]) = 1 /\ entries[q][1] = perms[p]
          BY <4>1
        <4>3. QED
          BY <4>1, <4>2 DEF Means
      <3>2. CASE q # p
        BY <1>2, <2>2, <2>3, <2>4, <3>2
      <3>3. QED
        BY <3>1, <3>2
    <2>7. \A q \in Image : q \notin changed => means[q] = kept[q]
      BY <2>2, <2>4, <2>5
    <2>8. QED
      BY <2>1, <2>3, <2>4, <2>5, <2>6, <2>7, PermInvReplace
  <1>5. CASE SaveIsCut(p)
    <2>1. PICK through \in SUBSET (Image \ {p}) :
             Replace(p, [q \in Image |-> IF q \in through THEN copied[p].entries[q] ELSE <<>>],
                     Survive(p, through), Image)
      BY <1>5 DEF SaveIsCut
    <2> DEFINE entries == [q \in Image |-> IF q \in through THEN copied[p].entries[q] ELSE <<>>]
    <2>2. Replace(p, entries, Survive(p, through), Image)
      BY <2>1
    <2>3. entries \in [Image -> Seq(Perms)]
      BY <1>2
    <2>4. /\ Survive(p, through) \in [Image -> Perms]
          /\ \A q \in Image : q # p /\ q \in through => Survive(p, through)[q] = copied[p].was[q]
          /\ \A q \in Image : q \notin through => Survive(p, through)[q] = Initially
      BY <1>1, <1>3, Survivors
    <2>5. /\ \A q \in Image : q \in through => q # p /\ entries[q] = copied[p].entries[q]
          /\ \A q \in Image : q \notin through => entries[q] = <<>>
      OBVIOUS
    <2> HIDE DEF entries
    <2>6. ASSUME NEW q \in Image PROVE Means(entries[q], Survive(p, through)[q])
      <3>1. CASE q \in through
        BY <1>2, <2>4, <2>5, <3>1
      <3>2. CASE q \notin through
        BY <2>4, <2>5, <3>2 DEF Means
      <3>3. QED
        BY <3>1, <3>2
    <2>7. QED
      BY <2>2, <2>3, <2>4, <2>6, PermInvReplace
  <1>6. QED
    BY <1>4, <1>5

LEMMA PermInvCopy ==
    ASSUME PermInv, NEW p \in Image, SaveReads(p)
    PROVE  PermInv'
  <1> USE DEF PermInv
  <1> DEFINE copy == [entries |-> Others(config, p), was |-> kept, stale |-> {}]
  <1>1. /\ copied' = [copied EXCEPT ![p] = copy]
        /\ screen' = [screen EXCEPT ![p] = "copied"]
        /\ UNCHANGED <<config, perms, predicate, kept, overtaken>>
    BY DEF SaveReads
  <1>2. /\ Others(config, p) \in [Image -> Seq(Perms)]
        /\ Others(config, p)[p] = <<>>
        /\ \A q \in Image : q # p => Others(config, p)[q] = config[q]
    BY DEF Others, PermTypes
  <1>9. /\ copy \in [entries : [Image -> Seq(Perms)], was : [Image -> Perms], stale : SUBSET Image]
        /\ copy.entries = Others(config, p) /\ copy.was = kept /\ copy.stale = {}
    BY <1>2 DEF PermTypes
  <1> HIDE DEF copy
  <1>3. PermTypes'
    BY <1>1 DEF PermTypes, Screens
  <1>4. InForce'
    BY <1>1 DEF InForce, PermTypes
  <1>5. ASSUME NEW q \in Image PROVE Follows(q)'
    BY <1>1, <1>5 DEF Follows, Means, PermTypes
  <1>6. ASSUME NEW q \in Image, screen'[q] = "copied" PROVE Copied(q)'
    <2>1. CASE q = p
      <3>1. copied'[q] = copy
        BY <2>1, <1>1 DEF PermTypes
      <3>2. ASSUME NEW r \in Image, r # p PROVE Means(copy.entries[r], copy.was[r])
        BY <3>2, <1>2, <1>9 DEF Follows
      <3>3. QED
        BY <2>1, <3>1, <3>2, <1>1, <1>2, <1>9 DEF Copied
    <2>2. CASE q # p
      <3>1. screen[q] = "copied" /\ copied'[q] = copied[q]
        BY <2>2, <1>1, <1>6 DEF PermTypes
      <3>2. QED
        BY <3>1, <1>1 DEF Copied
    <2>3. QED
      BY <2>1, <2>2
  <1>7. QED
    BY <1>3, <1>4, <1>5, <1>6

\* A new process has the last entry of its image, and all of them mean the same.
LEMMA PermInvLoad ==
    ASSUME PermInv, NEW p \in Image, load_permissions(p)
    PROVE  PermInv'
  <1> USE DEF PermInv
  <1> DEFINE loaded == IF config[p] = <<>> THEN Initially ELSE Last(config[p])
  <1>1. /\ perms' = [perms EXCEPT ![p] = loaded]
        /\ predicate' = [predicate EXCEPT ![p] = loaded.body]
        /\ screen' = [screen EXCEPT ![p] = "app"]
        /\ overtaken' = overtaken \ {p}
        /\ UNCHANGED <<config, copied, kept>>
    BY DEF load_permissions
  <1>2. config[p] # <<>> => config[p] \in Seq(Perms) /\ Len(config[p]) \in 1..Len(config[p])
    BY DEF PermTypes
  <1>3. loaded \in Perms
    <2>1. CASE config[p] = <<>>
      BY <2>1, InitiallyPerms
    <2>2. CASE config[p] # <<>>
      BY <2>2, <1>2 DEF Last
    <2>3. QED
      BY <2>1, <2>2
  <1>4. loaded = kept[p]
    <2>1. Means(config[p], kept[p])
      BY DEF Follows
    <2>2. CASE config[p] = <<>>
      BY <2>1, <2>2 DEF Means
    <2>3. CASE config[p] # <<>>
      BY <2>1, <2>3, <1>2 DEF Means, Last
    <2>4. QED
      BY <2>2, <2>3
  <1>5. loaded.body \in Body
    BY <1>3 DEF Perms
  <1> HIDE DEF loaded
  <1>6. PermTypes'
    BY <1>1, <1>3, <1>5 DEF PermTypes, Screens
  <1>7. InForce'
    BY <1>1 DEF InForce, PermTypes
  <1>8. ASSUME NEW q \in Image PROVE Follows(q)'
    BY <1>1, <1>4, <1>8 DEF Follows, Means, PermTypes
  <1>9. ASSUME NEW q \in Image, screen'[q] = "copied" PROVE Copied(q)'
    <2>1. screen[q] = "copied" /\ copied'[q] = copied[q]
      BY <1>1, <1>9 DEF PermTypes
    <2>2. QED
      BY <2>1, <1>1 DEF Copied
  <1>10. QED
    BY <1>6, <1>7, <1>8, <1>9

LEMMA PermInvEditor ==
    ASSUME PermInv, NEW p \in Image, NEW b \in Body, LeaveEditor(p, b)
    PROVE  PermInv'
  <1>1. screen[p] = "editor" /\ UNCHANGED <<config, kept, overtaken>>
    BY DEF LeaveEditor
  <1>2. PermTypes
    BY DEF PermInv
  <1>3. CASE Tried(b) = "nothing"
    <2>1. ProcessEnds(p) /\ UNCHANGED copied
      BY <1>3 DEF LeaveEditor
    <2>2. QED
      BY <1>1, <2>1, PermInvEnd
  <1>4. CASE Tried(b) # "nothing"
    <2>1. /\ predicate' = IF Loads(b) THEN [predicate EXCEPT ![p] = b] ELSE predicate
          /\ UNCHANGED copied
      BY <1>4 DEF LeaveEditor
    <2>2. /\ predicate' \in [Image -> Body]
          /\ \A q \in Image : q # p => predicate'[q] = predicate[q]
      BY <1>2, <2>1 DEF PermTypes
    <2>3. CASE Tried(b) \in {"yes", "no"}
      <3>1. /\ perms' = [perms EXCEPT ![p].body = b]
            /\ screen' = [screen EXCEPT ![p] = "permissions"]
        BY <1>4, <2>3 DEF LeaveEditor
      <3>2. Loads(b)
        BY <2>3 DEF Loads, Tried
      <3>3. predicate'[p] = b
        BY <1>2, <2>1, <3>2 DEF PermTypes
      <3>4. /\ perms' \in [Image -> Perms] /\ perms'[p].body = b
            /\ \A q \in Image : q # p => perms'[q] = perms[q]
        BY <1>2, <3>1 DEF PermTypes, Perms
      <3>5. QED
        BY <1>1, <2>1, <2>2, <3>1, <3>3, <3>4, PermInvScreen
    <2>4. CASE Tried(b) \notin {"yes", "no"}
      <3>1. UNCHANGED <<perms, screen>>
        BY <1>4, <2>4 DEF LeaveEditor
      <3>2. screen' = [screen EXCEPT ![p] = "editor"] /\ perms' \in [Image -> Perms]
        BY <1>1, <1>2, <3>1 DEF PermTypes
      <3>3. QED
        BY <1>1, <2>1, <2>2, <3>1, <3>2, PermInvScreen
    <2>5. QED
      BY <2>3, <2>4
  <1>5. QED
    BY <1>3, <1>4

LEMMA PermInvKeys ==
    ASSUME PermInv, NEW p \in Image,
           permissions_mode(p) \/ EditPredicate(p) \/ Toggle(p, "^a", "ask") \/ Toggle(p, "^n", "net")
    PROVE  PermInv'
  <1>1. PermTypes /\ InForce
    BY DEF PermInv
  <1>2. CASE permissions_mode(p)
    <2>1. /\ screen[p] = "app" /\ screen' = [screen EXCEPT ![p] = "permissions"]
          /\ UNCHANGED <<config, perms, predicate, copied, kept, overtaken>>
      BY <1>2 DEF permissions_mode
    <2>2. predicate'[p] = perms'[p].body
      BY <1>1, <2>1 DEF InForce
    <2>3. QED
      BY <1>1, <2>1, <2>2, PermInvScreen DEF PermTypes
  <1>3. CASE EditPredicate(p)
    <2>1. /\ screen' = [screen EXCEPT ![p] = "editor"]
          /\ UNCHANGED <<config, perms, predicate, copied, kept, overtaken>>
      BY <1>3 DEF EditPredicate
    <2>2. QED
      BY <1>1, <2>1, PermInvScreen DEF PermTypes
  <1>4. ASSUME NEW field \in {"ask", "net"},
               screen[p] = "permissions", perms' = [perms EXCEPT ![p][field] = ~@],
               UNCHANGED <<config, predicate, screen, copied, kept, overtaken>>
        PROVE  PermInv'
    <2>1. screen' = [screen EXCEPT ![p] = "permissions"]
      BY <1>1, <1>4 DEF PermTypes
    <2>2. /\ perms' \in [Image -> Perms] /\ perms'[p].body = perms[p].body
          /\ \A q \in Image : q # p => perms'[q] = perms[q]
      <3>1. perms \in [Image -> Perms]
        BY <1>1 DEF PermTypes
      <3>2. [perms[p] EXCEPT ![field] = ~@] \in Perms /\ [perms[p] EXCEPT ![field] = ~@].body = perms[p].body
        BY <3>1 DEF Perms
      <3>3. perms' = [perms EXCEPT ![p] = [perms[p] EXCEPT ![field] = ~@]]
        BY <1>4
      <3>4. QED
        BY <3>1, <3>2, <3>3
    <2>3. predicate'[p] = perms'[p].body
      BY <1>1, <1>4, <2>2 DEF InForce
    <2>4. QED
      BY <1>1, <1>4, <2>1, <2>2, <2>3, PermInvScreen DEF PermTypes
  <1>5. CASE Toggle(p, "^a", "ask")
    BY <1>4, <1>5 DEF Toggle
  <1>6. CASE Toggle(p, "^n", "net")
    BY <1>4, <1>6 DEF Toggle
  <1>7. QED
    BY <1>2, <1>3, <1>5, <1>6

LEMMA PermInvStutter ==
    ASSUME PermInv, UNCHANGED permvars
    PROVE  PermInv'
  BY DEF PermInv, PermTypes, InForce, Follows, Means, Copied, permvars

LEMMA PermInvNext ==
    ASSUME PermInv, [FilesNext]_vars
    PROVE  PermInv'
  <1>1. ASSUME NEW p \in Image, NEW b \in Body, LeaveEditor(p, b) PROVE PermInv'
    BY <1>1, PermInvEditor
  <1>2. ASSUME NEW p \in Image, Kill(p) \/ SaveFails(p) PROVE PermInv'
    <2>1. ProcessEnds(p) /\ copied' = [copied EXCEPT ![p] = Nil] /\ UNCHANGED <<config, kept, overtaken>>
      BY <1>2 DEF Kill, SaveFails
    <2>2. QED
      BY <2>1, PermInvEnd
  <1>3. CASE FailedPermission
    <2>1. ProcessEnds(App) /\ UNCHANGED <<config, copied, kept, overtaken>>
      BY <1>3 DEF FailedPermission
    <2>2. QED
      BY <2>1, PermInvEnd, FilesAssumption
  <1>4. ASSUME \/ read
               \/ \E w \in Writer : write(w) \/ close(w) \/ \E name \in Name : start_writing(w, name)
               \/ \E name \in Name : start_reading(name) \/ os_remove(name)
        PROVE  PermInv'
    <2>1. ASSUME read PROVE UNCHANGED permvars
      BY <2>1, Zenon DEF read
    <2>2. ASSUME NEW w \in Writer, write(w) PROVE UNCHANGED permvars
      BY <2>2, Zenon DEF write
    <2>3. ASSUME NEW w \in Writer, close(w) PROVE UNCHANGED permvars
      BY <2>3, Zenon DEF close
    <2>4. ASSUME NEW w \in Writer, NEW name \in Name, start_writing(w, name) PROVE UNCHANGED permvars
      BY <2>4, Zenon DEF start_writing
    <2>5. ASSUME NEW name \in Name, start_reading(name) \/ os_remove(name) PROVE UNCHANGED permvars
      BY <2>5, Zenon DEF start_reading, os_remove
    <2>6. UNCHANGED permvars
      BY <1>4, <2>1, <2>2, <2>3, <2>4, <2>5
    <2>7. QED
      BY <2>6, PermInvStutter
  <1>5. CASE UNCHANGED vars
    BY <1>5, PermInvStutter DEF vars, permvars
  <1>6. ASSUME NEW p \in Image, permissions_mode(p) \/ EditPredicate(p) \/ Toggle(p, "^a", "ask") \/ Toggle(p, "^n", "net")
        PROVE  PermInv'
    BY <1>6, PermInvKeys
  <1>7. ASSUME NEW p \in Image, SaveReads(p) PROVE PermInv'
    BY <1>7, PermInvCopy
  <1>8. ASSUME NEW p \in Image, SaveReplaces(p) \/ SaveIsCut(p) PROVE PermInv'
    BY <1>8, PermInvSave
  <1>9. ASSUME NEW p \in Image, load_permissions(p) PROVE PermInv'
    BY <1>9, PermInvLoad
  <1>10. QED
    BY <1>1, <1>2, <1>3, <1>4, <1>5, <1>6, <1>7, <1>8, <1>9 DEF FilesNext

\* What the screen is certain of is so.
LEMMA PermInvKept == PermInv => PermissionsKept
  <1> SUFFICES ASSUME PermInv, NEW p \in Image
               PROVE  /\ screen[p] = "app" =>
                           predicate[p] = perms[p].body /\ (p \notin overtaken => perms[p] = kept[p])
                      /\ kept[p] # Initially => config[p] # <<>>
                      /\ \A i \in 1..Len(config[p]) : config[p][i] = kept[p]
                      /\ screen[p] = "permissions" =>
                           /\ characterize(p) = "rejects" \/ risk(p) \in {"safe", "network"} =>
                                Answer[predicate[p]] = [read |-> "no", write |-> "no"]
                           /\ risk(p) \in {"safe", "files", "asks"} => ~perms[p].net
    BY Zenon DEF PermissionsKept
  <1>1. Follows(p) /\ InForce /\ PermTypes
    BY DEF PermInv
  <1>2. screen[p] = "app" => predicate[p] = perms[p].body /\ (p \notin overtaken => perms[p] = kept[p])
    BY <1>1 DEF Follows, InForce
  <1>3. perms[p].ask \in BOOLEAN /\ perms[p].net \in BOOLEAN
    BY <1>1 DEF PermTypes, Perms
  <1>4. ASSUME screen[p] = "permissions", characterize(p) = "rejects" \/ risk(p) \in {"safe", "network"}
        PROVE  Answer[predicate[p]] = [read |-> "no", write |-> "no"]
    <2>1. predicate[p] = perms[p].body
      BY <1>1, <1>4 DEF InForce
    <2>2. characterize(p) = "rejects" => perms[p].body = Default
      BY DEF characterize
    <2>3. risk(p) \in {"safe", "network"} => perms[p].body = Default
      BY <1>3 DEF risk
    <2>4. QED
      BY <1>4, <2>1, <2>2, <2>3, FilesAssumption
  <1>5. risk(p) \in {"safe", "files", "asks"} => ~perms[p].net
    BY <1>3 DEF risk
  <1>6. QED
    BY <1>1, <1>2, <1>4, <1>5 DEF Follows, Means

\* An app runs under the permissions its user saved last, and the entry of every
\* image outlives the saves of the others (teliva.c:1697), for any images and
\* predicates: what is lost with a save that was reading when another wrote, or
\* that the disk had no room for, is no more than `kept' says, and a process
\* keeps what it began with until it ends.
THEOREM PermissionsHold == FilesSpec => []PermissionsKept
  <1>1. FilesInit => PermInv
    BY PermInvInit
  <1>2. PermInv /\ [FilesNext]_vars => PermInv'
    BY PermInvNext
  <1>3. PermInv => PermissionsKept
    BY PermInvKept
  <1>4. QED
    BY <1>1, <1>2, <1>3, PTL DEF FilesSpec

-----------------------------------------------------------------------------
(* Files *)

FileTypes ==
    /\ disk \in [Paths -> File \cup {Nil}]
    /\ data \in [File -> Seq(Writer)]
    /\ writers \in [Writer -> Writing \cup {Nil}]
    /\ reader \in Reading \cup {Nil}
    /\ closed \in [Name -> Text \cup {Nil}]

LinkedOnce == \A a, b \in Paths : disk[a] # Nil /\ disk[a] = disk[b] => a = b

\* A stream has a temporary file to itself, with what of its text could be
\* written, and is at its end.
Held(w) ==
    /\ writers[w].temp \notin Name
    /\ disk[writers[w].temp] = writers[w].file
    /\ writers[w].at = Len(data[writers[w].file])
    /\ Has(data[writers[w].file], writers[w].text)
    /\ \A v \in Writer : writers[v] # Nil /\ writers[v].temp = writers[w].temp => v = w

\* What a name stands for in a directory of the app, if the files have these contents.
Named(name, dir, texts, contents) ==
    IF dir[name] = Nil THEN texts[name] = Nil
    ELSE texts[name] \in Text /\ Has(contents[dir[name]], texts[name])

\* What is read is not written any more.
Apart == \A w \in Writer : writers[w] # Nil => writers[w].file # reader.file

FileInv ==
    /\ FileTypes
    /\ LinkedOnce
    /\ \A w \in Writer : writers[w] # Nil => Held(w)
    /\ reader # Nil => Apart /\ Has(data[reader.file], reader.whole)
    /\ \A name \in Name : Named(name, disk, closed, data)

LEMMA StreamTypes ==
    ASSUME FileInv, NEW w \in Writer, writers[w] # Nil
    PROVE  /\ writers[w] \in Writing /\ writers[w].name \in Name /\ writers[w].temp \in Paths
           /\ writers[w].file \in File /\ writers[w].at \in Nat /\ writers[w].text \in Text
           /\ Held(w)
  BY DEF FileInv, FileTypes, Writing

LEMMA ReaderTypes ==
    ASSUME FileInv, reader # Nil
    PROVE  /\ reader.file \in File /\ reader.whole \in Text
           /\ Apart /\ Has(data[reader.file], reader.whole)
  BY DEF FileInv, FileTypes, Reading

LEMMA NamesArePaths == Name \subseteq Paths
  BY DEF Paths

LEMMA FileInvInit == FilesInit => FileInv
  <1> SUFFICES ASSUME FilesInit PROVE FileInv
    OBVIOUS
  <1>1. \A name \in Name : disk[name] = Nil /\ closed[name] = Nil
    BY NamesArePaths DEF FilesInit
  <1>2. FileTypes
    BY DEF FilesInit, FileTypes
  <1>3. QED
    BY <1>1, <1>2 DEF FilesInit, FileInv, LinkedOnce, Named

LEMMA FileInvStutter ==
    ASSUME FileInv, UNCHANGED filevars
    PROVE  FileInv'
  BY DEF FileInv, FileTypes, LinkedOnce, Held, Apart, Named, filevars

\* What is linked or open outlives a Reclaim.
LEMMA ReclaimKeeps ==
    ASSUME NEW contents \in [File -> Seq(Writer)], Reclaim(contents)
    PROVE  /\ data' \in [File -> Seq(Writer)]
           /\ \A path \in Paths : disk'[path] \in File => data'[disk'[path]] = contents[disk'[path]]
           /\ \A w \in Writer : writers'[w] # Nil /\ writers'[w].file \in File =>
                 data'[writers'[w].file] = contents[writers'[w].file]
           /\ reader' # Nil /\ reader'.file \in File => data'[reader'.file] = contents[reader'.file]
  <1>1. data' = [file \in File |-> IF file \in InUse(disk', writers', reader') THEN contents[file] ELSE <<>>]
    BY DEF Reclaim
  <1>2. <<>> \in Seq(Writer)
    OBVIOUS
  <1>3. data' \in [File -> Seq(Writer)]
    BY <1>1, <1>2
  <1>4. \A file \in File : file \in InUse(disk', writers', reader') => data'[file] = contents[file]
    BY <1>1
  <1>5. /\ \A path \in Paths : disk'[path] \in InUse(disk', writers', reader')
        /\ \A w \in Writer : writers'[w] # Nil => writers'[w].file \in InUse(disk', writers', reader')
        /\ reader' # Nil => reader'.file \in InUse(disk', writers', reader')
    BY DEF InUse
  <1>6. QED
    BY <1>3, <1>4, <1>5

\* Streams that are closed, read or lost, and names that are taken or removed:
\* the file of a stream may be cut as it is closed.
LEMMA FileInvReclaim ==
    ASSUME FileInv, NEW contents \in [File -> Seq(Writer)], Reclaim(contents),
           disk' \in [Paths -> File \cup {Nil}], LinkedOnce',
           writers' \in [Writer -> Writing \cup {Nil}],
           \A w \in Writer : writers'[w] # Nil =>
              /\ writers'[w] = writers[w] /\ disk'[writers[w].temp] = disk[writers[w].temp]
              /\ contents[writers[w].file] = data[writers[w].file],
           reader' = reader \/ reader' = Nil,
           reader # Nil => contents[reader.file] = data[reader.file],
           closed' \in [Name -> Text \cup {Nil}],
           \A name \in Name : Named(name, disk', closed', contents)
    PROVE  FileInv'
  <1>1. FileTypes
    BY DEF FileInv
  <1>2. /\ data' \in [File -> Seq(Writer)]
        /\ \A path \in Paths : disk'[path] \in File => data'[disk'[path]] = contents[disk'[path]]
        /\ \A w \in Writer : writers'[w] # Nil /\ writers'[w].file \in File =>
              data'[writers'[w].file] = contents[writers'[w].file]
        /\ reader' # Nil /\ reader'.file \in File => data'[reader'.file] = contents[reader'.file]
    BY ReclaimKeeps
  <1>3. FileTypes'
    BY <1>1, <1>2 DEF FileTypes
  <1>4. ASSUME NEW w \in Writer, writers'[w] # Nil PROVE Held(w)'
    <2>1. /\ writers'[w] = writers[w] /\ writers[w] # Nil /\ disk'[writers[w].temp] = disk[writers[w].temp]
          /\ contents[writers[w].file] = data[writers[w].file]
      BY <1>4
    <2>2. Held(w) /\ writers[w].file \in File
      BY <2>1, StreamTypes
    <2>3. data'[writers[w].file] = data[writers[w].file]
      BY <1>2, <1>4, <2>1, <2>2
    <2>4. \A v \in Writer : writers'[v] # Nil => writers'[v] = writers[v] /\ writers[v] # Nil
      OBVIOUS
    <2>5. QED
      BY <2>1, <2>2, <2>3, <2>4 DEF Held
  <1>5. ASSUME reader' # Nil PROVE (Apart /\ Has(data[reader.file], reader.whole))'
    <2>1. /\ reader' = reader /\ Apart /\ reader.file \in File
          /\ Has(data[reader.file], reader.whole) /\ contents[reader.file] = data[reader.file]
      BY <1>5, ReaderTypes
    <2>2. data'[reader'.file] = data[reader.file]
      BY <1>2, <1>5, <2>1
    <2>3. Apart'
      BY <2>1 DEF Apart
    <2>4. QED
      BY <2>1, <2>2, <2>3
  <1>6. ASSUME NEW name \in Name PROVE Named(name, disk', closed', data')
    <2>1. CASE disk'[name] = Nil
      BY <2>1 DEF Named
    <2>2. CASE disk'[name] # Nil
      <3>1. name \in Paths /\ disk'[name] \in File
        BY <2>2, NamesArePaths
      <3>2. data'[disk'[name]] = contents[disk'[name]]
        BY <3>1, <1>2
      <3>3. QED
        BY <2>2, <3>2 DEF Named
    <2>3. QED
      BY <2>1, <2>2
  <1>7. QED
    BY <1>3, <1>4, <1>5, <1>6 DEF FileInv

LEMMA FileInvEnd ==
    ASSUME FileInv, NEW p \in Image, ProcessEnds(p)
    PROVE  FileInv'
  <1>1. FileTypes /\ LinkedOnce
    BY DEF FileInv
  <1>2. /\ writers' = IF p = App THEN [w \in Writer |-> Nil] ELSE writers
        /\ reader' = IF p = App THEN Nil ELSE reader
        /\ UNCHANGED <<disk, closed>>
        /\ Reclaim(data)
    BY DEF ProcessEnds
  <1>3. /\ writers' \in [Writer -> Writing \cup {Nil}]
        /\ \A w \in Writer : writers'[w] # Nil =>
              writers'[w] = writers[w] /\ disk'[writers[w].temp] = disk[writers[w].temp]
    BY <1>1, <1>2 DEF FileTypes
  <1>4. LinkedOnce'
    BY <1>1, <1>2 DEF LinkedOnce
  <1>5. /\ disk' \in [Paths -> File \cup {Nil}] /\ data \in [File -> Seq(Writer)]
        /\ closed' \in [Name -> Text \cup {Nil}]
    BY <1>1, <1>2 DEF FileTypes
  <1>6. \A name \in Name : Named(name, disk', closed', data)
    BY <1>2 DEF FileInv
  <1>7. QED
    BY <1>2, <1>3, <1>4, <1>5, <1>6, FileInvReclaim

\* A read that finds the end.
LEMMA FileInvRead ==
    ASSUME FileInv, read
    PROVE  FileInv'
  <1>1. FileTypes /\ LinkedOnce
    BY DEF FileInv
  <1>2. reader' = Nil /\ UNCHANGED <<disk, writers, closed>> /\ Reclaim(data)
    BY DEF read
  <1>3. LinkedOnce'
    BY <1>1, <1>2 DEF LinkedOnce
  <1>4. /\ disk' \in [Paths -> File \cup {Nil}] /\ writers' \in [Writer -> Writing \cup {Nil}]
        /\ closed' \in [Name -> Text \cup {Nil}] /\ data \in [File -> Seq(Writer)]
    BY <1>1, <1>2 DEF FileTypes
  <1>5. \A name \in Name : Named(name, disk', closed', data)
    BY <1>2 DEF FileInv
  <1>6. QED
    BY <1>2, <1>3, <1>4, <1>5, FileInvReclaim

LEMMA FileInvRemove ==
    ASSUME FileInv, NEW name \in Name, os_remove(name)
    PROVE  FileInv'
  <1>1. FileTypes /\ LinkedOnce
    BY DEF FileInv
  <1>2. /\ disk' = [disk EXCEPT ![name] = Nil]
        /\ closed' = [closed EXCEPT ![name] = Nil]
        /\ UNCHANGED <<writers, reader>>
        /\ Reclaim(data)
    BY DEF os_remove
  <1>3. /\ name \in Paths /\ disk \in [Paths -> File \cup {Nil}] /\ closed \in [Name -> Text \cup {Nil}]
        /\ data \in [File -> Seq(Writer)]
    BY <1>1, NamesArePaths DEF FileTypes
  <1>4. /\ disk' \in [Paths -> File \cup {Nil}] /\ writers' \in [Writer -> Writing \cup {Nil}]
        /\ closed' \in [Name -> Text \cup {Nil}]
    BY <1>1, <1>2, <1>3 DEF FileTypes
  <1>5. LinkedOnce'
    BY <1>1, <1>2, <1>3 DEF LinkedOnce
  <1>6. ASSUME NEW w \in Writer, writers'[w] # Nil
        PROVE  writers'[w] = writers[w] /\ disk'[writers[w].temp] = disk[writers[w].temp]
    <2>1. writers[w].temp \in Paths /\ writers[w].temp # name
      BY <1>2, <1>6, StreamTypes DEF Held
    <2>2. QED
      BY <1>2, <1>3, <2>1
  <1>7. ASSUME NEW n \in Name PROVE Named(n, disk', closed', data)
    <2>1. CASE n = name
      BY <2>1, <1>2, <1>3 DEF Named
    <2>2. CASE n # name
      <3>1. disk'[n] = disk[n] /\ closed'[n] = closed[n]
        BY <2>2, <1>2, <1>3, NamesArePaths
      <3>2. Named(n, disk, closed, data)
        BY DEF FileInv
      <3>3. QED
        BY <3>1, <3>2 DEF Named
    <2>3. QED
      BY <2>1, <2>2
  <1>8. QED
    BY <1>2, <1>3, <1>4, <1>5, <1>6, <1>7, FileInvReclaim

\* A file that is cut as it is flushed has a part of its text, and the app is not told.
LEMMA FlushedPart ==
    ASSUME FileInv, NEW w \in Writer, writers[w] # Nil, NEW n \in 0..Len(data[writers[w].file])
    PROVE  /\ SubSeq(data[writers[w].file], 1, n) \in Seq(Writer)
           /\ Flushed(w, n) \in Text
           /\ Has(SubSeq(data[writers[w].file], 1, n), Flushed(w, n))
  <1> DEFINE s == data[writers[w].file]
             text == writers[w].text
  <1>1. text \in Text /\ writers[w].file \in File /\ Has(s, text)
    BY StreamTypes DEF Held
  <1>2. s \in Seq(Writer) /\ text.wrote \in Seq(Writer) /\ text.failed \in BOOLEAN
    BY <1>1 DEF FileInv, FileTypes, Text
  <1>3. /\ SubSeq(s, 1, n) \in Seq(Writer) /\ Len(SubSeq(s, 1, n)) = n
        /\ \A i \in 1..n : SubSeq(s, 1, n)[i] = s[i]
        /\ n = Len(s) => SubSeq(s, 1, n) = s
    BY <1>2
  <1>4. Flushed(w, n) = IF n < Len(s) THEN [text EXCEPT !.failed = TRUE] ELSE text
    BY DEF Flushed
  <1> HIDE DEF s, text
  <1>5. CASE n < Len(s)
    <2>1. /\ Flushed(w, n) \in Text /\ Flushed(w, n).failed = TRUE
          /\ Flushed(w, n).wrote = text.wrote
      BY <1>1, <1>4, <1>5 DEF Text
    <2>2. /\ Len(s) <= Len(text.wrote)
          /\ \A i \in 1..Len(s) : \E j \in 1..Len(text.wrote) : s[i] = text.wrote[j]
      <3>1. CASE text.failed
        BY <1>1, <3>1 DEF Has
      <3>2. CASE ~text.failed
        <4>1. s = text.wrote
          BY <1>1, <3>2 DEF Has
        <4>2. QED
          BY <1>2, <4>1
      <3>3. QED
        BY <3>1, <3>2
    <2>3. n <= Len(text.wrote) /\ \A i \in 1..n : \E j \in 1..Len(text.wrote) : SubSeq(s, 1, n)[i] = text.wrote[j]
      BY <1>2, <1>3, <1>5, <2>2
    <2>4. Has(SubSeq(s, 1, n), Flushed(w, n))
      BY <1>3, <2>1, <2>3 DEF Has
    <2>5. QED
      BY <1>3, <2>1, <2>4 DEF s
  <1>6. CASE ~(n < Len(s))
    <2>1. n = Len(s)
      BY <1>2, <1>6 DEF s
    <2>2. Flushed(w, n) = text /\ SubSeq(s, 1, n) = s
      BY <1>3, <1>4, <1>6, <2>1
    <2>3. QED
      BY <1>1, <1>3, <2>2 DEF s
  <1>7. QED
    BY <1>5, <1>6

\* A stream that is closed puts its file under its name, or leaves it where it is.
LEMMA FileInvClose ==
    ASSUME FileInv, NEW w \in Writer, close(w)
    PROVE  FileInv'
  <1> DEFINE temp == writers[w].temp
             name == writers[w].name
             file == writers[w].file
  <1>1. FileTypes /\ LinkedOnce
    BY DEF FileInv
  <1>2. writers[w] # Nil /\ writers' = [writers EXCEPT ![w] = Nil] /\ reader' = reader
    BY DEF close
  <1>3. /\ name \in Name /\ temp \in Paths /\ name \in Paths /\ temp # name /\ temp \notin Name
        /\ disk[temp] = file /\ file \in File /\ file # Nil
        /\ \A v \in Writer : writers[v] # Nil /\ writers[v].temp = temp => v = w
    BY <1>2, StreamTypes, NamesArePaths, NilAssumption DEF Held
  <1>4. /\ disk \in [Paths -> File \cup {Nil}] /\ closed \in [Name -> Text \cup {Nil}]
        /\ writers \in [Writer -> Writing \cup {Nil}] /\ data \in [File -> Seq(Writer)]
    BY <1>1 DEF FileTypes
  <1>5. PICK n \in 0..Len(data[file]) :
           /\ \/ /\ disk' = os_rename(temp, name)
                 /\ closed' = [closed EXCEPT ![name] = Flushed(w, n)]
              \/ UNCHANGED <<disk, closed>>
           /\ Reclaim([data EXCEPT ![file] = SubSeq(@, 1, n)])
    BY Zenon DEF close
  <1> DEFINE contents == [data EXCEPT ![file] = SubSeq(data[file], 1, n)]
  <1>6. Reclaim(contents)
    BY <1>5
  <1>7. /\ SubSeq(data[file], 1, n) \in Seq(Writer) /\ Flushed(w, n) \in Text
        /\ Has(SubSeq(data[file], 1, n), Flushed(w, n))
    BY <1>2, FlushedPart
  <1>8. /\ contents \in [File -> Seq(Writer)] /\ Has(contents[file], Flushed(w, n))
        /\ \A f \in File : f # file => contents[f] = data[f]
    BY <1>3, <1>4, <1>7
  <1>9. writers' \in [Writer -> Writing \cup {Nil}]
    BY <1>2, <1>4
  <1>10. ASSUME NEW v \in Writer, writers'[v] # Nil
         PROVE  /\ writers'[v] = writers[v] /\ writers[v].temp \in Paths
                /\ writers[v].temp \notin Name /\ writers[v].temp # temp
                /\ contents[writers[v].file] = data[writers[v].file]
    <2>1. v # w /\ writers'[v] = writers[v] /\ writers[v] # Nil
      BY <1>2, <1>4, <1>10
    <2>2. writers[v].temp \in Paths /\ writers[v].file \in File /\ Held(v)
      BY <2>1, StreamTypes
    <2>3. writers[v].temp # temp
      BY <2>1, <1>3
    <2>4. writers[v].file # file
      BY <2>2, <2>3, <1>1, <1>3 DEF Held, LinkedOnce
    <2>5. QED
      BY <2>1, <2>2, <2>3, <2>4, <1>8 DEF Held
  <1>11. reader # Nil => contents[reader.file] = data[reader.file]
    BY <1>2, <1>8, ReaderTypes DEF Apart
  <1>12. ASSUME NEW m \in Name
         PROVE  m \in Paths /\ m # temp /\ Named(m, disk, closed, contents)
    <2>1. m \in Paths /\ m # temp
      BY <1>3, NamesArePaths
    <2>2. Named(m, disk, closed, data)
      BY DEF FileInv
    <2>3. disk[m] # Nil => disk[m] \in File /\ disk[m] # file
      BY <2>1, <1>1, <1>3, <1>4 DEF LinkedOnce
    <2>4. QED
      BY <2>1, <2>2, <2>3, <1>8 DEF Named
  <1> HIDE DEF temp, name, file, contents
  <1>13. CASE /\ disk' = os_rename(temp, name)
              /\ closed' = [closed EXCEPT ![name] = Flushed(w, n)]
    <2>1. disk' = [disk EXCEPT ![name] = disk[temp], ![temp] = Nil]
      BY <1>3, <1>13 DEF os_rename
    <2>2. /\ disk'[name] = file /\ disk'[temp] = Nil
          /\ \A path \in Paths : path # name /\ path # temp => disk'[path] = disk[path]
      BY <1>3, <1>4, <2>1
    <2>3. disk' \in [Paths -> File \cup {Nil}] /\ closed' \in [Name -> Text \cup {Nil}]
      BY <1>3, <1>4, <1>7, <1>13, <2>1
    <2>4. LinkedOnce'
      <3>1. SUFFICES ASSUME NEW a \in Paths, NEW b \in Paths, disk'[a] # Nil, disk'[a] = disk'[b]
                     PROVE  a = b
        BY DEF LinkedOnce
      <3>2. a # temp /\ b # temp
        BY <2>2, <3>1
      <3>3. CASE a # name /\ b # name
        BY <1>1, <2>2, <3>1, <3>2, <3>3 DEF LinkedOnce
      <3>4. CASE a = name /\ b # name
        BY <1>1, <1>3, <2>2, <3>1, <3>2, <3>4 DEF LinkedOnce
      <3>5. CASE a # name /\ b = name
        BY <1>1, <1>3, <2>2, <3>1, <3>2, <3>5 DEF LinkedOnce
      <3>6. QED
        BY <3>3, <3>4, <3>5
    <2>5. \A v \in Writer : writers'[v] # Nil =>
             /\ writers'[v] = writers[v] /\ disk'[writers[v].temp] = disk[writers[v].temp]
             /\ contents[writers[v].file] = data[writers[v].file]
      BY <1>3, <1>10, <2>2
    <2>6. ASSUME NEW m \in Name PROVE Named(m, disk', closed', contents)
      <3>1. CASE m = name
        <4>1. disk'[m] = file /\ closed'[m] = Flushed(w, n)
          BY <1>3, <1>4, <1>13, <2>2, <3>1
        <4>2. QED
          BY <4>1, <1>3, <1>7, <1>8 DEF Named
      <3>2. CASE m # name
        <4>1. disk'[m] = disk[m] /\ closed'[m] = closed[m]
          BY <1>4, <1>12, <1>13, <2>2, <3>2
        <4>2. QED
          BY <4>1, <1>12 DEF Named
      <3>3. QED
        BY <3>1, <3>2
    <2>7. QED
      BY <1>2, <1>6, <1>8, <1>9, <1>11, <2>3, <2>4, <2>5, <2>6, FileInvReclaim
  <1>14. CASE UNCHANGED <<disk, closed>>
    <2>1. LinkedOnce'
      BY <1>1, <1>14 DEF LinkedOnce
    <2>2. \A m \in Name : Named(m, disk', closed', contents)
      BY <1>12, <1>14
    <2>3. \A v \in Writer : writers'[v] # Nil =>
             /\ writers'[v] = writers[v] /\ disk'[writers[v].temp] = disk[writers[v].temp]
             /\ contents[writers[v].file] = data[writers[v].file]
      BY <1>10, <1>14
    <2>4. disk' \in [Paths -> File \cup {Nil}] /\ closed' \in [Name -> Text \cup {Nil}]
      BY <1>4, <1>14
    <2>5. QED
      BY <1>2, <1>6, <1>8, <1>9, <1>11, <2>1, <2>2, <2>3, <2>4, FileInvReclaim
  <1>15. QED
    BY <1>5, <1>13, <1>14

LEMMA FileInvStartReading ==
    ASSUME FileInv, NEW name \in Name, start_reading(name)
    PROVE  FileInv'
  <1>1. FileTypes /\ LinkedOnce /\ Named(name, disk, closed, data)
    BY DEF FileInv
  <1>2. /\ disk[name] # Nil
        /\ reader' = [file |-> disk[name], whole |-> closed[name]]
        /\ UNCHANGED <<disk, data, writers, closed>>
    BY DEF start_reading
  <1>3. name \in Paths /\ disk[name] \in File
    BY <1>1, <1>2, NamesArePaths DEF FileTypes
  <1>4. closed[name] \in Text /\ Has(data[disk[name]], closed[name])
    BY <1>1, <1>2 DEF Named
  <1>5. reader' \in Reading /\ reader'.file = disk[name] /\ reader'.whole = closed[name]
    BY <1>2, <1>3, <1>4 DEF Reading
  <1>6. FileTypes'
    BY <1>1, <1>2, <1>5 DEF FileTypes
  <1>7. ASSUME NEW w \in Writer, writers[w] # Nil PROVE writers[w].file # disk[name]
    <2>1. writers[w].temp \in Paths /\ Held(w) /\ writers[w].temp # name
      BY <1>7, StreamTypes DEF Held
    <2>2. QED
      BY <1>1, <1>2, <1>3, <2>1 DEF Held, LinkedOnce
  <1>8. Apart' /\ Has(data'[reader'.file], reader'.whole)
    BY <1>2, <1>4, <1>5, <1>7 DEF Apart
  <1>9. LinkedOnce' /\ \A w \in Writer : writers'[w] # Nil => Held(w)'
    BY <1>2 DEF FileInv, LinkedOnce, Held
  <1>10. \A n \in Name : Named(n, disk', closed', data')
    BY <1>2 DEF FileInv
  <1>11. QED
    BY <1>6, <1>8, <1>9, <1>10 DEF FileInv

LEMMA LeastElement ==
    ASSUME NEW T \in SUBSET Nat, T # {}
    PROVE  \E x \in T : \A y \in T : x <= y
  <1> DEFINE R == {ss \in Nat \X Nat : ss[1] < ss[2]}
  <1>1. IsWellFoundedOn(R, Nat)
    BY NatLessThanWellFounded DEF OpToRel
  <1>2. \A x, y \in Nat : <<y, x>> \in R <=> y < x
    OBVIOUS
  <1> HIDE DEF R
  <1>3. PICK x \in T : \A y \in T : ~ (<<y, x>> \in R)
    BY <1>1, WFMin
  <1>4. ASSUME NEW y \in T PROVE x <= y
    <2>1. ~ (y < x)
      BY <1>2, <1>3, Zenon
    <2>2. x \in Nat /\ y \in Nat
      OBVIOUS
    <2>3. QED
      BY <2>1, <2>2
  <1>5. QED
    BY <1>4

\* A temporary file is a new one, under a name that nothing had.
LEMMA TemporaryName ==
    ASSUME NEW name \in Name, \E i \in 1..MaxTemp : disk[Temp(name, i)] = Nil
    PROVE  /\ temporary_filename_in_same_volume(name) \in Paths \ Name
           /\ disk[temporary_filename_in_same_volume(name)] = Nil
  <1> DEFINE free == {i \in 1..MaxTemp : disk[Temp(name, i)] = Nil}
  <1>1. free \in SUBSET Nat /\ free # {}
    BY FilesAssumption
  <1>2. \E x \in free : \A y \in free : x <= y
    BY <1>1, LeastElement
  <1>3. Min(free) \in free
    BY <1>2 DEF Min
  <1>4. temporary_filename_in_same_volume(name) = Temp(name, Min(free))
    BY DEF temporary_filename_in_same_volume
  <1>5. Min(free) \in 1..MaxTemp /\ disk[Temp(name, Min(free))] = Nil
    BY <1>3
  <1> HIDE DEF free
  <1>6. Temp(name, Min(free)) \in Paths /\ Temp(name, Min(free)) \notin Name
    BY <1>5, FilesAssumption DEF Paths
  <1>7. QED
    BY <1>4, <1>5, <1>6

LEMMA FileInvStartWriting ==
    ASSUME FileInv, NEW w \in Writer, NEW name \in Name, start_writing(w, name)
    PROVE  FileInv'
  <1> DEFINE temp == temporary_filename_in_same_volume(name)
             stream(file) == [name |-> name, temp |-> temp, file |-> file, at |-> 0,
                              text |-> [wrote |-> <<>>, failed |-> FALSE]]
  <1>1. FileTypes /\ LinkedOnce
    BY DEF FileInv
  <1>2. \E i \in 1..MaxTemp : disk[Temp(name, i)] = Nil
    BY DEF start_writing
  <1>3. temp \in Paths /\ temp \notin Name /\ disk[temp] = Nil
    BY <1>2, TemporaryName
  <1>4. PICK file \in File :
           /\ Creates(temp, file)
           /\ writers' = [writers EXCEPT ![w] = stream(file)] \/ UNCHANGED writers
    BY DEF start_writing
  <1> DEFINE opened == stream(file)
  <1>5. opened \in Writing
    <2>1. <<>> \in Seq(Writer)
      OBVIOUS
    <2>2. [wrote |-> <<>>, failed |-> FALSE] \in Text
      BY <2>1 DEF Text
    <2>3. QED
      BY <1>3, <2>2 DEF Writing
  <1>6. /\ opened.temp = temp /\ opened.file = file /\ opened.at = 0
        /\ opened.text = [wrote |-> <<>>, failed |-> FALSE]
        /\ writers' = [writers EXCEPT ![w] = opened] \/ UNCHANGED writers
    BY <1>4
  <1> HIDE DEF temp, opened
  <1>7. /\ file \in Unused
        /\ disk' = [disk EXCEPT ![temp] = file]
        /\ data' = [data EXCEPT ![file] = <<>>]
    BY <1>3, <1>4 DEF Creates
  <1>8. writers[w] = Nil /\ UNCHANGED <<reader, closed>>
    BY DEF start_writing
  <1>9. /\ \A path \in Paths : disk[path] # file
        /\ \A v \in Writer : writers[v] # Nil => writers[v].file # file
        /\ reader # Nil => reader.file # file
    BY <1>7 DEF Unused, InUse
  <1>10. /\ disk \in [Paths -> File \cup {Nil}] /\ data \in [File -> Seq(Writer)]
         /\ writers \in [Writer -> Writing \cup {Nil}]
    BY <1>1 DEF FileTypes
  <1>11. /\ disk'[temp] = file
         /\ \A path \in Paths : path # temp => disk'[path] = disk[path]
         /\ data'[file] = <<>>
         /\ \A f \in File : f # file => data'[f] = data[f]
    BY <1>3, <1>7, <1>10
  <1>12. /\ writers'[w] # Nil => writers'[w] = opened
         /\ \A v \in Writer : v # w => writers'[v] = writers[v]
         /\ writers' \in [Writer -> Writing \cup {Nil}]
    <2>1. CASE writers' = [writers EXCEPT ![w] = opened]
      BY <2>1, <1>5, <1>10
    <2>2. CASE UNCHANGED writers
      BY <2>2, <1>8, <1>10
    <2>3. QED
      BY <2>1, <2>2, <1>6
  <1>13. FileTypes'
    <2>1. <<>> \in Seq(Writer)
      OBVIOUS
    <2>2. disk' \in [Paths -> File \cup {Nil}] /\ data' \in [File -> Seq(Writer)]
      BY <1>7, <1>10, <2>1
    <2>3. QED
      BY <1>1, <1>8, <1>12, <2>2 DEF FileTypes
  <1>14. LinkedOnce'
    <2>1. SUFFICES ASSUME NEW a \in Paths, NEW b \in Paths, disk'[a] # Nil, disk'[a] = disk'[b]
                   PROVE  a = b
      BY DEF LinkedOnce
    <2>2. CASE a # temp /\ b # temp
      BY <1>1, <1>11, <2>1, <2>2 DEF LinkedOnce
    <2>3. CASE a = temp /\ b # temp
      BY <1>9, <1>11, <2>1, <2>3
    <2>4. CASE a # temp /\ b = temp
      BY <1>9, <1>11, <2>1, <2>4
    <2>5. QED
      BY <2>2, <2>3, <2>4
  <1>15. ASSUME NEW v \in Writer, v # w, writers[v] # Nil
         PROVE  /\ Held(v) /\ writers[v].temp \in Paths /\ writers[v].file \in File
                /\ writers[v].temp # temp /\ writers[v].file # file
    <2>1. Held(v) /\ writers[v].temp \in Paths /\ writers[v].file \in File
      BY <1>15, StreamTypes
    <2>2. writers[v].file # Nil
      BY <2>1, NilAssumption
    <2>3. QED
      BY <1>3, <1>9, <1>15, <2>1, <2>2 DEF Held
  <1>16. ASSUME NEW v \in Writer, writers'[v] # Nil PROVE Held(v)'
    <2>1. CASE v = w
      <3>1. writers'[v] = opened
        BY <2>1, <1>12, <1>16
      <3>2. \A u \in Writer : writers'[u] # Nil /\ writers'[u].temp = temp => u = v
        BY <2>1, <1>12, <1>15
      <3>3. Has(data'[file], opened.text) /\ opened.at = Len(data'[file])
        BY <1>6, <1>11 DEF Has
      <3>4. QED
        BY <3>1, <3>2, <3>3, <1>3, <1>6, <1>11 DEF Held
    <2>2. CASE v # w
      <3>1. writers'[v] = writers[v] /\ writers[v] # Nil
        BY <2>2, <1>12, <1>16
      <3>2. /\ Held(v) /\ writers[v].temp \in Paths /\ writers[v].file \in File
            /\ writers[v].temp # temp /\ writers[v].file # file
        BY <2>2, <3>1, <1>15
      <3>3. disk'[writers[v].temp] = disk[writers[v].temp] /\ data'[writers[v].file] = data[writers[v].file]
        BY <3>2, <1>11
      <3>4. ASSUME NEW u \in Writer, writers'[u] # Nil, writers'[u].temp = writers[v].temp
            PROVE  u = v
        <4>1. u # w
          BY <3>2, <3>4, <1>6, <1>12
        <4>2. QED
          BY <3>2, <3>4, <4>1, <1>12 DEF Held
      <3>5. QED
        BY <3>1, <3>2, <3>3, <3>4 DEF Held
    <2>3. QED
      BY <2>1, <2>2
  <1>17. ASSUME reader' # Nil PROVE (Apart /\ Has(data[reader.file], reader.whole))'
    <2>1. /\ Apart /\ reader' = reader /\ reader.file # file /\ reader.file \in File
          /\ Has(data[reader.file], reader.whole)
      BY <1>8, <1>9, <1>17, ReaderTypes
    <2>2. data'[reader.file] = data[reader.file]
      BY <2>1, <1>11
    <2>3. \A v \in Writer : writers'[v] # Nil => writers'[v].file # reader.file
      BY <2>1, <1>6, <1>12 DEF Apart
    <2>4. QED
      BY <2>1, <2>2, <2>3 DEF Apart
  <1>18. ASSUME NEW n \in Name PROVE Named(n, disk', closed', data')
    <2>1. n \in Paths /\ n # temp /\ disk'[n] = disk[n] /\ disk[n] # file
      BY <1>3, <1>9, <1>11, NamesArePaths
    <2>2. disk[n] # Nil => data'[disk[n]] = data[disk[n]]
      BY <2>1, <1>10, <1>11
    <2>3. Named(n, disk, closed, data)
      BY DEF FileInv
    <2>4. QED
      BY <2>1, <2>2, <2>3, <1>8 DEF Named
  <1>19. QED
    BY <1>13, <1>14, <1>16, <1>17, <1>18 DEF FileInv

\* What is written goes to the end of what a stream has in its file.
LEMMA Written ==
    ASSUME NEW s \in Seq(Writer), NEW w \in Writer
    PROVE  SubSeq(s, 1, Min({Len(s), Len(s)})) \o <<w>> \o SubSeq(s, Len(s) + 2, Len(s)) = Append(s, w)
  <1>1. Min({Len(s), Len(s)}) = Len(s)
    BY DEF Min
  <1>2. SubSeq(s, 1, Len(s)) = s
    OBVIOUS
  <1>3. SubSeq(s, Len(s) + 2, Len(s)) = <<>>
    OBVIOUS
  <1>4. s \o <<w>> = Append(s, w)
    OBVIOUS
  <1>5. Append(s, w) \o <<>> = Append(s, w)
    OBVIOUS
  <1>6. QED
    BY <1>1, <1>2, <1>3, <1>4, <1>5

\* A write that gets to the file adds to what it has of the text.
LEMMA WrittenPart ==
    ASSUME NEW s \in Seq(Writer), NEW text \in Text, NEW w \in Writer, Has(s, text)
    PROVE  /\ Has(Append(s, w), [text EXCEPT !.wrote = Append(@, w)])
           /\ Has(s, [wrote |-> Append(text.wrote, w), failed |-> TRUE])
  <1> DEFINE more == Append(text.wrote, w)
             longer == Append(s, w)
  <1>1. text.wrote \in Seq(Writer) /\ text.failed \in BOOLEAN
    BY DEF Text
  <1>2. [text EXCEPT !.wrote = Append(@, w)] = [wrote |-> more, failed |-> text.failed]
    <2>1. [text EXCEPT !.wrote = Append(@, w)] = [text EXCEPT !.wrote = more]
      BY DEF Text
    <2> HIDE DEF more
    <2>2. QED
      BY <2>1 DEF Text
  <1>3. /\ Len(more) = Len(text.wrote) + 1 /\ more[Len(text.wrote) + 1] = w
        /\ \A j \in 1..Len(text.wrote) : more[j] = text.wrote[j]
        /\ Len(longer) = Len(s) + 1 /\ longer[Len(s) + 1] = w
        /\ \A i \in 1..Len(s) : longer[i] = s[i]
    BY <1>1
  <1>4. /\ Len(s) <= Len(text.wrote)
        /\ \A i \in 1..Len(s) : \E j \in 1..Len(text.wrote) : s[i] = text.wrote[j]
    <2>1. CASE text.failed
      BY <2>1 DEF Has
    <2>2. CASE ~text.failed
      <3>1. s = text.wrote
        BY <2>2 DEF Has
      <3>2. QED
        BY <3>1
    <2>3. QED
      BY <2>1, <2>2
  <1> HIDE DEF more, longer
  <1>5. ASSUME NEW i \in 1..Len(s) PROVE \E j \in 1..Len(more) : s[i] = more[j]
    <2>1. PICK j \in 1..Len(text.wrote) : s[i] = text.wrote[j]
      BY <1>4
    <2>2. j \in 1..Len(more) /\ s[i] = more[j]
      BY <2>1, <1>1, <1>3
    <2>3. QED
      BY <2>2
  <1>6. Has(s, [wrote |-> more, failed |-> TRUE])
    <2>1. Len(s) <= Len(more)
      BY <1>1, <1>3, <1>4
    <2>2. QED
      BY <1>5, <2>1 DEF Has
  <1>7. Has(longer, [wrote |-> more, failed |-> text.failed])
    <2>1. CASE text.failed
      <3>1. Len(longer) <= Len(more)
        BY <1>1, <1>3, <1>4
      <3>2. ASSUME NEW i \in 1..Len(longer) PROVE \E j \in 1..Len(more) : longer[i] = more[j]
        <4>1. CASE i \in 1..Len(s)
          BY <4>1, <1>3, <1>5
        <4>2. CASE i = Len(s) + 1
          <5>1. Len(text.wrote) + 1 \in 1..Len(more) /\ longer[i] = more[Len(text.wrote) + 1]
            BY <4>2, <1>1, <1>3
          <5>2. QED
            BY <5>1
        <4>3. Len(s) \in Nat /\ i \in 1..(Len(s) + 1)
          BY <1>3
        <4>4. i \in 1..Len(s) \/ i = Len(s) + 1
          BY <4>3
        <4>5. QED
          BY <4>1, <4>2, <4>4
      <3>3. QED
        BY <2>1, <3>1, <3>2 DEF Has
    <2>2. CASE ~text.failed
      <3>1. s = text.wrote
        BY <2>2 DEF Has
      <3>2. longer = more
        BY <3>1 DEF longer, more
      <3>3. QED
        BY <2>2, <3>2 DEF Has
    <2>3. QED
      BY <2>1, <2>2
  <1>8. QED
    BY <1>2, <1>6, <1>7 DEF more, longer

\* A stream that goes on in its own file.
LEMMA FileInvStream ==
    ASSUME FileInv, NEW w \in Writer, writers[w] # Nil,
           NEW s \in Seq(Writer), NEW stream \in Writing,
           stream.temp = writers[w].temp, stream.file = writers[w].file,
           stream.at = Len(s), Has(s, stream.text),
           data' = [data EXCEPT ![writers[w].file] = s],
           writers' = [writers EXCEPT ![w] = stream],
           UNCHANGED <<disk, reader, closed>>
    PROVE  FileInv'
  <1> DEFINE file == writers[w].file
  <1>1. FileTypes /\ LinkedOnce
    BY DEF FileInv
  <1>2. Held(w) /\ file \in File /\ writers[w].temp \in Paths
    BY StreamTypes
  <1>3. /\ data \in [File -> Seq(Writer)] /\ writers \in [Writer -> Writing \cup {Nil}]
        /\ disk \in [Paths -> File \cup {Nil}]
    BY <1>1 DEF FileTypes
  <1>4. /\ data'[file] = s /\ \A f \in File : f # file => data'[f] = data[f]
        /\ writers'[w] = stream /\ \A v \in Writer : v # w => writers'[v] = writers[v]
    BY <1>2, <1>3
  <1>5. FileTypes'
    BY <1>1, <1>3 DEF FileTypes
  <1>6. ASSUME NEW v \in Writer, v # w, writers[v] # Nil
        PROVE  Held(v) /\ writers[v].file \in File /\ writers[v].file # file
    <2>1. Held(v) /\ writers[v].temp \in Paths /\ writers[v].file \in File
      BY <1>6, StreamTypes
    <2>2. writers[v].temp # writers[w].temp
      BY <1>6, <2>1 DEF Held
    <2>3. disk[writers[v].temp] = writers[v].file /\ disk[writers[w].temp] = file /\ file # Nil
      BY <1>2, <2>1, NilAssumption DEF Held
    <2>4. QED
      BY <1>1, <1>2, <2>1, <2>2, <2>3 DEF LinkedOnce
  <1>7. \A v \in Writer : writers'[v] # Nil =>
           writers[v] # Nil /\ writers'[v].temp = writers[v].temp /\ writers'[v].file = writers[v].file
    BY <1>4
  <1> HIDE DEF file
  <1>8. ASSUME NEW v \in Writer, writers'[v] # Nil PROVE Held(v)'
    <2>1. CASE v = w
      <3>1. disk'[writers'[v].temp] = writers'[v].file /\ writers'[v].temp \notin Name
        BY <2>1, <1>2, <1>4 DEF Held
      <3>2. /\ writers'[v].at = Len(data'[writers'[v].file])
            /\ Has(data'[writers'[v].file], writers'[v].text)
        BY <2>1, <1>4 DEF file
      <3>3. \A u \in Writer : writers'[u] # Nil /\ writers'[u].temp = writers'[v].temp => u = v
        BY <2>1, <1>2, <1>4, <1>7 DEF Held
      <3>4. QED
        BY <3>1, <3>2, <3>3 DEF Held
    <2>2. CASE v # w
      <3>1. writers'[v] = writers[v] /\ writers[v] # Nil
        BY <2>2, <1>4, <1>8
      <3>2. Held(v) /\ data'[writers[v].file] = data[writers[v].file]
        BY <2>2, <3>1, <1>4, <1>6
      <3>3. QED
        BY <3>1, <3>2, <1>7 DEF Held
    <2>3. QED
      BY <2>1, <2>2
  <1>9. ASSUME reader' # Nil PROVE (Apart /\ Has(data[reader.file], reader.whole))'
    <2>1. /\ reader' = reader /\ reader.file \in File /\ Apart
          /\ Has(data[reader.file], reader.whole)
      BY <1>9, ReaderTypes
    <2>2. data'[reader.file] = data[reader.file]
      BY <2>1, <1>4 DEF Apart, file
    <2>3. Apart'
      BY <2>1, <1>7 DEF Apart
    <2>4. QED
      BY <2>1, <2>2, <2>3
  <1>10. ASSUME NEW n \in Name PROVE Named(n, disk', closed', data')
    <2>1. n \in Paths /\ n # writers[w].temp
      BY <1>2, NamesArePaths DEF Held
    <2>2. disk[n] # Nil => disk[n] \in File /\ disk[n] # file
      BY <2>1, <1>1, <1>2, <1>3 DEF LinkedOnce, Held, file
    <2>3. Named(n, disk, closed, data)
      BY DEF FileInv
    <2>4. QED
      BY <2>2, <2>3, <1>4 DEF Named
  <1>11. LinkedOnce'
    BY <1>1 DEF LinkedOnce
  <1>12. QED
    BY <1>5, <1>8, <1>9, <1>10, <1>11 DEF FileInv

LEMMA FileInvWrite ==
    ASSUME FileInv, NEW w \in Writer, write(w)
    PROVE  FileInv'
  <1> DEFINE file == writers[w].file
             s == data[file]
             text == writers[w].text
             goes == [text EXCEPT !.wrote = Append(@, w)]
             fails == [wrote |-> Append(text.wrote, w), failed |-> TRUE]
             written == [writers[w] EXCEPT !.at = @ + 1, !.text = goes]
             failed == [writers[w] EXCEPT !.text = fails]
  <1>1. writers[w] # Nil /\ UNCHANGED <<disk, reader, closed>>
    BY DEF write
  <1>2. /\ writers[w] \in Writing /\ file \in File /\ text \in Text /\ writers[w].at = Len(s) /\ Has(s, text)
    BY <1>1, StreamTypes DEF Held
  <1>3. data \in [File -> Seq(Writer)] /\ writers \in [Writer -> Writing \cup {Nil}]
    BY DEF FileInv, FileTypes
  <1>4. s \in Seq(Writer) /\ Len(s) \in Nat /\ Append(s, w) \in Seq(Writer) /\ Len(Append(s, w)) = Len(s) + 1
    BY <1>2, <1>3
  <1>5. Has(Append(s, w), goes) /\ Has(s, fails)
    BY <1>2, <1>4, WrittenPart
  <1>6. goes \in Text /\ fails \in Text
    <2>1. text.wrote \in Seq(Writer)
      BY <1>2 DEF Text
    <2>2. Append(text.wrote, w) \in Seq(Writer)
      BY <2>1
    <2>3. QED
      BY <1>2, <2>2 DEF Text
  <1>7. /\ written \in Writing /\ written.temp = writers[w].temp /\ written.file = file
        /\ written.at = Len(Append(s, w)) /\ written.text = goes
    <2>1. writers[w].at + 1 = Len(Append(s, w)) /\ writers[w].at + 1 \in Nat
      BY <1>2, <1>4
    <2> DEFINE next == writers[w].at + 1
    <2>2. written = [writers[w] EXCEPT !.at = next, !.text = goes] /\ next \in Nat
      BY <2>1
    <2> HIDE DEF goes, s, next, written
    <2>3. written \in Writing /\ written.temp = writers[w].temp /\ written.file = file /\ written.at = next /\ written.text = goes
      BY <1>2, <1>6, <2>2 DEF Writing
    <2>4. QED
      BY <2>1, <2>3 DEF next
  <1>8. /\ failed \in Writing /\ failed.temp = writers[w].temp /\ failed.file = file
        /\ failed.at = Len(s) /\ failed.text = fails
    <2> HIDE DEF fails, s
    <2>1. QED
      BY <1>2, <1>6 DEF Writing
  <1>9. CASE /\ data' = [data EXCEPT ![file] =
                          SubSeq(@, 1, Min({writers[w].at, Len(@)})) \o <<w>> \o SubSeq(@, writers[w].at + 2, Len(@))]
             /\ writers' = [writers EXCEPT ![w].at = writers[w].at + 1, ![w].text.wrote = Append(@, w)]
    <2>1. data' = [data EXCEPT ![file] = SubSeq(s, 1, Min({Len(s), Len(s)})) \o <<w>> \o SubSeq(s, Len(s) + 2, Len(s))]
      BY <1>2, <1>9
    <2>2. data' = [data EXCEPT ![file] = Append(s, w)]
      BY <2>1, <1>4, Written
    <2>3. writers' = [writers EXCEPT ![w] = written]
      BY <1>3, <1>9
    <2> HIDE DEF s, text, goes, fails, written, failed
    <2>4. QED
      BY <1>1, <1>4, <1>5, <1>7, <2>2, <2>3, FileInvStream
  <1>10. CASE /\ UNCHANGED data
              /\ writers' = [writers EXCEPT ![w].text = [wrote |-> Append(@.wrote, w), failed |-> TRUE]]
    <2>1. data' = [data EXCEPT ![file] = s]
      BY <1>2, <1>3, <1>10
    <2>2. writers' = [writers EXCEPT ![w] = failed]
      BY <1>3, <1>10
    <2> HIDE DEF s, text, goes, fails, written, failed
    <2>3. QED
      BY <1>1, <1>4, <1>5, <1>8, <2>1, <2>2, FileInvStream
  <1>11. QED
    BY <1>9, <1>10, Zenon DEF write

LEMMA FileInvNext ==
    ASSUME FileInv, [FilesNext]_vars
    PROVE  FileInv'
  <1>1. ASSUME NEW p \in Image, NEW b \in Body, LeaveEditor(p, b) PROVE FileInv'
    <2>1. ProcessEnds(p) \/ UNCHANGED filevars
      BY <1>1, Zenon DEF LeaveEditor
    <2>2. QED
      BY <2>1, FileInvEnd, FileInvStutter
  <1>2. ASSUME NEW p \in Image, SaveReplaces(p) \/ SaveIsCut(p) \/ SaveFails(p) \/ Kill(p) PROVE FileInv'
    <2>1. ProcessEnds(p)
      BY <1>2 DEF SaveReplaces, SaveIsCut, SaveFails, Kill, Replace
    <2>2. QED
      BY <2>1, FileInvEnd
  <1>3. CASE FailedPermission
    <2>1. ProcessEnds(App) /\ App \in Image
      BY <1>3, FilesAssumption DEF FailedPermission
    <2>2. QED
      BY <2>1, FileInvEnd
  <1>4. ASSUME NEW p \in Image,
               \/ permissions_mode(p) \/ Toggle(p, "^a", "ask") \/ Toggle(p, "^n", "net")
               \/ EditPredicate(p) \/ SaveReads(p) \/ load_permissions(p)
        PROVE  FileInv'
    <2>1. UNCHANGED filevars
      BY <1>4 DEF permissions_mode, Toggle, EditPredicate, SaveReads, load_permissions
    <2>2. QED
      BY <2>1, FileInvStutter
  <1>5. CASE UNCHANGED vars
    BY <1>5, FileInvStutter DEF vars, filevars
  <1>6. CASE read
    BY <1>6, FileInvRead
  <1>7. ASSUME NEW w \in Writer, write(w) PROVE FileInv'
    BY <1>7, FileInvWrite
  <1>8. ASSUME NEW w \in Writer, close(w) PROVE FileInv'
    BY <1>8, FileInvClose
  <1>9. ASSUME NEW w \in Writer, NEW name \in Name, start_writing(w, name) PROVE FileInv'
    BY <1>9, FileInvStartWriting
  <1>10. ASSUME NEW name \in Name, start_reading(name) PROVE FileInv'
    BY <1>10, FileInvStartReading
  <1>11. ASSUME NEW name \in Name, os_remove(name) PROVE FileInv'
    BY <1>11, FileInvRemove
  <1>12. QED
    BY <1>1, <1>2, <1>3, <1>4, <1>5, <1>6, <1>7, <1>8, <1>9, <1>10, <1>11 DEF FilesNext

\* A name never stands for a part of a file (file.lua:72), unless writing or
\* flushing it failed, for any number of names and streams: what is under it is
\* what the last close() left, and one who reads gets what was there when it began.
THEOREM FilesWhole == FilesSpec => []WholeFiles
  <1>1. FilesInit => FileInv
    BY FileInvInit
  <1>2. FileInv /\ [FilesNext]_vars => FileInv'
    BY FileInvNext
  <1>3. FileInv => WholeFiles
    BY DEF FileInv, Named, WholeFiles
  <1>4. QED
    BY <1>1, <1>2, <1>3, PTL DEF FilesSpec

================================================================================
