---------------------------- MODULE InputProofs ----------------------------
(***************************************************************************)
(* Proofs about Input, for any keyboards, remaps, programs and bounds.     *)
(*                                                                         *)
(* That no key sticks follows from what the three views of the keyboard    *)
(* may differ in at any moment: a key that Windows or the game believes to *)
(* be down is held, or its release is among the injected events that are   *)
(* still under way, or SendInput has inserted its press without a release. *)
(* That a captured key lands where it was meant to       *)
(* follows from where the armed row is as long as none is removed.         *)
(***************************************************************************)
EXTENDS Input, TLAPS

-----------------------------------------------------------------------------
(* What send_action inserts.                                               *)

\* Every press among some events is the first event of its key, and followed by a release
\* of it, except of the keys in but.
Releases(s, but) ==
  \A i \in 1 .. Len(s) : ~ s[i].up =>
    /\ \A j \in 1 .. i - 1 : s[j].key # s[i].key
    /\ s[i].key \in but \/ \E j \in i + 1 .. Len(s) : s[j].up /\ s[j].key = s[i].key

\* The keys released by some events.
Ups(s) == {s[i].key : i \in {i \in 1 .. Len(s) : s[i].up}}

\* send_action inserts four events at most, a press first of each key.
LEMMA PressingEvents ==
  ASSUME NEW rule \in Rule
  PROVE  /\ Pressing(rule) \in Seq(Event) /\ Len(Pressing(rule)) <= 4
         /\ \A i \in 1 .. Len(Pressing(rule)) : ~ Pressing(rule)[i].up =>
              \A j \in 1 .. i - 1 : Pressing(rule)[j].key # Pressing(rule)[i].key
<1> rule.key \in Keys /\ rule.withControl \in BOOLEAN /\ rule.key # Control
  BY InputAssumption DEF Rule
<1>1. CASE rule.withControl
  BY <1>1 DEF Pressing, Event
<1>2. CASE ~ rule.withControl
  BY <1>2 DEF Pressing, Event
<1> QED  BY <1>1, <1>2

\* What SendInput inserts releases what it presses, except for the keys it cuts.
LEMMA InsertedEvents ==
  ASSUME NEW rule \in Rule, Inserts(rule)
  PROVE  /\ sent' \in Seq(Event) /\ Len(sent') <= 4
         /\ Releases(sent', cut') /\ cut \subseteq cut'
         /\ cut' \subseteq cut \cup Keys \cup {Control}
<1>1. PICK n \in 0 .. Len(Pressing(rule)) :
        sent' = SubSeq(Pressing(rule), 1, n) /\ cut' = cut \cup Unreleased(sent')
  BY DEF Inserts
<1>2. PICK s : s = sent'
  OBVIOUS
<1> DEFINE whole == Pressing(rule)
<1>3. /\ whole \in Seq(Event) /\ Len(whole) <= 4 /\ Len(whole) \in Nat
      /\ \A i \in 1 .. Len(whole) : ~ whole[i].up =>
           \A j \in 1 .. i - 1 : whole[j].key # whole[i].key
  BY PressingEvents
<1> HIDE DEF whole
<1>4. /\ s \in Seq(Event) /\ Len(s) <= 4 /\ Len(s) \in Nat /\ Len(s) <= Len(whole)
      /\ \A i \in 1 .. Len(s) : s[i] = whole[i]
  BY <1>1, <1>2, <1>3 DEF whole
<1>5. Unreleased(s) \subseteq Keys \cup {Control}
  <2>1. \A i \in 1 .. Len(s) : s[i] \in Event
    BY <1>4
  <2>2. \A i \in 1 .. Len(s) : s[i].key \in Keys \cup {Control}
    BY <2>1 DEF Event
  <2> QED  BY <2>2 DEF Unreleased
<1>6. Releases(s, cut')
  <2> SUFFICES ASSUME NEW i \in 1 .. Len(s), ~ s[i].up
               PROVE  /\ \A j \in 1 .. i - 1 : s[j].key # s[i].key
                      /\ \/ s[i].key \in cut'
                         \/ \E j \in i + 1 .. Len(s) : s[j].up /\ s[j].key = s[i].key
    BY DEF Releases
  <2>1. ASSUME NEW j \in 1 .. i - 1 PROVE s[j].key # s[i].key
    <3>1. i \in 1 .. Len(whole) /\ j \in 1 .. Len(s) /\ ~ whole[i].up
      BY <1>3, <1>4
    <3> QED  BY <1>3, <1>4, <3>1
  <2>2. s[i].key \in Unreleased(s) \/ \E j \in i + 1 .. Len(s) : s[j].up /\ s[j].key = s[i].key
    BY DEF Unreleased
  <2> QED  BY <1>1, <1>2, <2>1, <2>2
<1> QED  BY <1>1, <1>2, <1>4, <1>5, <1>6

\* What is left of some events after the first still releases what it presses, and the
\* first is either a release or released by those left.  A release of a key that was
\* excepted takes it out of the exception.
LEMMA TailReleases ==
  ASSUME NEW s \in Seq(Event), s # << >>, NEW but, Releases(s, but)
  PROVE  /\ Tail(s) \in Seq(Event) /\ Len(Tail(s)) = Len(s) - 1
         /\ Releases(Tail(s), IF Head(s).up THEN but \ {Head(s).key} ELSE but)
         /\ ~ Head(s).up => Head(s).key \in Ups(Tail(s)) \cup but
         /\ Ups(s) \subseteq Ups(Tail(s)) \cup {Head(s).key}
<1>1. /\ Tail(s) \in Seq(Event) /\ Len(Tail(s)) = Len(s) - 1 /\ Len(s) \in Nat
      /\ \A i \in 1 .. Len(s) - 1 : Tail(s)[i] = s[i + 1]
      /\ Head(s) = s[1] /\ Len(s) > 0
  OBVIOUS
<1>2. Releases(Tail(s), IF Head(s).up THEN but \ {Head(s).key} ELSE but)
  <2> SUFFICES ASSUME NEW i \in 1 .. Len(s) - 1, ~ s[i + 1].up
               PROVE  /\ \A j \in 1 .. i - 1 : s[j + 1].key # s[i + 1].key
                      /\ \/ s[i + 1].key \in IF s[1].up THEN but \ {s[1].key} ELSE but
                         \/ \E j \in i + 1 .. Len(s) - 1 :
                              s[j + 1].up /\ s[j + 1].key = s[i + 1].key
    BY <1>1 DEF Releases
  <2>1. /\ i + 1 \in 1 .. Len(s)
        /\ \A j \in 1 .. (i + 1) - 1 : s[j].key # s[i + 1].key
        /\ \/ s[i + 1].key \in but
           \/ \E j \in (i + 1) + 1 .. Len(s) : s[j].up /\ s[j].key = s[i + 1].key
    <3>1. i + 1 \in 1 .. Len(s)
      BY <1>1
    <3> QED  BY <3>1 DEF Releases
  <2>2. ASSUME NEW j \in 1 .. i - 1 PROVE s[j + 1].key # s[i + 1].key
    <3>1. j + 1 \in 1 .. (i + 1) - 1
      BY <1>1
    <3> QED  BY <2>1, <3>1
  <2>3. s[1].key # s[i + 1].key
    <3>1. 1 \in 1 .. (i + 1) - 1
      BY <1>1
    <3> QED  BY <2>1, <3>1
  <2>4. ASSUME NEW j \in (i + 1) + 1 .. Len(s), s[j].up, s[j].key = s[i + 1].key
        PROVE  \E k \in i + 1 .. Len(s) - 1 : s[k + 1].up /\ s[k + 1].key = s[i + 1].key
    <3>1. j - 1 \in i + 1 .. Len(s) - 1 /\ (j - 1) + 1 = j
      BY <1>1
    <3> QED  BY <2>4, <3>1
  <2> QED  BY <2>1, <2>2, <2>3, <2>4
<1>3. ~ Head(s).up => Head(s).key \in Ups(Tail(s)) \cup but
  <2> SUFFICES ASSUME ~ s[1].up, s[1].key \notin but PROVE s[1].key \in Ups(Tail(s))
    BY <1>1
  <2>1. PICK j \in 2 .. Len(s) : s[j].up /\ s[j].key = s[1].key
    BY <1>1 DEF Releases
  <2>2. j - 1 \in 1 .. Len(Tail(s)) /\ Tail(s)[j - 1] = s[j]
    BY <1>1
  <2> QED  BY <2>1, <2>2 DEF Ups
<1>4. Ups(s) \subseteq Ups(Tail(s)) \cup {Head(s).key}
  <2> SUFFICES ASSUME NEW i \in 1 .. Len(s), s[i].up, s[i].key # s[1].key
               PROVE  s[i].key \in Ups(Tail(s))
    BY <1>1 DEF Ups
  <2>1. i - 1 \in 1 .. Len(Tail(s)) /\ Tail(s)[i - 1] = s[i]
    BY <1>1
  <2> QED  BY <2>1 DEF Ups
<1> QED  BY <1>1, <1>2, <1>3, <1>4
-----------------------------------------------------------------------------
(* Types.                                                                  *)

\* The rules that the hooks get from the rows are rules.
LEMMA RulesOfRows ==
  ASSUME NEW r \in Seq(Row)
  PROVE  RulesOf(r) \in Seq(Rule)
<1>1. DOMAIN r = 1 .. Len(r) /\ Len(r) \in Nat /\ \A k \in 1 .. Len(r) : r[k] \in Row
  OBVIOUS
<1>2. \A k \in 1 .. Len(r) : r[k].rule \in Rule
  BY <1>1 DEF Row
<1> QED  BY <1>1, <1>2 DEF RulesOf

\* A row less, and the rows stay within their bound.
LEMMA RowRemoved ==
  ASSUME NEW r \in Seq(Row), NEW k \in DOMAIN r
  PROVE  /\ SubSeq(r, 1, k - 1) \o SubSeq(r, k + 1, Len(r)) \in Seq(Row)
         /\ Len(SubSeq(r, 1, k - 1) \o SubSeq(r, k + 1, Len(r))) <= Len(r)
<1>1. k \in 1 .. Len(r) /\ Len(r) \in Nat
  OBVIOUS
<1>2. SubSeq(r, 1, k - 1) \in Seq(Row) /\ Len(SubSeq(r, 1, k - 1)) = k - 1
  BY <1>1
<1>3. SubSeq(r, k + 1, Len(r)) \in Seq(Row) /\ Len(SubSeq(r, k + 1, Len(r))) = Len(r) - k
  BY <1>1
<1> QED  BY <1>1, <1>2, <1>3

\* The rules that apply to an input are among the rules.
LEMMA ApplicableRules ==
  ASSUME rules \in Seq(Rule), NEW input
  PROVE  Applicable(input) \subseteq Rule
BY DEF Applicable

\* What a captured key does to the rows.
LEMMA CaptureTypes ==
  ASSUME TypeOK, NEW key \in Keys, CaptureKey(key)
  PROVE  rows' \in Seq(Row) /\ Len(rows') <= MaxRows /\ capture' = NoCapture
<1> DEFINE k == capture.index
<1>1. /\ rows \in Seq(Row) /\ Len(rows) <= MaxRows /\ DOMAIN rows = 1 .. Len(rows)
      /\ capture' = NoCapture
  BY DEF TypeOK, TabTypeOK, CaptureKey
<1>2. CASE k \notin DOMAIN rows
  BY <1>1, <1>2 DEF CaptureKey
<1>3. CASE k \in DOMAIN rows /\ capture.action
  <2>1. rows' = [rows EXCEPT ![k].rule.key = key]
    BY <1>3 DEF CaptureKey
  <2>2. rows[k] \in Row
    BY <1>1, <1>3
  <2>3. [rows[k] EXCEPT !.rule.key = key] \in Row
    BY <2>2 DEF Row, Rule
  <2> QED  BY <1>1, <1>3, <2>1, <2>3
<1>4. CASE k \in DOMAIN rows /\ ~ capture.action /\ rows[k].rule.trigger \in Keys
  <2>1. rows' = [rows EXCEPT ![k].rule.trigger = key]
    BY <1>4 DEF CaptureKey
  <2>2. rows[k] \in Row
    BY <1>1, <1>4
  <2>3. [rows[k] EXCEPT !.rule.trigger = key] \in Row
    BY <2>2 DEF Row, Rule
  <2> QED  BY <1>1, <1>4, <2>1, <2>3
<1>5. CASE k \in DOMAIN rows /\ ~ capture.action /\ rows[k].rule.trigger \notin Keys
  BY <1>1, <1>5 DEF CaptureKey
<1> QED  BY <1>2, <1>3, <1>4, <1>5

\* The first state.
LEMMA InitTypes == Init => TypeOK
<1> SUFFICES ASSUME Init PROVE TypeOK
  OBVIOUS
<1> USE InputAssumption DEF Init
<1>1. rows \in Seq(Row) /\ Len(rows) <= MaxRows
  <2>1. /\ DOMAIN InitialRows = 1 .. Len(InitialRows) /\ Len(InitialRows) \in Nat
        /\ \A k \in 1 .. Len(InitialRows) : InitialRows[k] \in Rule /\ k \in Nat
    OBVIOUS
  <2>2. \A k \in 1 .. Len(InitialRows) : [rule |-> InitialRows[k], no |-> k] \in Row
    BY <2>1 DEF Row
  <2> QED  BY <2>1, <2>2
<1>2. TabTypeOK
  BY <1>1 DEF TabTypeOK
<1>3. KeyboardTypeOK
  BY DEF KeyboardTypeOK
<1>4. ProgramsTypeOK
  BY DEF ProgramsTypeOK
<1>5. HotkeyTypeOK
  <2>1. hotkey \in Chords /\ registered \subseteq Chords /\ others \subseteq Chords
    OBVIOUS
  <2>2. guard \in {"none", "fresh", "old"} /\ unused \in 0 .. 1
    OBVIOUS
  <2>3. short \in BOOLEAN
    OBVIOUS
  <2> QED  BY <2>1, <2>2, <2>3, Zenon DEF HotkeyTypeOK
<1> QED  BY <1>2, <1>3, <1>4, <1>5 DEF TypeOK

\* The four groups of variables are typed each for itself.
LEMMA TypesKept ==
  /\ TabTypeOK /\ UNCHANGED <<tab, rules>> => TabTypeOK'
  /\ KeyboardTypeOK /\ UNCHANGED keyboard => KeyboardTypeOK'
  /\ ProgramsTypeOK /\ UNCHANGED programs => ProgramsTypeOK'
  /\ HotkeyTypeOK /\ UNCHANGED hotkeys => HotkeyTypeOK'
<1>1. TabTypeOK /\ UNCHANGED <<tab, rules>> => TabTypeOK'
  BY DEF TabTypeOK, tab
<1>2. KeyboardTypeOK /\ UNCHANGED keyboard => KeyboardTypeOK'
  BY DEF KeyboardTypeOK, keyboard
<1>3. ProgramsTypeOK /\ UNCHANGED programs => ProgramsTypeOK'
  BY DEF ProgramsTypeOK, programs
<1>4. HotkeyTypeOK /\ UNCHANGED hotkeys => HotkeyTypeOK'
  BY DEF HotkeyTypeOK, hotkeys
<1> QED  BY <1>1, <1>2, <1>3, <1>4

\* The changes at the tab.
LEMMA TabTypes == TypeOK /\ Tab => TabTypeOK' /\ UNCHANGED <<keyboard, programs, hotkeys>>
<1> SUFFICES ASSUME TypeOK, Tab
             PROVE  TabTypeOK' /\ UNCHANGED <<keyboard, programs, hotkeys>>
  OBVIOUS
<1> USE InputAssumption DEF AtTab, Change, KeepAllBut, TabTypeOK
<1>0. /\ rows \in Seq(Row) /\ Len(rows) <= MaxRows /\ DOMAIN rows = 1 .. Len(rows)
      /\ Len(rows) \in Nat /\ edits \in 0 .. MaxEdits /\ TabTypeOK
  BY DEF TypeOK
<1>1. ASSUME NEW rule \in {NewRow, NewMouseRow}, AddRow(rule)
      PROVE  TabTypeOK' /\ UNCHANGED <<keyboard, programs, hotkeys>>
  <2>1. [rule |-> rule, no |-> Len(InitialRows) + edits + 1] \in Row
    BY <1>0 DEF Row
  <2>2. rows' \in Seq(Row) /\ Len(rows') <= MaxRows
    BY <1>0, <1>1, <2>1 DEF AddRow, PutRow
  <2> QED  BY <1>0, <1>1, <2>2 DEF AddRow
<1>2. ASSUME NEW k \in DOMAIN rows, RemoveRow(k)
      PROVE  TabTypeOK' /\ UNCHANGED <<keyboard, programs, hotkeys>>
  <2>0. rows' = SubSeq(rows, 1, k - 1) \o SubSeq(rows, k + 1, Len(rows))
    BY <1>2 DEF RemoveRow
  <2>1. rows' \in Seq(Row) /\ Len(rows') <= MaxRows
    <3>1. rows' \in Seq(Row) /\ Len(rows') <= Len(rows)
      BY <1>0, <2>0, RowRemoved
    <3> QED  BY <1>0, <3>1
  <2>2. rules' \in Seq(Rule)
    BY <1>2, <2>1, RulesOfRows DEF RemoveRow
  <2>3. capture' \in {NoCapture} \cup
          [index : 1 .. MaxRows, action : BOOLEAN, no : Nat, moved : BOOLEAN]
    BY <1>0, <1>2 DEF RemoveRow
  <2>4. edits < MaxEdits /\ edits' = edits + 1
    BY <1>2 DEF RemoveRow
  <2>5. UNCHANGED <<keyboard, programs, hotkeys>>
    BY <1>2, Zenon DEF RemoveRow
  <2>6. edits' \in 0 .. MaxEdits
    BY <1>0, <2>4
  <2> QED  BY <2>1, <2>2, <2>3, <2>5, <2>6
<1>3. ASSUME NEW k \in DOMAIN rows, NEW rule \in Rule, EditRow(k, rule)
      PROVE  TabTypeOK' /\ UNCHANGED <<keyboard, programs, hotkeys>>
  <2>0. rows[k] \in Row
    BY <1>0
  <2>1. [rows[k] EXCEPT !.rule = rule] \in Row
    BY <2>0 DEF Row
  <2>2. rows' = [rows EXCEPT ![k] = [rows[k] EXCEPT !.rule = rule]]
    BY <1>3 DEF EditRow
  <2>3. rows' \in Seq(Row) /\ Len(rows') <= MaxRows
    BY <1>0, <2>1, <2>2
  <2> QED  BY <1>0, <1>3, <2>3 DEF EditRow
<1>4. ASSUME NEW k \in DOMAIN rows, NEW action \in BOOLEAN, PickKey(k, action)
      PROVE  TabTypeOK' /\ UNCHANGED <<keyboard, programs, hotkeys>>
  <2>1. k \in 1 .. MaxRows
    BY <1>0
  <2>0. rows[k] \in Row
    BY <1>0
  <2>2. rows[k].no \in Nat
    BY <2>0 DEF Row
  <2>3. capture' \in {NoCapture} \cup
          [index : 1 .. MaxRows, action : BOOLEAN, no : Nat, moved : BOOLEAN]
    BY <1>4, <2>1, <2>2 DEF PickKey
  <2> QED  BY <1>0, <1>4, <2>3 DEF PickKey
<1>5. ASSUME SaveRows PROVE TabTypeOK' /\ UNCHANGED <<keyboard, programs, hotkeys>>
  BY <1>0, <1>5, RulesOfRows DEF SaveRows
<1> QED  BY <1>1, <1>2, <1>3, <1>4, <1>5 DEF Tab

\* The keys, and what is inserted for them.
LEMMA KeyTypes == TypeOK /\ (Typing \/ Deliver) => TypeOK'
<1> SUFFICES ASSUME TypeOK, Typing \/ Deliver PROVE TypeOK'
  OBVIOUS
<1> USE TypesKept
<1>1. ASSUME NEW input \in Inputs, Press(input) PROVE TypeOK'
  <2>1. rows' \in Seq(Row) /\ Len(rows') <= MaxRows /\ capture' \in {NoCapture, capture}
    BY <1>1, CaptureTypes DEF Press, TypeOK, TabTypeOK
  <2>2. TabTypeOK'
    BY <1>1, <2>1 DEF Press, TypeOK, TabTypeOK
  <2>3. sent' \in Seq(Event) /\ Len(sent') <= 4 /\ cut' \subseteq Keys \cup {Control}
    <3>1. CASE TargetIsForeground /\ Applicable(input) # {}
      <4>1. PICK rule \in Applicable(input) : Inserts(rule)
        BY <1>1, <3>1 DEF Press
      <4>2. rule \in Rule /\ cut \subseteq Keys \cup {Control}
        BY <4>1, ApplicableRules DEF TypeOK, TabTypeOK, KeyboardTypeOK
      <4> QED  BY <4>1, <4>2, InsertedEvents
    <3>2. CASE ~ (TargetIsForeground /\ Applicable(input) # {})
      BY <1>1, <3>2 DEF Press, Reaches, TypeOK, KeyboardTypeOK
    <3> QED  BY <3>1, <3>2
  <2>4. KeyboardTypeOK'
    BY <1>1, <2>3 DEF Press, Reaches, TypeOK, KeyboardTypeOK
  <2> QED  BY <1>1, <2>2, <2>4 DEF Press, TypeOK
<1>2. ASSUME NEW input \in Inputs, Release(input) PROVE TypeOK'
  <2>1. KeyboardTypeOK'
    BY <1>2 DEF Release, Reaches, TypeOK, KeyboardTypeOK
  <2> QED  BY <1>2, <2>1 DEF Release, TypeOK
<1>3. ASSUME Deliver PROVE TypeOK'
  <2>1. Head(sent) \in Event /\ Tail(sent) \in Seq(Event) /\ Len(Tail(sent)) <= 4
    BY <1>3 DEF Deliver, TypeOK, KeyboardTypeOK
  <2>2. Head(sent).key \in Inputs
    BY <2>1 DEF Event, Inputs
  <2>3. KeyboardTypeOK'
    BY <1>3, <2>1, <2>2 DEF Deliver, Reaches, TypeOK, KeyboardTypeOK
  <2> QED  BY <1>3, <2>3 DEF Deliver, TypeOK
<1> QED  BY <1>1, <1>2, <1>3 DEF Typing

\* Programs and hotkeys.
LEMMA WindowsTypes == TypeOK /\ Windows => TypeOK'
<1> SUFFICES ASSUME TypeOK, Windows PROVE TypeOK'
  OBVIOUS
<1>1. ProgramsTypeOK'
  BY InputAssumption DEF Windows, Focus, GameStarts, GameEnds, SetTarget, TypeOK, ProgramsTypeOK
<1>2. UNCHANGED <<tab, rules, hotkeys, down, sent, held, cut>> /\ seen' \in {seen, {}}
  BY DEF Windows, Focus, GameStarts, GameEnds, SetTarget, keyboard
<1>3. KeyboardTypeOK'
  BY <1>2 DEF TypeOK, KeyboardTypeOK
<1> QED  BY <1>1, <1>2, <1>3, TypesKept DEF TypeOK

\* The restart hotkey.
LEMMA HotkeyTypes == TypeOK /\ Hotkey => TypeOK'
<1> SUFFICES ASSUME TypeOK, Hotkey PROVE TypeOK'
  OBVIOUS
<1>1. HotkeyTypeOK'
  <2>1. ASSUME RestartPressed PROVE HotkeyTypeOK'
    <3>1. short' \in BOOLEAN
      <4>1. short \in BOOLEAN /\ (short' = short \/ short' = (short \/ unused = 0))
        BY <2>1, Zenon
           DEF RestartPressed, GuardPress, StartsRestart, Earlier, TypeOK, HotkeyTypeOK
      <4> QED  BY <4>1, Zenon
    <3>2. unused' \in 0 .. 1 /\ guard' \in {"none", "fresh", "old"}
      BY <2>1 DEF RestartPressed, GuardPress, StartsRestart, Earlier
    <3>3. UNCHANGED <<hotkey, registered, others>>
      BY <2>1 DEF RestartPressed
    <3> QED  BY <3>1, <3>2, <3>3 DEF TypeOK, HotkeyTypeOK
  <2>2. ASSUME IntervalPasses PROVE HotkeyTypeOK'
    BY <2>2 DEF IntervalPasses, TypeOK, HotkeyTypeOK
  <2>3. ASSUME NEW chord \in Chords, Rebind(chord) PROVE HotkeyTypeOK'
    <3>1. UNCHANGED <<guard, unused, short>>
      BY <2>3 DEF Rebind
    <3>2. /\ registered' \in {registered, {chord}, {hotkey}, {hotkey} \ others'}
          /\ hotkey' \in {hotkey, chord}
          /\ others' \in {others, others \cup {hotkey}}
      BY <2>3 DEF Rebind
    <3> QED  BY <3>1, <3>2 DEF TypeOK, HotkeyTypeOK
  <2>4. ASSUME NEW chord \in Chords, OthersRegister(chord) PROVE HotkeyTypeOK'
    BY <2>4 DEF OthersRegister, TypeOK, HotkeyTypeOK
  <2> QED  BY <2>1, <2>2, <2>3, <2>4 DEF Hotkey
<1>2. UNCHANGED <<rows, capture, rules, keyboard, programs>> /\ edits' \in {edits, edits + 1}
      /\ edits' <= MaxEdits
  BY InputAssumption DEF Hotkey, RestartPressed, IntervalPasses, Rebind, OthersRegister, AtTab,
         Change, tab, TypeOK, TabTypeOK
<1>3. TabTypeOK'
  BY <1>2 DEF TypeOK, TabTypeOK
<1> QED  BY <1>1, <1>2, <1>3, TypesKept DEF TypeOK

\* Every variable of Input keeps its type.
THEOREM TypeCorrect == Spec => []TypeOK
<1>1. TypeOK /\ [Next]_vars => TypeOK'
  <2>1. TypeOK /\ UNCHANGED vars => TypeOK'
    BY TypesKept DEF TypeOK, vars
  <2>2. TypeOK /\ Tab => TypeOK'
    BY TabTypes, TypesKept DEF TypeOK
  <2> QED  BY <2>1, <2>2, KeyTypes, WindowsTypes, HotkeyTypes DEF Next
<1> QED  BY InitTypes, <1>1, PTL DEF Spec
-----------------------------------------------------------------------------
(* The keyboard.                                                           *)

\* A key that is taken to be down is held, or about to be released, or cut; and the game
\* takes none to be down unless its window is in the foreground.
Accounted ==
  /\ Releases(sent, cut)
  /\ down \subseteq held \cup Ups(sent) \cup cut
  /\ seen \subseteq held \cup Ups(sent) \cup cut
  /\ foreground = None \/ foreground # running => seen = {}

\* A press or a release that reaches the window in the foreground.
LEMMA AccountedKeys == TypeOK /\ Accounted /\ (Typing \/ Deliver) => Accounted'
<1> SUFFICES ASSUME TypeOK, Accounted, Typing \/ Deliver PROVE Accounted'
  OBVIOUS
<1>0. Ups(<< >>) = {} /\ \A but : Releases(<< >>, but)
  BY DEF Ups, Releases
<1>1. ASSUME NEW input \in Inputs, Press(input) PROVE Accounted'
  <2>1. sent = << >> /\ held' = held \cup {input} /\ UNCHANGED <<foreground, running>>
    BY <1>1 DEF Press, programs
  <2>2. down \subseteq held \cup cut /\ seen \subseteq held \cup cut
    BY <1>0, <2>1 DEF Accounted
  <2>3. CASE TargetIsForeground /\ Applicable(input) # {}
    <3>1. PICK rule \in Applicable(input) : Inserts(rule)
      BY <1>1, <2>3 DEF Press
    <3>2. rule \in Rule
      BY <3>1, ApplicableRules DEF TypeOK, TabTypeOK
    <3>3. Releases(sent', cut') /\ cut \subseteq cut'
      BY <3>1, <3>2, InsertedEvents
    <3>4. UNCHANGED <<down, seen>>
      BY <1>1, <2>3 DEF Press
    <3> QED  BY <2>1, <2>2, <3>3, <3>4 DEF Accounted
  <2>4. CASE ~ (TargetIsForeground /\ Applicable(input) # {})
    <3>1. Reaches(input, FALSE) /\ UNCHANGED sent
      BY <1>1, <2>4 DEF Press
    <3>2. /\ down' = down \cup {input} /\ seen' \subseteq seen \cup {input} /\ cut' = cut
          /\ foreground = None \/ foreground # running => seen' = seen
      BY <3>1 DEF Reaches
    <3>3. Releases(sent', cut')
      BY <1>0, <2>1, <3>1
    <3> QED  BY <2>1, <2>2, <3>2, <3>3 DEF Accounted
  <2> QED  BY <2>3, <2>4
<1>2. ASSUME NEW input \in Inputs, Release(input) PROVE Accounted'
  <2>1. sent = << >> /\ sent' = << >> /\ held' = held \ {input}
        /\ UNCHANGED <<foreground, running>>
    BY <1>2 DEF Release, programs
  <2>2. down' = down \ {input} /\ cut' = cut \ {input}
        /\ seen' = IF foreground = None \/ foreground # running THEN seen ELSE seen \ {input}
    BY <1>2 DEF Release, Reaches
  <2>3. down \subseteq held \cup cut /\ seen \subseteq held \cup cut
        /\ (foreground = None \/ foreground # running => seen = {})
    BY <1>0, <2>1 DEF Accounted
  <2>4. down' \subseteq held' \cup cut' /\ seen' \subseteq held' \cup cut'
    BY <2>1, <2>2, <2>3
  <2>5. Releases(sent', cut')
    BY <1>0, <2>1
  <2> QED  BY <2>1, <2>2, <2>3, <2>4, <2>5 DEF Accounted
<1>3. ASSUME Deliver PROVE Accounted'
  <2> DEFINE event == Head(sent)
  <2>1. sent # << >> /\ sent' = Tail(sent) /\ UNCHANGED <<held, foreground, running>>
    BY <1>3 DEF Deliver, programs
  <2>2. cut' = IF event.up THEN cut \ {event.key} ELSE cut
    BY <1>3 DEF Deliver, Reaches
  <2>3. /\ Releases(sent', cut')
        /\ ~ event.up => event.key \in Ups(sent') \cup cut
        /\ Ups(sent) \subseteq Ups(sent') \cup {event.key}
    BY <2>1, <2>2, TailReleases DEF Accounted, TypeOK, KeyboardTypeOK
  <2>4. down' = (IF event.up THEN down \ {event.key} ELSE down \cup {event.key})
        /\ seen' = IF foreground = None \/ foreground # running THEN seen
                   ELSE IF event.up THEN seen \ {event.key} ELSE seen \cup {event.key}
    BY <1>3 DEF Deliver, Reaches
  <2> HIDE DEF event
  <2>5. down' \subseteq held' \cup Ups(sent') \cup cut'
    BY <2>1, <2>2, <2>3, <2>4 DEF Accounted
  <2>6. seen' \subseteq held' \cup Ups(sent') \cup cut'
    BY <2>1, <2>2, <2>3, <2>4 DEF Accounted
  <2>7. foreground' = None \/ foreground' # running' => seen' = {}
    BY <2>1, <2>4 DEF Accounted
  <2> QED  BY <2>3, <2>5, <2>6, <2>7 DEF Accounted
<1> QED  BY <1>1, <1>2, <1>3 DEF Typing

\* A change of the focus, or of the games.
LEMMA AccountedPrograms == TypeOK /\ Accounted /\ Windows => Accounted'
<1> SUFFICES ASSUME TypeOK, Accounted, Windows PROVE Accounted'
  OBVIOUS
<1>1. UNCHANGED <<down, sent, held, cut>> /\ seen' \in {seen, {}}
  BY DEF Windows, Focus, GameStarts, GameEnds, SetTarget, keyboard
<1>2. foreground' = None \/ foreground' # running' => seen' = {}
  BY InputAssumption DEF Windows, Focus, GameStarts, GameEnds, SetTarget, keyboard, Accounted,
                         TypeOK, ProgramsTypeOK
<1> QED  BY <1>1, <1>2 DEF Accounted

\* When the user has let go of everything, no key is taken to be down but those whose
\* release SendInput has not inserted, whatever was remapped, edited, focused, started or
\* ended in between: what it does insert, and what the hooks let pass, always pairs.
THEOREM NoKeySticks == Spec => []NothingSticks
<1>1. Init => Accounted
  BY DEF Init, Accounted, Releases
<1>2. TypeOK /\ Accounted /\ [Next]_vars => Accounted'
  <2>1. Accounted /\ UNCHANGED <<keyboard, programs>> => Accounted'
    BY DEF Accounted, keyboard, programs
  <2>2. TypeOK /\ Accounted /\ Tab => Accounted'
    BY <2>1, TabTypes
  <2>3. Hotkey => UNCHANGED <<keyboard, programs>>
    BY DEF Hotkey, RestartPressed, IntervalPasses, Rebind, OthersRegister
  <2> QED  BY <2>1, <2>2, <2>3, AccountedKeys, AccountedPrograms DEF Next, vars
<1>3. Accounted => NothingSticks
  BY DEF Accounted, NothingSticks, Ups
<1> QED  BY <1>1, <1>2, <1>3, TypeCorrect, PTL DEF Spec

\* What is typed into another window than the one of the game that is the target is never
\* replaced.
THEOREM OthersAreLeftAlone == Spec => OthersLeftAlone
<1>1. TypeOK /\ [Next]_vars =>
        (sent' # sent /\ sent = << >> => foreground \in Games /\ foreground = running)
  <2> SUFFICES ASSUME TypeOK, [Next]_vars, sent' # sent, sent = << >>
               PROVE  foreground \in Games /\ foreground = running
    OBVIOUS
  <2>1. PICK input \in Inputs : Press(input)
    BY TabTypes DEF Next, Typing, Release, Deliver, Windows, Focus, GameStarts, GameEnds,
       SetTarget, Hotkey, RestartPressed, IntervalPasses, Rebind, OthersRegister, keyboard, vars
  <2>2. TargetIsForeground
    BY <2>1 DEF Press
  <2> QED  BY <2>2 DEF TargetIsForeground, TypeOK, ProgramsTypeOK
<1>2. TypeOK /\ [Next]_vars =>
        [sent' # sent /\ sent = << >> => foreground \in Games /\ foreground = running]_vars
  BY <1>1
<1> QED  BY <1>2, TypeCorrect, PTL DEF Spec, OthersLeftAlone

-----------------------------------------------------------------------------
(* The guard of the restart.                                               *)

\* The guard remembers a press exactly while there is one that started nothing.
GuardCounts == (guard = "fresh" <=> unused = 1) /\ unused \in 0 .. 1 /\ short = FALSE

\* Each restart takes two presses of its own, the second within the interval.
THEOREM RestartTakesTwoPresses == Spec => []TwoPressesPerRestart
<1>1. Init => GuardCounts
  BY DEF Init, GuardCounts
<1>2. GuardCounts /\ [Next]_vars => GuardCounts'
  <2> SUFFICES ASSUME GuardCounts, [Next]_vars PROVE GuardCounts'
    OBVIOUS
  <2>1. CASE RestartPressed
    <3>1. CASE guard = "fresh" /\ guard' = "none" /\ StartsRestart
      <4>1. unused = 1 /\ unused' = 0 /\ short' = (short \/ unused = 0)
        BY <3>1 DEF StartsRestart, GuardCounts
      <4>2. ~ (unused = 0)
        BY <4>1
      <4>3. short' = FALSE
        BY <4>1, <4>2, Zenon DEF GuardCounts
      <4> QED  BY <3>1, <4>1, <4>3 DEF GuardCounts
    <3>2. CASE guard # "fresh" /\ guard' = "fresh" /\ Earlier
      BY <3>2 DEF Earlier, GuardCounts
    <3> QED  BY <2>1, <3>1, <3>2 DEF RestartPressed, GuardPress
  <2>2. CASE IntervalPasses
    BY <2>2 DEF IntervalPasses, GuardCounts
  <2>3. CASE UNCHANGED <<guard, unused, short>>
    BY <2>3 DEF GuardCounts
  <2>4. Tab \/ Typing \/ Deliver \/ Windows \/ UNCHANGED vars => UNCHANGED hotkeys
    BY DEF Tab, AddRow, RemoveRow, EditRow, PickKey, SaveRows, KeepAllBut, Typing, Press, Release,
           Deliver, Windows, Focus, GameStarts, GameEnds, SetTarget, vars
  <2>5. Hotkey => RestartPressed \/ IntervalPasses \/ UNCHANGED <<guard, unused, short>>
    BY DEF Hotkey, Rebind, OthersRegister
  <2> QED  BY <2>1, <2>2, <2>3, <2>4, <2>5 DEF Next, hotkeys
<1>3. GuardCounts => TwoPressesPerRestart
  BY DEF GuardCounts, TwoPressesPerRestart
<1> QED  BY <1>1, <1>2, <1>3, PTL DEF Spec

-----------------------------------------------------------------------------
(* What a step may never do: events, the armed field and the hotkey.       *)

\* Only a delivery changes events that are under way, so that what a remap sends is never
\* remapped itself.
THEOREM InsertedEventsRunOut == Spec => OutputsComeToAnEnd
<1>1. [Next]_vars => (sent # << >> /\ sent' # sent => sent' = Tail(sent))
  <2> SUFFICES ASSUME [Next]_vars, sent # << >>, sent' # sent PROVE Deliver
    BY DEF Deliver
  <2>1. ~ Typing
    BY DEF Typing, Press, Release
  <2>2. Tab => sent' = sent
    BY DEF Tab, AddRow, RemoveRow, EditRow, PickKey, SaveRows, KeepAllBut, keyboard
  <2>3. Windows => sent' = sent
    BY DEF Windows, Focus, GameStarts, GameEnds, SetTarget, keyboard
  <2>4. Hotkey => sent' = sent
    BY DEF Hotkey, RestartPressed, IntervalPasses, Rebind, OthersRegister, keyboard
  <2> QED  BY <2>1, <2>2, <2>3, <2>4 DEF Next, vars, keyboard
<1>2. [Next]_vars => [sent # << >> /\ sent' # sent => sent' = Tail(sent)]_vars
  BY <1>1
<1> QED  BY <1>2, PTL DEF Spec, OutputsComeToAnEnd

\* The field that waits for a key is at the index of the row it was armed in, as long as no
\* row has been removed.
ArmedIsThere ==
  capture # NoCapture /\ ~ capture.moved =>
    capture.index \in DOMAIN rows /\ rows[capture.index].no = capture.no

\* Rows that are added come after the armed one, and an edit leaves every row in its place.
LEMMA ArmedAtTab == TypeOK /\ ArmedIsThere /\ Tab => ArmedIsThere'
<1> SUFFICES ASSUME TypeOK, ArmedIsThere, Tab PROVE ArmedIsThere'
  OBVIOUS
<1>0. /\ rows \in Seq(Row) /\ DOMAIN rows = 1 .. Len(rows) /\ Len(rows) \in Nat
      /\ capture \in {NoCapture} \cup
           [index : 1 .. MaxRows, action : BOOLEAN, no : Nat, moved : BOOLEAN]
  BY DEF TypeOK, TabTypeOK
<1>1. ASSUME NEW rule \in {NewRow, NewMouseRow}, AddRow(rule) PROVE ArmedIsThere'
  <2>1. capture' = capture /\ \A k \in DOMAIN rows : k \in DOMAIN rows' /\ rows'[k] = rows[k]
    BY <1>0, <1>1 DEF AddRow, PutRow
  <2> QED  BY <2>1 DEF ArmedIsThere
<1>2. ASSUME NEW k \in DOMAIN rows, RemoveRow(k) PROVE ArmedIsThere'
  <2>1. capture' = NoCapture \/ capture'.moved = TRUE
    BY <1>0, <1>2 DEF RemoveRow
  <2> QED  BY <2>1 DEF ArmedIsThere
<1>3. ASSUME NEW k \in DOMAIN rows, NEW rule \in Rule, EditRow(k, rule) PROVE ArmedIsThere'
  <2>1. capture' = capture /\ rows' = [rows EXCEPT ![k].rule = rule]
    BY <1>3 DEF EditRow
  <2>2. rows[k] \in Row
    BY <1>0
  <2>3. \A j \in DOMAIN rows : j \in DOMAIN rows' /\ rows'[j].no = rows[j].no
    BY <1>0, <2>1, <2>2 DEF Row
  <2> QED  BY <2>1, <2>3 DEF ArmedIsThere
<1>4. ASSUME NEW k \in DOMAIN rows, NEW action \in BOOLEAN, PickKey(k, action)
      PROVE  ArmedIsThere'
  <2>1. rows' = rows
        /\ capture' \in {NoCapture,
                         [index |-> k, action |-> action, no |-> rows[k].no, moved |-> FALSE]}
    BY <1>4 DEF PickKey
  <2> QED  BY <2>1 DEF ArmedIsThere
<1>5. ASSUME SaveRows PROVE ArmedIsThere'
  BY <1>5 DEF SaveRows, ArmedIsThere
<1> QED  BY <1>1, <1>2, <1>3, <1>4, <1>5 DEF Tab

\* What a key that is captured does to the row of the armed field, and to no other.
LEMMA CaptureLands ==
  ASSUME TypeOK, ArmedIsThere, capture # NoCapture, ~ capture.moved,
         NEW key \in Keys, CaptureKey(key)
  PROVE  \E k \in DOMAIN rows : /\ rows[k].no = capture.no
                                /\ \A j \in DOMAIN rows \ {k} : rows'[j] = rows[j]
<1> DEFINE k == capture.index
<1>1. rows \in Seq(Row) /\ k \in DOMAIN rows /\ rows[k].no = capture.no
  BY DEF TypeOK, TabTypeOK, ArmedIsThere
<1>2. \A j \in DOMAIN rows \ {k} : rows'[j] = rows[j]
  BY <1>1 DEF CaptureKey
<1> QED  BY <1>1, <1>2

\* The next key goes into the row whose field was armed for it, and into no other, as long
\* as no row has been removed.
THEOREM CapturedKeysLand == Spec => CapturedKeyLands
<1>1. Init => ArmedIsThere
  BY DEF Init, ArmedIsThere
<1>2. TypeOK /\ ArmedIsThere /\ [Next]_vars => ArmedIsThere'
  <2>1. ArmedIsThere /\ UNCHANGED <<rows, capture>> => ArmedIsThere'
    BY DEF ArmedIsThere
  <2>2. Typing => UNCHANGED <<rows, capture>> \/ capture' = NoCapture
    BY DEF Typing, Press, Release, CaptureKey, tab
  <2>3. capture' = NoCapture => ArmedIsThere'
    BY DEF ArmedIsThere
  <2>4. Deliver \/ Windows \/ Hotkey \/ UNCHANGED vars => UNCHANGED <<rows, capture>>
    BY DEF Deliver, Windows, Focus, GameStarts, GameEnds, SetTarget, Hotkey, RestartPressed,
           IntervalPasses, Rebind, OthersRegister, tab, vars
  <2> QED  BY <2>1, <2>2, <2>3, <2>4, ArmedAtTab DEF Next
<1>3. TypeOK /\ ArmedIsThere /\ [Next]_vars =>
        [rows' # rows /\ edits' = edits /\ capture # NoCapture /\ ~ capture.moved =>
           \E k \in DOMAIN rows : /\ rows[k].no = capture.no
                                  /\ \A j \in DOMAIN rows \ {k} : rows'[j] = rows[j]]_vars
  <2> SUFFICES ASSUME TypeOK, ArmedIsThere, [Next]_vars, rows' # rows, edits' = edits,
                      capture # NoCapture, ~ capture.moved
               PROVE  \E k \in DOMAIN rows : /\ rows[k].no = capture.no
                                             /\ \A j \in DOMAIN rows \ {k} : rows'[j] = rows[j]
    OBVIOUS
  <2>1. ~ Tab
    <3>1. edits \in Nat
      BY InputAssumption DEF TypeOK, TabTypeOK
    <3>2. Tab => edits' = edits + 1
      BY DEF Tab, AddRow, RemoveRow, EditRow, PickKey, SaveRows, AtTab, Change
    <3> QED  BY <3>1, <3>2
  <2>2. Typing
    BY <2>1 DEF Next, Deliver, Windows, Focus, GameStarts, GameEnds, SetTarget, Hotkey,
       RestartPressed, IntervalPasses, Rebind, OthersRegister, tab, vars
  <2>3. PICK input \in Inputs : Press(input)
    BY <2>2 DEF Typing, Release, tab
  <2>4. input \in Keys /\ CaptureKey(input)
    BY <2>3 DEF Press
  <2> QED  BY <2>4, CaptureLands
<1> QED  BY <1>1, <1>2, <1>3, TypeCorrect, PTL DEF Spec, CapturedKeyLands

\* No other chord than the one in use is registered.
OnlyHotkey == registered \subseteq {hotkey}

\* A rebinding gives the old chord up, also when it fails, and the hotkey is lost only to a
\* program that has taken it.
THEOREM HotkeyStaysOurs == Spec => HotkeyIsOurs
<1>1. Init => OnlyHotkey
  BY DEF Init, OnlyHotkey
<1>2. OnlyHotkey /\ [Next]_vars =>
        /\ registered' \subseteq {hotkey'}
        /\ hotkey \in registered /\ hotkey' \notin registered' => hotkey' \in others'
  <2> SUFFICES ASSUME OnlyHotkey, [Next]_vars
               PROVE  /\ registered' \subseteq {hotkey'}
                      /\ hotkey \in registered /\ hotkey' \notin registered' =>
                           hotkey' \in others'
    OBVIOUS
  <2>1. ASSUME NEW chord \in Chords, Rebind(chord)
        PROVE  /\ registered' \subseteq {hotkey'}
               /\ hotkey \in registered /\ hotkey' \notin registered' =>
                    hotkey' \in others'
    <3>1. CASE hotkey \notin registered
      BY <2>1, <3>1 DEF Rebind, OnlyHotkey
    <3>2. CASE hotkey \in registered
      BY <2>1, <3>2 DEF Rebind
    <3> QED  BY <3>1, <3>2
  <2>2. CASE UNCHANGED <<hotkey, registered>>
    BY <2>2 DEF OnlyHotkey
  <2>3. Tab \/ Typing \/ Deliver \/ Windows \/ UNCHANGED vars => UNCHANGED hotkeys
    BY DEF Tab, AddRow, RemoveRow, EditRow, PickKey, SaveRows, KeepAllBut, Typing, Press, Release,
           Deliver, Windows, Focus, GameStarts, GameEnds, SetTarget, vars
  <2>4. Hotkey => (\E chord \in Chords : Rebind(chord)) \/ UNCHANGED <<hotkey, registered>>
    BY DEF Hotkey, RestartPressed, IntervalPasses, OthersRegister
  <2> QED  BY <2>1, <2>2, <2>3, <2>4 DEF Next, hotkeys
<1>3. OnlyHotkey /\ [Next]_vars =>
        [/\ registered' \subseteq {hotkey'}
         /\ hotkey \in registered /\ hotkey' \notin registered' => hotkey' \in others']_vars
  BY <1>2
<1>4. OnlyHotkey /\ [Next]_vars => OnlyHotkey'
  BY <1>2 DEF OnlyHotkey
<1> QED  BY <1>1, <1>3, <1>4, PTL DEF Spec, HotkeyIsOurs
=============================================================================
