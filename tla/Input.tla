-------------------------------- MODULE Input --------------------------------
(***************************************************************************)
(* What the user types while the assistant runs: the remaps, from the      *)
(* Hotkeys tab (crates/assistant/src/app.rs) to the low-level hooks that   *)
(* apply them (input.rs), and the restart hotkey with its double tap       *)
(* (app.rs, RestartGuard in restart.rs).                                   *)
(*                                                                         *)
(* Three views of the keyboard have to come together again whatever was    *)
(* remapped: the keys the user holds, the ones Windows believes to be      *)
(* down, which the hooks ask for modifiers, and the ones the game believes *)
(* to be down.  The rules change, the focus moves and games come and go    *)
(* between the press of a key and its release.                             *)
(*                                                                         *)
(* Abstractions: Control stands for the three modifiers; the file the      *)
(* remaps are saved in is left to Settings; a press repeated by Windows is *)
(* a press of a key that is held already.                                  *)
(***************************************************************************)
EXTENDS Naturals, Sequences, FiniteSets

CONSTANTS
  Keys, Buttons,   \* of the keyboard, of the mouse
  Control,
  Games,           \* processes of the game
  Other,           \* any other program
  Assistant,
  None,
  Chords,          \* key combinations that can be registered as hotkeys
  InitialRows,     \* remaps of the configuration
  NewRow, NewMouseRow,   \* what "Add key" and "Add mouse" add
  MaxRows,         \* bound: remaps
  MaxEdits,        \* bound: changes at the tab and of the hotkeys
  MaxHeld,         \* bound: keys and buttons that are held together
  MaxCut           \* bound: keys left down together by SendInput

Inputs == Keys \cup Buttons \cup {Control}

\* RemapRule.  A remap of a mouse button does not look at modifiers.
Rule == [enabled : BOOLEAN, trigger : Keys \cup Buttons, control : BOOLEAN,
         key : Keys, withControl : BOOLEAN]
\* A row of the Hotkeys tab; the number is not in the program, and tells rows apart.
Row == [rule : Rule, no : Nat]

ASSUME InputAssumption ==
  /\ None \notin Games \cup {Other, Assistant} \cup Chords
  /\ Other \notin Games /\ Assistant \notin Games
  /\ Control \notin Keys \cup Buttons
  /\ Keys \cap Buttons = {} /\ {NewRow, NewMouseRow} \subseteq Rule
  /\ InitialRows \in Seq(Rule) /\ Len(InitialRows) <= MaxRows
  /\ Chords # {} /\ MaxRows \in Nat /\ MaxEdits \in Nat /\ MaxHeld \in Nat
  /\ MaxCut \in Nat

VARIABLES
  \* the Hotkeys tab
  rows,       \* config.remaps
  capture,    \* the field that waits for a key
  edits,
  \* HookState
  rules, target,
  \* Windows: the process of the foreground window (None: it has just gone), the game
  \* that runs, the keys that are down, and injected events that are under way
  foreground, running, down, sent,
  held,       \* what the user holds
  seen,       \* what the game believes to be down
  cut,        \* keys of which SendInput has inserted the press and never the release
  \* the restart hotkey: the one in use, the ones registered by this and by other programs
  hotkey, registered, others,
  guard,      \* RestartGuard: the age of first_press
  unused,     \* presses within the interval that no restart was started by
  short       \* a restart was started with no such press before it

tab == <<rows, capture, edits>>
keyboard == <<down, sent, held, seen, cut>>
programs == <<foreground, running, target>>
hotkeys == <<hotkey, registered, others, guard, unused, short>>
vars == <<tab, rules, keyboard, programs, hotkeys>>

-----------------------------------------------------------------------------
NoCapture == [index |-> 0]
Event == [key : Keys \cup {Control}, up : BOOLEAN]

TabTypeOK ==
  /\ rows \in Seq(Row) /\ Len(rows) <= MaxRows
  /\ capture \in {NoCapture} \cup
       [index : 1 .. MaxRows, action : BOOLEAN, no : Nat, moved : BOOLEAN]
  /\ edits \in 0 .. MaxEdits
  /\ rules \in Seq(Rule)

KeyboardTypeOK ==
  /\ down \subseteq Inputs /\ held \subseteq Inputs /\ seen \subseteq Inputs
  /\ cut \subseteq Keys \cup {Control}
  /\ sent \in Seq(Event) /\ Len(sent) <= 4

ProgramsTypeOK ==
  /\ target \in Games \cup {None} /\ running \in Games \cup {None}
  /\ foreground \in Games \cup {Other, Assistant, None}
  /\ foreground \in Games => foreground = running

HotkeyTypeOK ==
  /\ hotkey \in Chords /\ registered \subseteq Chords /\ others \subseteq Chords
  /\ guard \in {"none", "fresh", "old"} /\ unused \in 0 .. 1 /\ short \in BOOLEAN

TypeOK == TabTypeOK /\ KeyboardTypeOK /\ ProgramsTypeOK /\ HotkeyTypeOK

RulesOf(r) == [k \in DOMAIN r |-> r[k].rule]

Init ==
  /\ rows = [k \in DOMAIN InitialRows |-> [rule |-> InitialRows[k], no |-> k]]
  /\ capture = NoCapture /\ edits = 0
  /\ rules = InitialRows /\ target = None
  /\ foreground = Assistant /\ running = None
  /\ down = {} /\ sent = << >> /\ held = {} /\ seen = {}
  /\ cut = {}
  /\ hotkey \in Chords /\ registered = {hotkey} /\ others = {}
  /\ guard = "none" /\ unused = 0 /\ short = FALSE

-----------------------------------------------------------------------------
(* The Hotkeys tab.                                                        *)

Change == edits < MaxEdits /\ edits' = edits + 1
AtTab == foreground = Assistant /\ Change
KeepAllBut == UNCHANGED <<keyboard, programs, hotkeys>>

\* MUTANT: new rows come first.
AddOnTop(rule) ==
  rows' = <<[rule |-> rule, no |-> Len(InitialRows) + edits + 1]>> \o rows

PutRow(rule) ==
  rows' = Append(rows, [rule |-> rule, no |-> Len(InitialRows) + edits + 1])

\* "Add key" and "Add mouse".  The hooks do not know of it yet.
AddRow(rule) ==
  /\ AtTab /\ Len(rows) < MaxRows
  /\ PutRow(rule)
  /\ UNCHANGED <<capture, rules>> /\ KeepAllBut

\* The check boxes, the list of buttons and the list of keys of a row.
EditRow(k, rule) ==
  /\ AtTab /\ rule # rows[k].rule
  /\ rule.trigger \in Keys <=> rows[k].rule.trigger \in Keys
  /\ Cardinality({f \in DOMAIN rule : rule[f] # rows[k].rule[f]}) = 1
  /\ rows' = [rows EXCEPT ![k].rule = rule]
  /\ UNCHANGED <<capture, rules>> /\ KeepAllBut

\* The trash button: the hooks get the rows that are left, as they are on the screen.
RemoveRow(k) ==
  /\ AtTab
  /\ rows' = SubSeq(rows, 1, k - 1) \o SubSeq(rows, k + 1, Len(rows))
  /\ rules' = RulesOf(rows')
  /\ capture' = IF capture = NoCapture THEN capture ELSE [capture EXCEPT !.moved = TRUE]
  /\ KeepAllBut

SaveRows ==
  /\ AtTab
  /\ rules' = RulesOf(rows)
  /\ UNCHANGED <<rows, capture>> /\ KeepAllBut

\* key_picker: the button of a key field arms it, or disarms it.
PickKey(k, action) ==
  /\ AtTab
  /\ action \/ rows[k].rule.trigger \in Keys
  /\ capture' = IF capture # NoCapture /\ capture.index = k /\ capture.action = action
                  THEN NoCapture
                  ELSE [index |-> k, action |-> action, no |-> rows[k].no, moved |-> FALSE]
  /\ UNCHANGED <<rows, rules>> /\ KeepAllBut

\* poll_key_capture: the key goes to the row that is at the index now, if there is one.
CaptureKey(key) ==
  LET k == capture.index
  IN  /\ rows' = IF k \notin DOMAIN rows THEN rows
                 ELSE IF capture.action THEN [rows EXCEPT ![k].rule.key = key]
                 ELSE IF rows[k].rule.trigger \in Keys
                        THEN [rows EXCEPT ![k].rule.trigger = key]
                 ELSE rows
      /\ capture' = NoCapture

-----------------------------------------------------------------------------
(* The hooks.                                                              *)

\* MUTANT: whichever process has the id 0 is taken for the target.
ForegroundIsTarget == foreground = target

TargetIsForeground == target # None /\ foreground = target

\* The rule that applies to a press, as a set.
Applies(rule, input) ==
  /\ rule.enabled /\ rule.trigger = input
  /\ input \in Keys => rule.control = (Control \in down)

Applicable(input) ==
  {rules[k] : k \in {k \in DOMAIN rules :
                       /\ Applies(rules[k], input)
                       /\ \A j \in 1 .. k - 1 : ~ Applies(rules[j], input)}}

\* send_action: one call of SendInput, so nothing else comes between the events.
Pressing(rule) ==
  LET E(key, up) == [key |-> key, up |-> up]
  IN  IF rule.withControl
        THEN <<E(Control, FALSE), E(rule.key, FALSE), E(rule.key, TRUE), E(Control, TRUE)>>
        ELSE <<E(rule.key, FALSE), E(rule.key, TRUE)>>

\* The keys that some events press and do not release.
Unreleased(s) ==
  {s[i].key : i \in {i \in 1 .. Len(s) :
                       ~ s[i].up /\ \A j \in i + 1 .. Len(s) : ~ (s[j].up /\ s[j].key = s[i].key)}}

\* What SendInput makes of a rule: it may insert fewer events than it is given, which
\* send_action reports and the hooks ignore.
Inserts(rule) ==
  \E n \in 0 .. Len(Pressing(rule)) :
    /\ sent' = SubSeq(Pressing(rule), 1, n)
    /\ cut' = cut \cup Unreleased(sent')
    /\ Cardinality(cut') <= MaxCut

\* An event that no hook stops reaches the window in the foreground.
Reaches(input, up) ==
  /\ down' = IF up THEN down \ {input} ELSE down \cup {input}
  /\ cut' = IF up THEN cut \ {input} ELSE cut
  /\ seen' = IF foreground = None \/ foreground # running THEN seen
             ELSE IF up THEN seen \ {input} ELSE seen \cup {input}

\* A press: of a trigger, it is replaced by what SendInput inserts, otherwise it goes on.
Press(input) ==
  /\ sent = << >> /\ Cardinality(held \cup {input}) <= MaxHeld
  /\ held' = held \cup {input}
  /\ IF TargetIsForeground /\ Applicable(input) # {}
       THEN /\ \E rule \in Applicable(input) : Inserts(rule)
            /\ UNCHANGED <<down, seen>>
       ELSE Reaches(input, FALSE) /\ UNCHANGED sent
  /\ IF foreground = Assistant /\ capture # NoCapture /\ input \in Keys
       THEN CaptureKey(input) ELSE UNCHANGED <<rows, capture>>
  /\ UNCHANGED <<edits, rules, programs, hotkeys>>

\* MUTANT: the release of a trigger is stopped like its press.
ReleaseOfTrigger(input) ==
  /\ sent = << >> /\ input \in held
  /\ held' = held \ {input}
  /\ IF TargetIsForeground /\ Applicable(input) # {}
       THEN UNCHANGED <<down, seen, cut>> ELSE Reaches(input, TRUE)
  /\ UNCHANGED <<sent, tab, rules, programs, hotkeys>>

\* A release always goes on.
Release(input) ==
  /\ sent = << >> /\ input \in held
  /\ held' = held \ {input}
  /\ Reaches(input, TRUE)
  /\ UNCHANGED <<sent, tab, rules, programs, hotkeys>>

\* MUTANT: the hooks look at injected events too.
DeliverRemapped ==
  /\ sent # << >>
  /\ LET event == Head(sent)
     IN  IF ~ event.up /\ TargetIsForeground /\ Applicable(event.key) # {}
           THEN /\ \E rule \in Applicable(event.key) : sent' = Pressing(rule)
                /\ UNCHANGED <<down, seen, cut>>
           ELSE Reaches(event.key, event.up) /\ sent' = Tail(sent)
  /\ UNCHANGED <<held, tab, rules, programs, hotkeys>>

\* An injected event (LLKHF_INJECTED) goes on to the foreground of this moment.
Deliver ==
  /\ sent # << >>
  /\ Reaches(Head(sent).key, Head(sent).up)
  /\ sent' = Tail(sent)
  /\ UNCHANGED <<held, tab, rules, programs, hotkeys>>

-----------------------------------------------------------------------------
(* Programs.  A game that loses the foreground takes every key for         *)
(* released.                                                               *)

Focus(p) ==
  /\ p \in {Other, Assistant, running} \ {None}
  /\ p # foreground
  /\ foreground' = p /\ seen' = {}
  /\ UNCHANGED <<running, target, down, sent, held, cut, tab, rules, hotkeys>>

GameStarts(g) ==
  /\ running = None /\ running' = g
  /\ UNCHANGED <<foreground, target, keyboard, tab, rules, hotkeys>>

\* Its window goes with it, and for a moment nothing is in the foreground.
GameEnds ==
  /\ running # None /\ running' = None /\ seen' = {}
  /\ foreground' = IF foreground = running THEN None ELSE foreground
  /\ UNCHANGED <<target, down, sent, held, cut, tab, rules, hotkeys>>

\* MUTANT: the process in the foreground is taken for the game.
TargetTheForeground ==
  /\ target # running /\ target' = (IF target = None THEN foreground ELSE None)
  /\ UNCHANGED <<foreground, running, keyboard, tab, rules, hotkeys>>

\* RuntimeController finds the game, or finds that it has ended: set_target_pid.
SetTarget ==
  /\ target # running /\ target' = (IF target = None THEN running ELSE None)
  /\ UNCHANGED <<foreground, running, keyboard, tab, rules, hotkeys>>

-----------------------------------------------------------------------------
(* The restart hotkey.                                                     *)

\* What a press does to the count of presses no restart was started by.
Earlier == unused' = 1 /\ UNCHANGED short
StartsRestart == unused' = 0 /\ short' = (short \/ unused = 0)

\* MUTANT: the first press is remembered after a restart.
PressAgain ==
  guard' = "fresh" /\ IF guard = "fresh" THEN StartsRestart ELSE Earlier

\* RestartGuard::press, and the restart it may let pass.
GuardPress ==
  \/ guard = "fresh" /\ guard' = "none" /\ StartsRestart
  \/ guard # "fresh" /\ guard' = "fresh" /\ Earlier

\* The hotkey or the Restart button is pressed.
RestartPressed ==
  /\ hotkey \in registered \/ foreground = Assistant
  /\ GuardPress
  /\ UNCHANGED <<hotkey, registered, others, tab, rules, keyboard, programs>>

\* restart_double_tap_ms go by.
IntervalPasses ==
  /\ guard = "fresh" /\ guard' = "old" /\ unused' = 0
  /\ UNCHANGED <<hotkey, registered, others, short, tab, rules, keyboard, programs>>

\* MUTANT: the hotkey in use stays registered.
RebindAdding(chord) ==
  /\ AtTab
  /\ IF chord \in others
       THEN UNCHANGED <<registered, hotkey>>
       ELSE registered' = registered \cup {chord} /\ hotkey' = chord
  /\ UNCHANGED <<others, guard, unused, short, rows, capture, rules, keyboard, programs>>

\* rebind_restart_hotkey: the old one is given up first, and taken back when the new one
\* cannot be had; another program may have been faster.  A hotkey that is no longer
\* registered cannot be given up, and nothing is rebound.
Rebind(chord) ==
  /\ AtTab
  /\ IF hotkey \notin registered THEN UNCHANGED <<registered, hotkey, others>>
     ELSE \E taken \in {{}, {hotkey}} :
            /\ others' = others \cup taken
            /\ IF chord \in others'
                 THEN registered' = {hotkey} \ others' /\ UNCHANGED hotkey
                 ELSE registered' = {chord} /\ hotkey' = chord
  /\ UNCHANGED <<guard, unused, short, rows, capture, rules, keyboard, programs>>

\* Other programs register and unregister hotkeys of their own.
OthersRegister(chord) ==
  /\ Change /\ chord \notin registered
  /\ others' \in {others \cup {chord}, others \ {chord}} \ {others}
  /\ UNCHANGED <<hotkey, registered, guard, unused, short, rows, capture, rules, keyboard, programs>>

-----------------------------------------------------------------------------
Tab ==
  \/ \E rule \in {NewRow, NewMouseRow} : AddRow(rule)
  \/ \E k \in DOMAIN rows :
       \/ RemoveRow(k)
       \/ \E rule \in Rule : EditRow(k, rule)
       \/ \E action \in BOOLEAN : PickKey(k, action)
  \/ SaveRows

Typing == \E input \in Inputs : Press(input) \/ Release(input)

Windows ==
  \/ \E p \in Games \cup {Other, Assistant} : Focus(p)
  \/ \E g \in Games : GameStarts(g)
  \/ GameEnds \/ SetTarget

Hotkey ==
  \/ RestartPressed \/ IntervalPasses
  \/ \E chord \in Chords : Rebind(chord) \/ OthersRegister(chord)

Next == Tab \/ Typing \/ Deliver \/ Windows \/ Hotkey

Spec == Init /\ [][Next]_vars

-----------------------------------------------------------------------------
(* Correctness.                                                            *)

\* When the user has let go of everything, neither Windows nor the game takes a key to be
\* down, whatever rules, focus and games did between its press and its release, except
\* one of which SendInput has inserted the press alone: that stays down until the key is
\* pressed and released (keyboard_hook, mouse_hook, send_action).
NothingSticks == held = {} /\ sent = << >> => down \cup seen \subseteq cut

\* What is typed into any other window reaches it as it is: only in the window of the
\* game that is the target is anything replaced, and with no game at all nothing is
\* (target_is_foreground).
OthersLeftAlone ==
  [][sent' # sent /\ sent = << >> => foreground \in Games /\ foreground = running]_vars

\* What a remap sends is not remapped again, be it into its own trigger: once events are
\* under way no others join them (the LLKHF_INJECTED test of keyboard_hook).
OutputsComeToAnEnd == [][sent # << >> /\ sent' # sent => sent' = Tail(sent)]_vars

\* The next key goes into the field that was armed for it, whatever was added or edited
\* meanwhile, provided no row was removed (poll_key_capture).
CapturedKeyLands ==
  [][rows' # rows /\ edits' = edits /\ capture # NoCapture /\ ~ capture.moved =>
       \E k \in DOMAIN rows : /\ rows[k].no = capture.no
                              /\ \A j \in DOMAIN rows \ {k} : rows'[j] = rows[j]]_vars

\* Each restart takes two presses of its own, the second within the interval after the
\* first (RestartGuard::press).
TwoPressesPerRestart == ~ short

\* Only the hotkey in use is ever registered, so that no other chord is kept from other
\* programs, and it is lost to no one but a program that has taken it
\* (rebind_restart_hotkey).
HotkeyIsOurs ==
  [][/\ registered' \subseteq {hotkey'}
     /\ hotkey \in registered /\ hotkey' \notin registered' => hotkey' \in others']_vars
==============================================================================
