------------------------------ MODULE Dialogue ------------------------------
(***************************************************************************)
(* The client's dialogues: DialogueManager, which walks through the lines  *)
(* of an event, and the DialogueComponents, which type them.  In a frame   *)
(* the scene ticks the components first, unless a menu is open, and the    *)
(* manager reads the mouse and the Tab key after that.  A speech is its    *)
(* length, a walk its distance; which glyphs and where they go is left     *)
(* out, and so are the states the lines give to their speakers.            *)
(***************************************************************************)
EXTENDS Integers, Sequences

CONSTANTS
  Actors,     \* the actors of a dialogue
  Objects,    \* those of them that are GameObjects, and so can walk
  Events,     \* the events: sequences of lines
  Skips,      \* may the player hold Tab
  Menus,      \* may a menu be open
  Nobody

LineRecord == [speaker : Actors, speech : Nat, walk : Nat]
Lines == UNION {{e[n] : n \in DOMAIN e} : e \in Events}

\* What every line of the script the game loads (Script/test.csv) is like: who
\* walks is an object, says nothing meanwhile and has the last line never; the others speak.
ASSUME DialogueAssumption ==
  /\ Objects \subseteq Actors /\ Nobody \notin Actors
  /\ {Skips, Menus} \subseteq BOOLEAN
  /\ Events \subseteq Seq(LineRecord)
  /\ \A e \in Events : e # << >> /\ e[Len(e)].walk = 0
  /\ \A l \in Lines : /\ l.walk > 0 => l.speaker \in Objects
                      /\ l.walk > 0 <=> l.speech = 0

VARIABLES
  event,      \* _event; the walk of a line is what is left of it
  line,       \* _LineCount, from 1
  talking,    \* _isDialogue
  walking,    \* _isMove
  current,    \* the actor of _currentComponent
  comp,       \* comp[a]: the DialogueComponent of a
  phase,      \* what the frame does next: tick or manage
  crashed     \* an index was out of its range

manager == <<event, line, talking, walking, current>>
vars == <<manager, comp, phase, crashed>>

\* from: the place of the first character that was typed; shown: how many
\* were; count: _speechCount.
Component == [state : {"Hidden", "Running", "Wait"}, speech : Nat, shown : Nat,
              from : Nat, count : Nat]

Init ==
  /\ event = << >> /\ line = 1 /\ talking = FALSE /\ walking = FALSE /\ current = Nobody
  /\ comp = [a \in Actors |-> [state |-> "Hidden", speech |-> 0, shown |-> 0, from |-> 0, count |-> 0]]
  /\ phase = "tick" /\ crashed = FALSE

Whole(c) == c.shown = c.speech /\ c.from = 0

-----------------------------------------------------------------------------
(* DialogueComponent::TickComponent.                                       *)

Silent(c) == c.speech = 0 \/ c.state # "Running"

\* due: a tenth of a second has passed since the last character.
Ticked(c, due) ==
  IF Silent(c) THEN [c EXCEPT !.state = IF c.speech = 0 THEN "Hidden" ELSE @]
  ELSE IF Whole(c) THEN [c EXCEPT !.state = "Wait", !.count = 0]
  ELSE IF due THEN [c EXCEPT !.shown = @ + 1, !.count = @ + 1, !.from = IF c.shown = 0 THEN c.count ELSE @]
  ELSE c

\* Typing goes on behind the end of the speech: the index is out of range.
Overruns(c, due) == ~Silent(c) /\ ~Whole(c) /\ due /\ c.count > c.speech

TickComponents(due) ==
  /\ phase = "tick" /\ phase' = "manage"
  /\ comp' = [a \in Actors |-> Ticked(comp[a], a \in due)]
  /\ crashed' = (crashed \/ \E a \in Actors : Overruns(comp[a], a \in due))
  /\ UNCHANGED manager

\* With a menu open the scene does not tick its actors.
MenuOpen ==
  /\ Menus /\ phase = "tick" /\ phase' = "manage"
  /\ UNCHANGED <<manager, comp, crashed>>

-----------------------------------------------------------------------------
(* DialogueManager, on a record of what it changes.                        *)

Now == [event |-> event, line |-> line, talking |-> talking, walking |-> walking,
        current |-> current, comp |-> comp, crashed |-> crashed]

InEvent(m) == m.line \in DOMAIN m.event

\* The speaker of the line types it, the others are hidden.
SetSpeech(m) ==
  IF ~InEvent(m) THEN [m EXCEPT !.crashed = TRUE]
  ELSE LET l == m.event[m.line] IN
       [m EXCEPT !.walking = @ \/ (l.speaker \in Objects /\ l.walk > 0),
                 !.current = l.speaker,
                 !.comp = [a \in Actors |->
                   IF a = l.speaker
                   THEN [@[a] EXCEPT !.state = "Running", !.speech = l.speech, !.shown = 0, !.from = 0]
                   ELSE [@[a] EXCEPT !.state = "Hidden"]]]

NextLine(m) == SetSpeech([m EXCEPT !.line = @ + 1])

\* A walk in progress is not ended.
EndDialogue(m) ==
  [m EXCEPT !.event = << >>, !.line = 1, !.talking = FALSE,
            !.comp = [a \in Actors |-> [@[a] EXCEPT !.state = "Hidden"]]]

\* Mutation: the line is not asked whether it is the last one.
Click_NoEnd(m) ==
  LET c == m.comp[m.current] IN
  IF c.state = "Wait" THEN NextLine(m)
  ELSE IF c.state = "Running" THEN [m EXCEPT !.comp[m.current].shown = c.speech, !.comp[m.current].from = 0]
  ELSE m

\* Mutation: a click moves on before the text is complete.
Click_Hasty(m) ==
  IF m.comp[m.current].state = "Hidden" THEN m
  ELSE IF m.line = Len(m.event) THEN EndDialogue(m)
  ELSE NextLine(m)

Click(m) ==
  LET c == m.comp[m.current] IN
  IF c.state = "Wait" THEN IF m.line = Len(m.event) THEN EndDialogue(m) ELSE NextLine(m)
  ELSE IF c.state = "Running" THEN [m EXCEPT !.comp[m.current].shown = c.speech, !.comp[m.current].from = 0]
  ELSE m

\* Mutation: the end of a walk waits for a click, which its line never gets.
EndMove_Stays(m) == [m EXCEPT !.walking = FALSE]

EndMove(m) == NextLine([m EXCEPT !.walking = FALSE])

\* One stretch d of the way; a walk whose way is done goes on to the next line.
Move(m, d) ==
  IF ~m.walking THEN m
  ELSE IF ~InEvent(m) THEN [m EXCEPT !.crashed = TRUE]
  ELSE LET w == IF m.event[m.line].walk = 0 THEN EndMove(m) ELSE m IN
       IF ~w.walking \/ w.crashed THEN w
       ELSE [w EXCEPT !.event[w.line].walk = IF d > @ THEN 0 ELSE @ - d]

Become(m) ==
  /\ event' = m.event /\ line' = m.line /\ talking' = m.talking
  /\ walking' = m.walking /\ current' = m.current
  /\ comp' = m.comp /\ crashed' = m.crashed

\* Tab counts after two seconds, and a click in the same frame goes first.
Update(click, tab, d) ==
  /\ phase = "manage" /\ phase' = "tick"
  /\ tab => Skips /\ ~click
  /\ IF talking
     THEN Become(Move(IF click THEN Click(Now) ELSE IF tab THEN EndDialogue(Now) ELSE Now, d))
     ELSE UNCHANGED <<manager, comp, crashed>>

\* The one call there was stands in GameScene::Init, outside the frame.
StartDialogue ==
  /\ phase = "tick" /\ ~talking /\ ~crashed
  /\ \E e \in Events :
       Become(SetSpeech([Now EXCEPT !.event = e, !.line = 1, !.talking = TRUE]))
  /\ UNCHANGED phase

Next ==
  /\ ~crashed
  /\ \/ \E due \in SUBSET Actors : TickComponents(due)
     \/ MenuOpen
     \/ \E click, tab \in BOOLEAN, d \in {1, 2} : Update(click, tab, d)
     \/ StartDialogue

\* Frames follow each other, a tenth of a second passes again and again, no
\* menu stays open for good, and the player goes on clicking.
Fairness ==
  /\ WF_vars(phase = "tick" /\ ~crashed /\ TickComponents(Actors))
  /\ WF_vars(~crashed /\ \E tab \in BOOLEAN, d \in {1, 2} : Update(FALSE, tab, d))
  /\ SF_vars(~crashed /\ TickComponents(Actors))
  /\ SF_vars(~crashed /\ \E d \in {1, 2} : Update(TRUE, FALSE, d))

Spec == Init /\ [][Next]_vars /\ Fairness
-----------------------------------------------------------------------------
(* Properties.                                                             *)

\* Every variable has its type; a text is no longer than its speech.
TypeOK ==
  /\ event \in Seq(LineRecord) /\ line \in Nat \ {0}
  /\ {talking, walking, crashed} \subseteq BOOLEAN /\ current \in Actors \cup {Nobody}
  /\ \A a \in Actors : comp[a] \in Component /\ comp[a].shown <= comp[a].speech
  /\ phase \in {"tick", "manage"}

\* No line behind the end of the event and no character behind the end of the
\* speech is read: clicks, walks and the typing go on in frames of their own.
NeverOutOfRange == ~crashed

\* What a bubble shows is the beginning of its speech, though the place to
\* type from belongs to the component and outlives the line.
TypedFromStart == \A a \in Actors : comp[a].from = 0

\* Lines come one after the other, and each is left when its text has been
\* shown whole or its walk is done, by whichever of the two paths.
LinesInFull ==
  [][talking /\ <<line', talking'>> # <<line, talking>> =>
       /\ IF event[line].speech > 0 THEN Whole(comp[current]) ELSE event[line].walk = 0
       /\ IF talking' THEN line' = line + 1 ELSE line = Len(event)]_vars

\* A player who goes on clicking comes to the end of the dialogue.
DialogueEnds == talking ~> ~talking
=============================================================================
