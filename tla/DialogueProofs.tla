---------------------------- MODULE DialogueProofs ----------------------------
(***************************************************************************)
(* Safety of Dialogue for every script like the game's, of any length and  *)
(* with any actors, while nobody skips: no index is out of its range and   *)
(* every line is shown whole or walked to its end before the next.  With   *)
(* skipping both are false.  The manager's operations work on a record, so *)
(* the inductive invariant is a predicate of that record.                  *)
(***************************************************************************)
EXTENDS Dialogue, TLAPS

-----------------------------------------------------------------------------
\* Lines are counted from 1.
Places == Nat \ {0}

\* The types of what the manager works on.
Managers == [event : Seq(LineRecord), line : Places, talking : BOOLEAN, walking : BOOLEAN,
             current : Actors \cup {Nobody}, comp : [Actors -> Component], crashed : BOOLEAN]

\* A line that has not come yet is as the script has it.
Scripted(l) == (l.walk > 0 <=> l.speech = 0) /\ (l.walk > 0 => l.speaker \in Objects)

\* The event is at one of its lines, which its speaker has; he walks if it has no
\* words.  The last line has.
AtLine(m) ==
  /\ m.line \in 1 .. Len(m.event)
  /\ m.event[Len(m.event)].speech > 0
  /\ m.current = m.event[m.line].speaker
  /\ m.comp[m.current].speech = m.event[m.line].speech
  /\ m.walking = (m.event[m.line].speech = 0)
  /\ \A n \in m.line + 1 .. Len(m.event) : Scripted(m.event[n])

\* What was typed is the beginning of the speech, and no more was counted; who
\* waits has said it all and counts from the start, as does who does not speak.
Bubble(m, a) ==
  LET c == m.comp[a]
  IN  /\ c.from = 0 /\ c.count <= c.shown /\ c.shown <= c.speech
      /\ c.state = "Wait" => c.shown = c.speech /\ c.count = 0 /\ c.speech > 0
      /\ ~m.talking \/ a # m.current => c.state = "Hidden" /\ c.count = 0

Good(m) ==
  /\ m \in Managers /\ ~m.crashed
  /\ IF m.talking THEN AtLine(m) ELSE ~m.walking
  /\ \A a \in Actors : Bubble(m, a)

IInv == Good(Now)

-----------------------------------------------------------------------------
(* The manager's operations.                                               *)

\* The fields SetSpeech sets, when there is a line.
LEMMA SetSpeechFields ==
  ASSUME NEW m \in Managers, InEvent(m)
  PROVE  LET l == m.event[m.line] IN
         /\ SetSpeech(m).event = m.event /\ SetSpeech(m).line = m.line
         /\ SetSpeech(m).talking = m.talking /\ SetSpeech(m).crashed = m.crashed
         /\ SetSpeech(m).walking = (m.walking \/ (l.speaker \in Objects /\ l.walk > 0))
         /\ SetSpeech(m).current = l.speaker
         /\ SetSpeech(m).comp = [a \in Actors |->
              IF a = l.speaker
              THEN [m.comp[a] EXCEPT !.state = "Running", !.speech = l.speech, !.shown = 0, !.from = 0]
              ELSE [m.comp[a] EXCEPT !.state = "Hidden"]]
BY DEF SetSpeech, Managers

LEMMA SetSpeechTyped ==
  ASSUME NEW m \in Managers, InEvent(m)
  PROVE  SetSpeech(m) \in Managers
<1>. DEFINE l == m.event[m.line]
            w == m.walking \/ (l.speaker \in Objects /\ l.walk > 0)
            c == [a \in Actors |->
              IF a = l.speaker
              THEN [m.comp[a] EXCEPT !.state = "Running", !.speech = l.speech, !.shown = 0, !.from = 0]
              ELSE [m.comp[a] EXCEPT !.state = "Hidden"]]
<1>1. l \in LineRecord
  BY DEF Managers, InEvent
<1>2. c \in [Actors -> Component]
  BY <1>1 DEF Managers, LineRecord, Component
<1>3. w \in BOOLEAN
  BY Zenon
<1>4. l.speaker \in Actors
  BY <1>1 DEF LineRecord
<1>5. SetSpeech(m) = [m EXCEPT !.walking = w, !.current = l.speaker, !.comp = c]
  BY DEF SetSpeech, Managers
<1>. HIDE DEF w, c, l
<1>. QED
  BY <1>2, <1>3, <1>4, <1>5 DEF Managers

\* A component that has typed nothing and has nothing left from before.
Silenced(m) ==
  /\ m \in Managers /\ ~m.crashed /\ ~m.walking
  /\ \A a \in Actors : /\ m.comp[a].from = 0 /\ m.comp[a].count = 0
                       /\ m.comp[a].shown <= m.comp[a].speech

\* A line that is as scripted is begun well.
LEMMA SpeechStarts ==
  ASSUME NEW m, Silenced(m), m.talking, m.line \in 1 .. Len(m.event),
         m.event[Len(m.event)].speech > 0,
         \A n \in m.line .. Len(m.event) : Scripted(m.event[n])
  PROVE  /\ Good(SetSpeech(m)) /\ SetSpeech(m).talking
         /\ SetSpeech(m).walking => SetSpeech(m).event[SetSpeech(m).line].walk # 0
<1>. DEFINE r == SetSpeech(m)
            l == m.event[m.line]
            Speaks(c) == [c EXCEPT !.state = "Running", !.speech = l.speech, !.shown = 0, !.from = 0]
<1>1. m \in Managers /\ m.event \in Seq(LineRecord)
  BY DEF Silenced, Managers
<1>2. InEvent(m) /\ l \in LineRecord
  BY <1>1 DEF InEvent
<1>3. r \in Managers
  BY <1>1, <1>2, SetSpeechTyped
<1>4. /\ r.event = m.event /\ r.line = m.line
      /\ r.talking = m.talking /\ r.crashed = m.crashed
      /\ r.walking = (m.walking \/ (l.speaker \in Objects /\ l.walk > 0))
      /\ r.current = l.speaker
      /\ r.comp = [a \in Actors |-> IF a = l.speaker THEN Speaks(m.comp[a])
                                    ELSE [m.comp[a] EXCEPT !.state = "Hidden"]]
  BY <1>1, <1>2, SetSpeechFields
<1>5. l.speaker \in Actors /\ m.comp \in [Actors -> Component]
  BY <1>1, <1>2 DEF LineRecord, Managers
<1>. HIDE DEF r
<1>6. ASSUME NEW a \in Actors
      PROVE  Bubble(r, a) /\ (a = l.speaker => r.comp[a].speech = l.speech)
  <2>1. m.comp[a] \in Component /\ m.comp[a].from = 0 /\ m.comp[a].count = 0
        /\ m.comp[a].shown <= m.comp[a].speech
    BY <1>5 DEF Silenced
  <2>2. CASE a = l.speaker
    <3>1. r.comp[a] = Speaks(m.comp[a])
      BY <1>4, <2>2
    <3>2. /\ r.comp[a].state = "Running" /\ r.comp[a].shown = 0 /\ r.comp[a].from = 0
          /\ r.comp[a].count = 0 /\ r.comp[a].speech = l.speech /\ l.speech \in Nat
      BY <1>2, <2>1, <3>1 DEF Component, LineRecord
    <3>3. r.talking /\ a = r.current
      BY <1>4, <2>2, Zenon
    <3>4. Bubble(r, a)
      BY <3>2, <3>3 DEF Bubble
    <3>. QED
      BY <3>2, <3>4
  <2>3. CASE a # l.speaker
    <3>1. r.comp[a] = [m.comp[a] EXCEPT !.state = "Hidden"]
      BY <1>4, <2>3
    <3>2. /\ r.comp[a].state = "Hidden" /\ r.comp[a].shown = m.comp[a].shown
          /\ r.comp[a].from = 0 /\ r.comp[a].count = 0 /\ r.comp[a].speech = m.comp[a].speech
      BY <2>1, <3>1 DEF Component
    <3>3. Bubble(r, a)
      BY <2>1, <3>2 DEF Bubble, Component
    <3>. QED
      BY <2>3, <3>3
  <2>. QED
    BY <2>2, <2>3
<1>7. AtLine(r)
  <2>1. r.comp[r.current].speech = l.speech
    BY <1>4, <1>5, <1>6
  <2>2. r.walking = (l.speech = 0)
    <3>1. Scripted(l)
      BY <1>1 DEF Managers
    <3>2. (l.speaker \in Objects /\ l.walk > 0) <=> l.speech = 0
      BY <3>1 DEF Scripted
    <3>. QED
      BY <1>4, <3>2, Zenon DEF Silenced
  <2>3. \A n \in m.line + 1 .. Len(m.event) : n \in m.line .. Len(m.event)
    BY <1>1 DEF Managers
  <2>. QED
    BY <1>4, <2>1, <2>2, <2>3 DEF AtLine
<1>8. ~r.crashed /\ r.talking
  BY <1>4 DEF Silenced
<1>9. r.walking => r.event[r.line].walk # 0
  <2>1. r.walking => l.walk > 0
    BY <1>4, Zenon DEF Silenced
  <2>2. l.walk \in Nat
    BY <1>2 DEF LineRecord
  <2>. HIDE DEF l
  <2>3. r.event[r.line] = l
    BY <1>4 DEF l
  <2>. QED
    BY <2>1, <2>2, <2>3
<1>. QED
  BY <1>3, <1>6, <1>7, <1>8, <1>9 DEF Good, r

\* Who waits has nothing left to say, and who walks said nothing: the next line
\* finds every count at the start.
LEMMA LineOver ==
  ASSUME NEW m, Good(m), m.talking, m.walking \/ m.comp[m.current].state = "Wait"
  PROVE  /\ m.current \in Actors
         /\ \A a \in Actors : /\ m.comp[a].from = 0 /\ m.comp[a].count = 0
                              /\ m.comp[a].shown <= m.comp[a].speech
<1>1. m.current \in Actors /\ m.comp \in [Actors -> Component]
  <2>1. m.event \in Seq(LineRecord) /\ m.line \in 1 .. Len(m.event)
        /\ m.current = m.event[m.line].speaker
    BY DEF Good, AtLine, Managers
  <2>2. m.event[m.line] \in LineRecord
    BY <2>1
  <2>. QED
    BY <2>1, <2>2 DEF LineRecord, Good, Managers
<1>2. m.walking => m.comp[m.current].speech = 0
  BY DEF Good, AtLine
<1>3. ASSUME NEW a \in Actors
      PROVE  m.comp[a].from = 0 /\ m.comp[a].count = 0 /\ m.comp[a].shown <= m.comp[a].speech
  <2>1. Bubble(m, a) /\ m.comp[a] \in Component
    BY <1>1 DEF Good
  <2>. QED
    BY <1>2, <2>1 DEF Bubble, Component
<1>. QED
  BY <1>1, <1>3

\* The next line, after one that is over and not the last, begins well.
LEMMA NextLineGood ==
  ASSUME NEW m, Good(m), m.talking, m.walking \/ m.comp[m.current].state = "Wait",
         m.line # Len(m.event), NEW w \in BOOLEAN, ~w
  PROVE  LET n == NextLine([m EXCEPT !.walking = w])
         IN  /\ Good(n) /\ n.talking /\ n.line = m.line + 1
             /\ n.walking => n.event[n.line].walk # 0
<1>. DEFINE t == [m EXCEPT !.walking = w, !.line = @ + 1]
<1>0. m \in Managers /\ m.event \in Seq(LineRecord) /\ m.line \in 1 .. Len(m.event)
      /\ Len(m.event) \in Nat
  BY DEF Good, AtLine, Managers
<1>1. NextLine([m EXCEPT !.walking = w]) = SetSpeech(t)
  <2>1. [[m EXCEPT !.walking = w] EXCEPT !.line = @ + 1] = t
    BY <1>0 DEF Managers
  <2>. QED
    BY <2>1 DEF NextLine
<1>2. /\ t \in Managers /\ t.event = m.event /\ t.line = m.line + 1 /\ t.talking = m.talking
      /\ t.walking = w /\ t.comp = m.comp /\ t.crashed = m.crashed
  <2>. DEFINE u == [m EXCEPT !.line = @ + 1]
  <2>1. /\ u \in Managers /\ u.event = m.event /\ u.line = m.line + 1
        /\ u.talking = m.talking /\ u.comp = m.comp /\ u.crashed = m.crashed
    <3>1. m.line + 1 \in Places
      BY <1>0 DEF Places
    <3>. QED
      BY <1>0, <3>1 DEF Managers
  <2>2. t = [u EXCEPT !.walking = w]
    BY <1>0 DEF Managers
  <2>. HIDE DEF u, t
  <2>3. t \in Managers /\ t.event = u.event /\ t.line = u.line /\ t.talking = u.talking
        /\ t.comp = u.comp /\ t.crashed = u.crashed
    BY <2>1, <2>2 DEF Managers
  <2>4. t.walking = w
    BY <2>1, <2>2 DEF Managers
  <2>. QED
    BY <2>1, <2>3, <2>4
<1>. HIDE DEF t
<1>3. Silenced(t)
  BY <1>2, LineOver DEF Silenced, Good
<1>4. t.line \in 1 .. Len(t.event) /\ t.event[Len(t.event)].speech > 0
  BY <1>0, <1>2 DEF Good, AtLine
<1>5. \A n \in t.line .. Len(t.event) : Scripted(t.event[n])
  BY <1>2 DEF Good, AtLine
<1>6. t.talking
  BY <1>2
<1>7. InEvent(t)
  BY <1>0, <1>2, <1>4 DEF InEvent
<1>8. /\ Good(SetSpeech(t)) /\ SetSpeech(t).talking
      /\ SetSpeech(t).walking => SetSpeech(t).event[SetSpeech(t).line].walk # 0
  BY <1>3, <1>4, <1>5, <1>6, SpeechStarts
<1>9. SetSpeech(t).line = t.line
  BY <1>2, <1>7, SetSpeechFields
<1>. QED
  BY <1>1, <1>2, <1>8, <1>9

\* The end of a dialogue whose last line is over.
LEMMA EndGood ==
  ASSUME NEW m, Good(m), m.talking, m.comp[m.current].state = "Wait", ~m.walking
  PROVE  Good(EndDialogue(m)) /\ ~EndDialogue(m).talking
<1>. DEFINE hidden == [a \in Actors |-> [m.comp[a] EXCEPT !.state = "Hidden"]]
            r == EndDialogue(m)
<1>1. m \in Managers
  BY DEF Good
<1>2. hidden \in [Actors -> Component]
  BY <1>1 DEF Managers, Component
<1>3. << >> \in Seq(LineRecord) /\ 1 \in Places
  BY DEF Places
<1>4. r = [m EXCEPT !.event = << >>, !.line = 1, !.talking = FALSE, !.comp = hidden]
  BY <1>1 DEF EndDialogue, Managers
<1>. HIDE DEF hidden, r
<1>5. /\ r \in Managers /\ r.comp = hidden /\ ~r.talking
      /\ r.walking = m.walking /\ r.crashed = m.crashed
  BY <1>1, <1>2, <1>3, <1>4 DEF Managers
<1>6. ASSUME NEW a \in Actors
      PROVE  Bubble(r, a)
  <2>1. /\ hidden[a].state = "Hidden" /\ hidden[a].shown = m.comp[a].shown
        /\ hidden[a].from = m.comp[a].from /\ hidden[a].count = m.comp[a].count
        /\ hidden[a].speech = m.comp[a].speech /\ m.comp[a] \in Component
    BY <1>1 DEF hidden, Managers, Component
  <2>2. m.comp[a].from = 0 /\ m.comp[a].count = 0 /\ m.comp[a].shown <= m.comp[a].speech
    BY LineOver
  <2>. QED
    BY <1>5, <2>1, <2>2 DEF Bubble, Component
<1>. QED
  BY <1>5, <1>6 DEF Good, r

\* A click while the speaker types shows the rest of the text.
Reveal(m) == [m EXCEPT !.comp[m.current].shown = m.comp[m.current].speech,
                       !.comp[m.current].from = 0]

LEMMA RevealGood ==
  ASSUME NEW m, Good(m), m.talking, m.comp[m.current].state = "Running"
  PROVE  /\ Good(Reveal(m)) /\ Reveal(m).talking /\ Reveal(m).line = m.line
         /\ Reveal(m).event = m.event
<1>. DEFINE c == m.comp[m.current]
            said == [c EXCEPT !.shown = c.speech, !.from = 0]
            comp1 == [m.comp EXCEPT ![m.current] = said]
            r == Reveal(m)
<1>1. m \in Managers /\ AtLine(m)
  BY DEF Good
<1>2. m.current \in Actors /\ c \in Component
  <2>1. m.event[m.line] \in LineRecord
    BY <1>1 DEF AtLine, Managers
  <2>. QED
    BY <1>1, <2>1 DEF AtLine, Managers, LineRecord
<1>3. said \in Component /\ said.shown = c.speech /\ said.from = 0 /\ said.count = c.count
      /\ said.speech = c.speech /\ said.state = c.state
  BY <1>2 DEF Component
<1>4. r = [m EXCEPT !.comp = comp1]
  BY <1>1, <1>2 DEF Reveal, Managers, Component
<1>. HIDE DEF said, r
<1>5. comp1 \in [Actors -> Component] /\ comp1[m.current] = said
      /\ \A a \in Actors : a # m.current => comp1[a] = m.comp[a]
  BY <1>1, <1>2, <1>3 DEF Managers
<1>. HIDE DEF comp1
<1>6. /\ r \in Managers /\ r.comp = comp1 /\ r.event = m.event /\ r.line = m.line
      /\ r.talking = m.talking /\ r.walking = m.walking /\ r.current = m.current
      /\ r.crashed = m.crashed
  BY <1>1, <1>4, <1>5 DEF Managers
<1>7. AtLine(r)
  BY <1>1, <1>3, <1>5, <1>6 DEF AtLine
<1>8. ASSUME NEW a \in Actors
      PROVE  Bubble(r, a)
  <2>1. Bubble(m, a) /\ m.comp[a] \in Component
    BY <1>1 DEF Good, Managers
  <2>2. CASE a = m.current
    <3>1. r.talking /\ a = r.current /\ r.comp[a] = said
      BY <1>5, <1>6, <2>2
    <3>2. c.count <= c.speech
      BY <1>2, <2>1, <2>2 DEF Bubble, Component
    <3>. QED
      BY <1>2, <1>3, <3>1, <3>2 DEF Bubble, Component
  <2>3. CASE a # m.current
    <3>1. r.comp[a] = m.comp[a] /\ a # r.current
      BY <1>5, <1>6, <2>3
    <3>. QED
      BY <2>1, <2>3, <3>1 DEF Bubble
  <2>. QED
    BY <2>2, <2>3
<1>9. ~r.crashed /\ r.talking
  BY <1>6 DEF Good
<1>. QED
  BY <1>6, <1>7, <1>8, <1>9 DEF Good, r

\* A line is left when it is over, for the one after it or for the end.
Leaves(m, r) ==
  <<r.line, r.talking>> # <<m.line, m.talking>> =>
    /\ IF m.event[m.line].speech > 0 THEN Whole(m.comp[m.current])
                                     ELSE m.event[m.line].walk = 0
    /\ IF r.talking THEN r.line = m.line + 1 ELSE m.line = Len(m.event)

\* A click leaves a line that is over, shows the rest of it, or does nothing.
LEMMA ClickGood ==
  ASSUME NEW m, Good(m), m.talking
  PROVE  /\ Good(Click(m)) /\ Leaves(m, Click(m))
         /\ \/ ~Click(m).talking
            \/ /\ Click(m).line = m.line + 1
               /\ Click(m).walking => Click(m).event[Click(m).line].walk # 0
            \/ Click(m).line = m.line /\ Click(m).event = m.event /\ Click(m).talking
<1>. DEFINE c == m.comp[m.current]
<1>1. m \in Managers /\ AtLine(m)
  BY DEF Good
<1>2. CASE c.state = "Wait"
  <2>1. m.current \in Actors /\ Bubble(m, m.current)
    BY <1>2, LineOver DEF Good
  <2>2. Whole(c) /\ c.speech > 0 /\ c.speech \in Nat
    BY <1>1, <1>2, <2>1 DEF Bubble, Whole, Managers, Component
  <2>3. m.event[m.line].speech > 0 /\ ~m.walking
    <3>1. m.event[m.line].speech > 0
      BY <1>1, <2>2 DEF AtLine
    <3>2. m.event[m.line].speech # 0
      BY <3>1
    <3>. QED
      BY <1>1, <3>1, <3>2, Zenon DEF AtLine
  <2>4. CASE m.line = Len(m.event)
    <3>1. Click(m) = EndDialogue(m)
      BY <1>2, <2>4 DEF Click
    <3>2. Good(EndDialogue(m)) /\ ~EndDialogue(m).talking
      BY <1>2, <2>3, EndGood
    <3>. QED
      BY <2>2, <2>3, <2>4, <3>1, <3>2 DEF Leaves
  <2>5. CASE m.line # Len(m.event)
    <3>. DEFINE n == NextLine([m EXCEPT !.walking = m.walking])
    <3>1. [m EXCEPT !.walking = m.walking] = m
      BY <1>1 DEF Managers
    <3>2. Click(m) = n
      BY <1>2, <2>5, <3>1 DEF Click
    <3>3. m.walking \in BOOLEAN
      BY <1>1 DEF Managers
    <3>4. /\ Good(n) /\ n.talking /\ n.line = m.line + 1
          /\ n.walking => n.event[n.line].walk # 0
      BY <1>2, <2>3, <2>5, <3>3, NextLineGood
    <3>. HIDE DEF n
    <3>. QED
      BY <2>2, <2>3, <3>2, <3>4 DEF Leaves
  <2>. QED
    BY <2>4, <2>5
<1>3. CASE c.state = "Running"
  <2>1. Click(m) = Reveal(m)
    BY <1>3 DEF Click, Reveal
  <2>2. /\ Good(Reveal(m)) /\ Reveal(m).talking /\ Reveal(m).line = m.line
        /\ Reveal(m).event = m.event
    BY <1>3, RevealGood
  <2>3. Reveal(m).talking = m.talking
    BY <2>2, Zenon DEF Good, Managers, Reveal
  <2>. QED
    BY <2>1, <2>2, <2>3 DEF Leaves
<1>4. CASE c.state \notin {"Wait", "Running"}
  <2>1. Click(m) = m
    BY <1>4 DEF Click
  <2>. QED
    BY <2>1 DEF Leaves
<1>. QED
  BY <1>2, <1>3, <1>4

\* One stretch of the way.
Walked(m, d) == [m EXCEPT !.event[m.line].walk = IF d > @ THEN 0 ELSE @ - d]

LEMMA WalkedGood ==
  ASSUME NEW m, Good(m), m.walking, NEW d \in Nat
  PROVE  Good(Walked(m, d)) /\ Walked(m, d).line = m.line /\ Walked(m, d).talking = m.talking
<1>. DEFINE l == m.event[m.line]
            less == [l EXCEPT !.walk = IF d > l.walk THEN 0 ELSE l.walk - d]
            rest == [m.event EXCEPT ![m.line] = less]
            r == Walked(m, d)
<1>1. m \in Managers /\ AtLine(m) /\ m.talking
  BY DEF Good
<1>2. m.event \in Seq(LineRecord) /\ m.line \in 1 .. Len(m.event) /\ l \in LineRecord
  BY <1>1 DEF AtLine, Managers
<1>3. less \in LineRecord /\ less.speech = l.speech /\ less.speaker = l.speaker
  <2>1. (IF d > l.walk THEN 0 ELSE l.walk - d) \in Nat
    BY <1>2 DEF LineRecord
  <2>. QED
    BY <1>2, <2>1 DEF LineRecord
<1>4. r = [m EXCEPT !.event = rest]
  BY <1>1, <1>2 DEF Walked, Managers, LineRecord
<1>. HIDE DEF less, r
<1>5. /\ rest \in Seq(LineRecord) /\ Len(rest) = Len(m.event)
      /\ rest[m.line] = less
      /\ \A n \in 1 .. Len(m.event) : n # m.line => rest[n] = m.event[n]
  BY <1>2, <1>3
<1>. HIDE DEF rest
<1>6. /\ r \in Managers /\ r.event = rest /\ r.comp = m.comp /\ r.line = m.line
      /\ r.talking = m.talking /\ r.walking = m.walking /\ r.current = m.current
      /\ r.crashed = m.crashed
  BY <1>1, <1>4, <1>5 DEF Managers
<1>7. AtLine(r)
  <2>1. rest[Len(rest)].speech = m.event[Len(m.event)].speech
    BY <1>2, <1>3, <1>5
  <2>2. \A n \in m.line + 1 .. Len(rest) : rest[n] = m.event[n]
    BY <1>2, <1>5
  <2>. QED
    BY <1>1, <1>3, <1>5, <1>6, <2>1, <2>2 DEF AtLine
<1>8. \A a \in Actors : Bubble(r, a)
  BY <1>6 DEF Good, Bubble
<1>. QED
  BY <1>1, <1>6, <1>7, <1>8 DEF Good, r

\* A walk goes on, or leaves its line when its way is done.
LEMMA MoveGood ==
  ASSUME NEW m, Good(m), NEW d \in Nat
  PROVE  /\ Good(Move(m, d)) /\ Leaves(m, Move(m, d))
         /\ ~m.walking \/ m.event[m.line].walk # 0 =>
              Move(m, d).line = m.line /\ Move(m, d).talking = m.talking
<1>1. CASE ~m.walking
  <2>1. Move(m, d) = m
    BY <1>1 DEF Move
  <2>. QED
    BY <2>1 DEF Leaves
<1>2. CASE m.walking
  <2>1. AtLine(m) /\ m.talking /\ m \in Managers /\ ~m.crashed
    BY <1>2 DEF Good
  <2>2. InEvent(m) /\ m.event[m.line].speech = 0 /\ m.line # Len(m.event)
    BY <1>2, <2>1 DEF AtLine, InEvent, Managers
  <2>3. CASE m.event[m.line].walk # 0
    <3>1. Move(m, d) = Walked(m, d)
      BY <1>2, <2>1, <2>2, <2>3 DEF Move, Walked
    <3>. QED
      BY <1>2, <3>1, WalkedGood DEF Leaves
  <2>4. CASE m.event[m.line].walk = 0
    <3>. DEFINE n == NextLine([m EXCEPT !.walking = FALSE])
    <3>0. FALSE \in BOOLEAN /\ ~FALSE
      BY Zenon
    <3>1. Good(n) /\ n.talking /\ n.line = m.line + 1
      BY <1>2, <2>1, <2>2, <3>0, NextLineGood
    <3>2. Move(m, d) = IF ~n.walking \/ n.crashed THEN n ELSE Walked(n, d)
      BY <1>2, <2>2, <2>4 DEF Move, EndMove, Walked
    <3>. HIDE DEF n
    <3>3. ASSUME NEW r, r.talking, r.line = m.line + 1
          PROVE  Leaves(m, r)
      BY <2>2, <2>4, <3>3 DEF Leaves
    <3>4. CASE ~n.walking \/ n.crashed
      <4>1. Move(m, d) = n
        BY <3>2, <3>4
      <4>. QED
        BY <1>2, <2>4, <3>1, <3>3, <4>1
    <3>5. CASE ~(~n.walking \/ n.crashed)
      <4>1. Move(m, d) = Walked(n, d)
        BY <3>2, <3>5
      <4>2. Good(Walked(n, d)) /\ Walked(n, d).line = n.line /\ Walked(n, d).talking = n.talking
        BY <3>1, <3>5, WalkedGood
      <4>3. Walked(n, d).talking
        BY <3>1, <4>2, Zenon
      <4>. QED
        BY <1>2, <2>4, <3>1, <3>3, <4>1, <4>2, <4>3
    <3>. QED
      BY <3>4, <3>5
  <2>. QED
    BY <2>3, <2>4
<1>. QED
  BY <1>1, <1>2

-----------------------------------------------------------------------------
(* The steps.                                                              *)

\* What Become makes of the variables is the record.
LEMMA BecomeNow ==
  ASSUME NEW m \in Managers, Become(m)
  PROVE  Now' = m
BY DEF Become, Now, Managers

LEMMA NowFields ==
  /\ Now.event = event /\ Now.line = line /\ Now.talking = talking /\ Now.walking = walking
  /\ Now.current = current /\ Now.comp = comp /\ Now.crashed = crashed
BY DEF Now

\* A frame of the manager: a click first, then the walk.
LEMMA UpdateGood ==
  ASSUME IInv, ~Skips, NEW click \in BOOLEAN, NEW tab \in BOOLEAN, NEW d \in {1, 2},
         Update(click, tab, d)
  PROVE  IInv' /\ (talking => Leaves(Now, Now'))
<1>1. CASE ~talking
  <2>1. Now' = Now
    BY <1>1 DEF Update, manager, Now
  <2>. QED
    BY <1>1, <2>1 DEF IInv
<1>2. CASE talking
  <2>. DEFINE m == IF click THEN Click(Now) ELSE Now
              r == Move(m, d)
  <2>1. Good(Now) /\ Now.talking /\ d \in Nat
    BY <1>2, NowFields DEF IInv
  <2>2. Become(r)
    BY <1>2 DEF Update
  <2>3. /\ Good(m) /\ Leaves(Now, m)
        /\ \/ ~m.talking
           \/ m.line = Now.line + 1 /\ (m.walking => m.event[m.line].walk # 0)
           \/ m.line = Now.line /\ m.event = Now.event /\ m.talking
    <3>1. CASE click
      BY <2>1, <3>1, ClickGood
    <3>2. CASE ~click
      BY <2>1, <3>2 DEF Leaves
    <3>. QED
      BY <3>1, <3>2
  <2>. HIDE DEF m
  <2>4. /\ Good(r) /\ Leaves(m, r)
        /\ ~m.walking \/ m.event[m.line].walk # 0 => r.line = m.line /\ r.talking = m.talking
    BY <2>1, <2>3, MoveGood
  <2>. HIDE DEF r
  <2>5. Now' = r
    BY <2>2, <2>4, BecomeNow DEF Good
  <2>6. Leaves(Now, r)
    <3>1. CASE r.line = m.line /\ r.talking = m.talking
      BY <2>3, <3>1 DEF Leaves
    <3>2. CASE ~(r.line = m.line /\ r.talking = m.talking)
      <4>1. m.walking /\ m.event[m.line].walk = 0
        BY <2>4, <3>2
      <4>2. m.talking /\ AtLine(m)
        BY <2>3, <4>1 DEF Good
      <4>3. m.event[m.line].speech = 0
        BY <4>1, <4>2, Zenon DEF AtLine
      <4>4. m.line = Now.line /\ m.event = Now.event
        BY <2>3, <4>1, <4>2
      <4>5. IF r.talking THEN r.line = m.line + 1 ELSE m.line = Len(m.event)
        BY <2>4, <3>2 DEF Leaves
      <4>. QED
        BY <4>1, <4>3, <4>4, <4>5 DEF Leaves
    <3>. QED
      BY <3>1, <3>2
  <2>. QED
    BY <2>4, <2>5, <2>6 DEF IInv
<1>. QED
  BY <1>1, <1>2

\* Who types a character more has one more to type: it is within the speech.
LEMMA TickedGood ==
  ASSUME IInv, NEW a \in Actors, NEW due
  PROVE  LET c == Ticked(comp[a], due)
         IN  /\ c \in Component /\ c.speech = comp[a].speech
             /\ c.from = 0 /\ c.count <= c.shown /\ c.shown <= c.speech
             /\ c.state = "Wait" => c.shown = c.speech /\ c.count = 0 /\ c.speech > 0
             /\ comp[a].state = "Hidden" => c.state = "Hidden" /\ c.count = comp[a].count
             /\ ~Overruns(comp[a], due)
<1>1. /\ comp[a] \in Component /\ comp[a].from = 0
      /\ comp[a].count <= comp[a].shown /\ comp[a].shown <= comp[a].speech
      /\ comp[a].state = "Wait" =>
           comp[a].shown = comp[a].speech /\ comp[a].count = 0 /\ comp[a].speech > 0
  BY NowFields DEF IInv, Good, Managers, Bubble
<1>. DEFINE b == comp[a]
<1>. HIDE DEF b
<1>2. /\ b \in Component /\ b.from = 0 /\ b.count <= b.shown /\ b.shown <= b.speech
      /\ b.state = "Wait" => b.shown = b.speech /\ b.count = 0 /\ b.speech > 0
  BY <1>1 DEF b
<1>. DEFINE c == Ticked(b, due)
<1>3. ~Overruns(b, due)
  BY <1>2 DEF Overruns, Component
<1>4. /\ c \in Component /\ c.speech = b.speech
      /\ c.from = 0 /\ c.count <= c.shown /\ c.shown <= c.speech
      /\ c.state = "Wait" => c.shown = c.speech /\ c.count = 0 /\ c.speech > 0
      /\ b.state = "Hidden" => c.state = "Hidden" /\ c.count = b.count
  <2>1. CASE Silent(b)
    BY <1>2, <2>1 DEF Silent, Ticked, Component
  <2>2. CASE ~Silent(b) /\ Whole(b)
    <3>1. c = [b EXCEPT !.state = "Wait", !.count = 0]
      BY <2>2 DEF Ticked
    <3>2. b.shown = b.speech /\ b.speech > 0 /\ b.state # "Hidden"
      BY <1>2, <2>2 DEF Silent, Component, Whole
    <3>3. /\ c \in Component /\ c.speech = b.speech /\ c.from = b.from /\ c.count = 0
          /\ c.shown = b.shown /\ c.state = "Wait"
      BY <1>2, <3>1 DEF Component
    <3>. HIDE DEF c
    <3>. QED
      BY <1>2, <3>2, <3>3 DEF Component
  <2>3. CASE ~Silent(b) /\ ~Whole(b) /\ due
    <3>1. c = [b EXCEPT !.shown = @ + 1, !.count = @ + 1,
                        !.from = IF b.shown = 0 THEN b.count ELSE @]
      BY <2>3 DEF Ticked
    <3>2. b.shown < b.speech /\ (b.shown = 0 => b.count = 0)
      BY <1>2, <2>3 DEF Whole, Component
    <3>3. c = [b EXCEPT !.shown = b.shown + 1, !.count = b.count + 1, !.from = 0]
      BY <1>2, <3>1, <3>2 DEF Component
    <3>4. b.shown + 1 \in Nat /\ b.count + 1 \in Nat
      BY <1>2 DEF Component
    <3>5. /\ c \in Component /\ c.speech = b.speech /\ c.from = 0 /\ c.count = b.count + 1
          /\ c.shown = b.shown + 1 /\ c.state = b.state
      BY <1>2, <3>3, <3>4 DEF Component
    <3>6. b.state = "Running"
      BY <2>3 DEF Silent
    <3>. HIDE DEF c
    <3>. QED
      BY <1>2, <3>2, <3>5, <3>6 DEF Component
  <2>4. CASE ~Silent(b) /\ ~Whole(b) /\ ~due
    BY <1>2, <2>4 DEF Ticked, Silent
  <2>. QED
    BY <2>1, <2>2, <2>3, <2>4
<1>. QED
  BY <1>3, <1>4 DEF b

LEMMA TickGood ==
  ASSUME IInv, NEW due \in SUBSET Actors, TickComponents(due)
  PROVE  IInv' /\ Now'.line = Now.line /\ Now'.talking = Now.talking
<1>1. /\ comp' = [a \in Actors |-> Ticked(comp[a], a \in due)]
      /\ UNCHANGED <<event, line, talking, walking, current>>
      /\ crashed' = (crashed \/ \E a \in Actors : Overruns(comp[a], a \in due))
  BY DEF TickComponents, manager
<1>2. \A a \in Actors : Ticked(comp[a], a \in due) \in Component
                       /\ Ticked(comp[a], a \in due).speech = comp[a].speech
  BY TickedGood
<1>3. ~crashed /\ crashed' \in BOOLEAN /\ ~crashed'
  <2>1. ~crashed
    BY NowFields DEF IInv, Good
  <2>2. ~\E a \in Actors : Overruns(comp[a], a \in due)
    BY TickedGood, Zenon
  <2>3. crashed' = FALSE
    BY <1>1, <2>1, <2>2, Zenon
  <2>. QED
    BY <2>1, <2>3, Zenon
<1>4. comp' \in [Actors -> Component]
  BY <1>1, <1>2
<1>5. /\ Now' = [event |-> event, line |-> line, talking |-> talking, walking |-> walking,
                 current |-> current, comp |-> comp', crashed |-> crashed']
      /\ event \in Seq(LineRecord) /\ line \in Places /\ talking \in BOOLEAN /\ walking \in BOOLEAN
      /\ current \in Actors \cup {Nobody}
  BY <1>1, NowFields DEF Now, IInv, Good, Managers
<1>6. Now' \in Managers
  BY <1>3, <1>4, <1>5 DEF Managers
<1>7. /\ Now'.event = Now.event /\ Now'.line = Now.line /\ Now'.talking = Now.talking
      /\ Now'.walking = Now.walking /\ Now'.current = Now.current /\ Now'.comp = comp'
      /\ Now'.crashed = crashed'
  BY <1>1 DEF Now
<1>8. \A a \in Actors : Now'.comp[a].speech = Now.comp[a].speech
  BY <1>1, <1>2, <1>7, NowFields
<1>9. AtLine(Now) => AtLine(Now')
  <2>. SUFFICES ASSUME AtLine(Now)
                PROVE  AtLine(Now')
    OBVIOUS
  <2>1. Now.current \in Actors
    <3>1. Now.event[Now.line] \in LineRecord
      BY DEF IInv, Good, Managers, AtLine
    <3>. QED
      BY <3>1 DEF AtLine, LineRecord
  <2>. QED
    BY <1>7, <1>8, <2>1 DEF AtLine
<1>10. ASSUME NEW a \in Actors
       PROVE  Bubble(Now', a)
  <2>1. Bubble(Now, a)
    BY DEF IInv, Good
  <2>2. ~Now.talking \/ a # Now.current => comp[a].state = "Hidden" /\ comp[a].count = 0
    BY <2>1, NowFields DEF Bubble
  <2>3. Now'.comp[a] = Ticked(comp[a], a \in due)
    BY <1>1, <1>7
  <2>4. /\ Now'.comp[a].from = 0 /\ Now'.comp[a].count <= Now'.comp[a].shown
        /\ Now'.comp[a].shown <= Now'.comp[a].speech
        /\ Now'.comp[a].state = "Wait" =>
             Now'.comp[a].shown = Now'.comp[a].speech /\ Now'.comp[a].count = 0
             /\ Now'.comp[a].speech > 0
        /\ comp[a].state = "Hidden" =>
             Now'.comp[a].state = "Hidden" /\ Now'.comp[a].count = comp[a].count
    BY <2>3, TickedGood
  <2>. QED
    BY <1>7, <2>2, <2>4 DEF Bubble
<1>. QED
  BY <1>3, <1>6, <1>7, <1>9, <1>10 DEF IInv, Good

\* Every event begins well.
LEMMA StartGood ==
  ASSUME IInv, StartDialogue
  PROVE  IInv'
<1>1. PICK e \in Events :
        Become(SetSpeech([Now EXCEPT !.event = e, !.line = 1, !.talking = TRUE]))
  BY DEF StartDialogue
<1>. DEFINE m == [Now EXCEPT !.event = e, !.line = 1, !.talking = TRUE]
<1>2. e \in Seq(LineRecord) /\ e # << >> /\ e[Len(e)].walk = 0
  BY DialogueAssumption
<1>3. 1 \in 1 .. Len(e) /\ Len(e) \in 1 .. Len(e)
  BY <1>2
<1>4. \A n \in 1 .. Len(e) : Scripted(e[n])
  <2>1. \A n \in 1 .. Len(e) : e[n] \in Lines
    BY <1>2 DEF Lines
  <2>. QED
    BY <2>1, DialogueAssumption DEF Scripted
<1>5. e[Len(e)].speech > 0
  <2>1. e[Len(e)] \in LineRecord /\ Scripted(e[Len(e)])
    BY <1>2, <1>3, <1>4
  <2>. QED
    BY <1>2, <2>1 DEF LineRecord, Scripted
<1>6. Now \in Managers /\ ~Now.talking /\ ~Now.walking /\ ~Now.crashed
  BY NowFields DEF IInv, Good, StartDialogue
<1>7. m \in Managers /\ m.event = e /\ m.line = 1 /\ m.talking /\ m.comp = Now.comp
      /\ m.walking = Now.walking /\ m.crashed = Now.crashed
  <2>1. TRUE \in BOOLEAN
    BY Zenon
  <2>. DEFINE u == [Now EXCEPT !.event = e, !.line = 1]
  <2>2. 1 \in Places
    BY DEF Places
  <2>3. u \in Managers /\ u.event = e /\ u.line = 1 /\ u.comp = Now.comp
        /\ u.walking = Now.walking /\ u.crashed = Now.crashed
    BY <1>2, <1>6, <2>2 DEF Managers
  <2>4. m = [u EXCEPT !.talking = TRUE]
    BY <1>6 DEF Managers
  <2>. HIDE DEF u, m
  <2>. QED
    BY <2>1, <2>3, <2>4 DEF Managers
<1>. HIDE DEF m
<1>8. Silenced(m)
  BY <1>6, <1>7 DEF Silenced, IInv, Good, Bubble
<1>9. Good(SetSpeech(m))
  BY <1>3, <1>4, <1>5, <1>7, <1>8, SpeechStarts
<1>10. Become(SetSpeech(m))
  BY <1>1 DEF m
<1>. QED
  BY <1>9, <1>10, BecomeNow DEF IInv, Good

LEMMA InitGood == Init => IInv
<1>. SUFFICES ASSUME Init
              PROVE  IInv
  OBVIOUS
<1>1. talking \in BOOLEAN /\ walking \in BOOLEAN /\ crashed \in BOOLEAN
      /\ ~talking /\ ~walking /\ ~crashed
  BY Zenon DEF Init
<1>2. comp \in [Actors -> Component]
      /\ \A a \in Actors : comp[a] = [state |-> "Hidden", speech |-> 0, shown |-> 0, from |-> 0, count |-> 0]
  BY DEF Init, Component
<1>3. event \in Seq(LineRecord) /\ line \in Places /\ current \in Actors \cup {Nobody}
  BY DEF Init, Places
<1>4. Now \in Managers
  BY <1>1, <1>2, <1>3 DEF Now, Managers
<1>5. \A a \in Actors : Bubble(Now, a)
  <2>. SUFFICES ASSUME NEW a \in Actors
                PROVE  Bubble(Now, a)
    OBVIOUS
  <2>1. /\ Now.comp[a].state = "Hidden" /\ Now.comp[a].speech = 0 /\ Now.comp[a].shown = 0
        /\ Now.comp[a].from = 0 /\ Now.comp[a].count = 0
    BY <1>2, NowFields
  <2>. QED
    BY <2>1 DEF Bubble
<1>. QED
  BY <1>1, <1>4, <1>5, NowFields DEF IInv, Good

LEMMA StepGood ==
  ASSUME IInv, ~Skips, [Next]_vars
  PROVE  IInv' /\ (talking => Leaves(Now, Now'))
<1>1. CASE UNCHANGED manager /\ UNCHANGED <<comp, crashed>>
  <2>1. Now' = Now
    BY <1>1 DEF manager, Now
  <2>. QED
    BY <2>1 DEF IInv, Leaves
<1>2. ASSUME NEW due \in SUBSET Actors, TickComponents(due)
      PROVE  IInv' /\ Leaves(Now, Now')
  BY <1>2, TickGood DEF Leaves
<1>3. CASE StartDialogue
  BY <1>3, StartGood DEF StartDialogue
<1>. QED
  BY <1>1, <1>2, <1>3, UpdateGood DEF Next, MenuOpen, vars

LEMMA Inductive ==
  ASSUME ~Skips
  PROVE  Spec => []IInv
<1>1. IInv /\ [Next]_vars => IInv'
  BY StepGood
<1>. QED
  BY InitGood, <1>1, PTL DEF Spec

-----------------------------------------------------------------------------
\* Every variable of the manager and the components keeps its type, and no text
\* outgrows its speech (DialogueManager.h, DialogueComponent.h).
THEOREM TypeCorrect ==
  ASSUME ~Skips
  PROVE  Spec => []TypeOK
<1>1. Init => phase \in {"tick", "manage"}
  BY DEF Init
<1>2. phase \in {"tick", "manage"} /\ [Next]_vars => (phase \in {"tick", "manage"})'
  BY DEF Next, TickComponents, MenuOpen, Update, StartDialogue, vars
<1>3. IInv /\ phase \in {"tick", "manage"} => TypeOK
  <2>. SUFFICES ASSUME IInv, phase \in {"tick", "manage"}
                PROVE  TypeOK
    OBVIOUS
  <2>1. Now \in Managers /\ \A a \in Actors : Bubble(Now, a)
    BY DEF IInv, Good
  <2>2. /\ event \in Seq(LineRecord) /\ line \in Places /\ current \in Actors \cup {Nobody}
        /\ comp \in [Actors -> Component]
    BY <2>1 DEF Now, Managers
  <2>3. talking \in BOOLEAN /\ walking \in BOOLEAN /\ crashed \in BOOLEAN
    BY <2>1 DEF Now, Managers
  <2>4. \A a \in Actors : comp[a].shown <= comp[a].speech
    BY <2>1, NowFields DEF Bubble
  <2>5. {talking, walking, crashed} \subseteq BOOLEAN
    BY <2>3, Zenon
  <2>. QED
    BY <2>2, <2>4, <2>5 DEF TypeOK, Places
<1>. QED
  BY Inductive, <1>1, <1>2, <1>3, PTL DEF Spec

\* For every script like the game's, and however clicks, walks, menus and the
\* typing fall together, no line behind the end of the event and no character
\* behind the end of a speech is read, as long as nobody skips
\* (DialogueManager.cpp, DialogueComponent.cpp).
THEOREM InRange ==
  ASSUME ~Skips
  PROVE  Spec => []NeverOutOfRange
<1>1. IInv => NeverOutOfRange
  BY NowFields DEF IInv, Good, NeverOutOfRange
<1>. QED
  BY Inductive, <1>1, PTL

\* A text is typed from its first character (DialogueComponent.cpp:39).
THEOREM FromTheStart ==
  ASSUME ~Skips
  PROVE  Spec => []TypedFromStart
<1>1. IInv => TypedFromStart
  BY NowFields DEF IInv, Good, Bubble, TypedFromStart
<1>. QED
  BY Inductive, <1>1, PTL

\* A line is followed by the next, and left only when it was shown whole or walked
\* to its end, by the click as by the end of the walk (DialogueManager.cpp:25-58,
\* 132-172).
THEOREM WholeLines ==
  ASSUME ~Skips
  PROVE  Spec => LinesInFull
<1>1. IInv /\ [Next]_vars =>
        (talking => Leaves(Now, Now'))
  BY StepGood
<1>2. Leaves(Now, Now') /\ <<line', talking'>> # <<line, talking>> =>
        /\ IF event[line].speech > 0 THEN Whole(comp[current]) ELSE event[line].walk = 0
        /\ IF talking' THEN line' = line + 1 ELSE line = Len(event)
  BY DEF Leaves, Now
<1>3. IInv /\ [Next]_vars =>
        (talking /\ <<line', talking'>> # <<line, talking>> =>
          /\ IF event[line].speech > 0 THEN Whole(comp[current]) ELSE event[line].walk = 0
          /\ IF talking' THEN line' = line + 1 ELSE line = Len(event))
  BY <1>1, <1>2
<1>. QED
  BY Inductive, <1>3, PTL DEF Spec, LinesInFull
===============================================================================
