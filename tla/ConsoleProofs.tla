--------------------------- MODULE ConsoleProofs ---------------------------
(***************************************************************************)
(* The line editor, its history, the screen it draws on and the blinking   *)
(* cursor, for screens, lines and histories of any size.                   *)
(***************************************************************************)
EXTENDS Console, SequenceTheorems, TLAPS

(***************************************************************************)
(* Types                                                                   *)
(***************************************************************************)

Chars == Letters \cup {Blank, Sign}
Ops   == ({"at"} \X Nat) \cup ({"put"} \X Chars) \cup {NewLine}

LEMMA Sizes ==
    /\ LINE_MAX \in Nat \ {0} /\ HISTORY_MAX \in Nat \ {0}
    /\ Cols \in Nat \ {0} /\ Rows \in Nat \ {0} /\ Size \in Nat \ {0}
    /\ Size >= Cols /\ Size % Cols = 0
  <1>1. /\ LINE_MAX \in Nat \ {0} /\ HISTORY_MAX \in Nat \ {0}
        /\ Cols \in Nat \ {0} /\ Rows \in Nat \ {0}
    BY ConsoleAssumption DEF ConsoleAssumption
  <1>2. Rows * Cols >= Cols /\ Rows * Cols \in Nat  BY <1>1
  <1>3. (Rows * Cols) % Cols = 0  BY <1>1
  <1> QED  BY <1>1, <1>2, <1>3 DEF Size

LEMMA Reduces ==
    \A n \in Nat \ {0} : \A k \in 0 .. n - 1 : k % n = k
  OBVIOUS

LEMMA LinesAre ==
    \A s : s \in Lines <=> s \in Seq(Letters) /\ Len(s) <= LINE_MAX - 1
  <1> TAKE s
  <1>1. ASSUME s \in Lines PROVE s \in Seq(Letters) /\ Len(s) <= LINE_MAX - 1
    <2>1. PICK m \in 0 .. LINE_MAX - 1 : s \in [1 .. m -> Letters]
      BY <1>1 DEF Lines, BoundedSeq, SeqOf
    <2> QED  BY <2>1, Sizes
  <1>2. ASSUME s \in Seq(Letters), Len(s) <= LINE_MAX - 1 PROVE s \in Lines
    <2>1. s \in [1 .. Len(s) -> Letters] /\ Len(s) \in 0 .. LINE_MAX - 1
      BY <1>2, Sizes, LenProperties
    <2> QED  BY <2>1 DEF Lines, BoundedSeq, SeqOf
  <1> QED  BY <1>1, <1>2

LEMMA EmptyLine == <<>> \in Lines /\ <<>> \in Seq(Letters) /\ Len(<<>>) = 0
  <1>1. <<>> \in Seq(Letters) /\ Len(<<>>) = 0  OBVIOUS
  <1>2. 0 <= LINE_MAX - 1  BY Sizes
  <1> QED  BY <1>1, <1>2, LinesAre

(* The output of the editor is made of known operations. *)
LEMMA OutputIs ==
    /\ \A p \in Nat : At(p) \in Ops
    /\ \A c \in Chars : Put(c) \in Ops
    /\ \A s \in Seq(Letters) : Puts(s) \in Seq(Ops)
    /\ \A n \in Nat : Blanks(n) \in Seq(Ops)
    /\ start \in Nat => \A s \in Seq(Letters), c \in Nat : Redraw(s, c) \in Seq(Ops)
    /\ start \in Nat /\ buf_line \in Seq(Letters)
         => \A s \in Seq(Letters) : Replace(s) \in Seq(Ops)
  <1>1. \A p \in Nat : At(p) \in Ops  BY DEF At, Ops
  <1>2. \A c \in Chars : Put(c) \in Ops  BY DEF Put, Ops
  <1>3. ASSUME NEW s \in Seq(Letters) PROVE Puts(s) \in Seq(Ops)
    <2>1. /\ Len(s) \in Nat /\ DOMAIN s = 1 .. Len(s)
          /\ \A k \in 1 .. Len(s) : s[k] \in Letters
      BY LenProperties
    <2>2. \A k \in 1 .. Len(s) : Put(s[k]) \in Ops  BY <1>2, <2>1 DEF Chars
    <2> QED  BY <2>1, <2>2 DEF Puts
  <1>4. ASSUME NEW n \in Nat PROVE Blanks(n) \in Seq(Ops)
    <2>1. Put(Blank) \in Ops  BY <1>2 DEF Chars
    <2> QED  BY <2>1 DEF Blanks
  <1>5. ASSUME start \in Nat, NEW s \in Seq(Letters), NEW c \in Nat
        PROVE  Redraw(s, c) \in Seq(Ops)
    <2>1. /\ At(start) \in Ops /\ At(start + c) \in Ops /\ Put(Blank) \in Ops
      BY <1>1, <1>2, <1>5 DEF Chars
    <2> QED  BY <1>3, <2>1 DEF Redraw
  <1>6. ASSUME start \in Nat, buf_line \in Seq(Letters), NEW s \in Seq(Letters)
        PROVE  Replace(s) \in Seq(Ops)
    <2>1. Len(buf_line) \in Nat /\ Len(s) \in Nat  BY <1>6
    <2> QED  BY <1>1, <1>4, <1>5, <1>6, <2>1 DEF Replace
  <1> QED  BY <1>1, <1>2, <1>3, <1>4, <1>5, <1>6

(* What is still to be drawn outside the editor: the rest of the line that was
   entered, or the prompt; when a line begins the position is on the grid. *)
Outside ==
    /\ pc = "command" => \/ todo = <<>> /\ cur \in Grid
                         \/ todo = <<NewLine>>
                         \/ \E p \in Nat : todo = <<At(p), NewLine>>
    /\ pc = "prompt" => cur \in Grid /\ todo \in {<<>>, <<Put(Sign)>>}

TypeInv == TypeOK /\ todo \in Seq(Ops) /\ recent \in Seq(Lines) /\ Outside

(* Taking a character out, or putting one in, leaves a line. *)
LEMMA Edits ==
    ASSUME NEW s \in Lines
    PROVE  /\ \A k \in 1 .. Len(s) :
                RemoveAt(s, k) \in Lines /\ Len(RemoveAt(s, k)) = Len(s) - 1
           /\ Len(s) < LINE_MAX - 1 =>
                \A k \in 1 .. Len(s) + 1, c \in Letters :
                  /\ InsertAt(s, k, c) \in Lines
                  /\ Len(InsertAt(s, k, c)) = Len(s) + 1
  <1>0. s \in Seq(Letters) /\ Len(s) \in Nat /\ Len(s) <= LINE_MAX - 1
    BY LinesAre
  <1>1. ASSUME NEW k \in 1 .. Len(s)
        PROVE  RemoveAt(s, k) \in Lines /\ Len(RemoveAt(s, k)) = Len(s) - 1
    <2> DEFINE a == SubSeq(s, 1, k - 1)
               b == SubSeq(s, k + 1, Len(s))
    <2>1. a \in Seq(Letters) /\ Len(a) = k - 1  BY <1>0
    <2>2. b \in Seq(Letters) /\ Len(b) = Len(s) - k  BY <1>0
    <2> HIDE DEF a, b
    <2>3. a \o b \in Seq(Letters) /\ Len(a \o b) = Len(s) - 1
      <3>1. a \o b \in Seq(Letters) /\ Len(a \o b) = Len(a) + Len(b)
        BY <2>1, <2>2, ConcatProperties
      <3> QED  BY <1>0, <2>1, <2>2, <3>1
    <2>4. RemoveAt(s, k) = a \o b  BY DEF RemoveAt, a, b
    <2>5. Len(s) - 1 <= LINE_MAX - 1  BY <1>0, Sizes
    <2> QED  BY <2>3, <2>4, <2>5, LinesAre
  <1>2. ASSUME Len(s) < LINE_MAX - 1, NEW k \in 1 .. Len(s) + 1, NEW c \in Letters
        PROVE  /\ InsertAt(s, k, c) \in Lines
               /\ Len(InsertAt(s, k, c)) = Len(s) + 1
    <2> DEFINE a == SubSeq(s, 1, k - 1)
               b == SubSeq(s, k, Len(s))
    <2>1. a \in Seq(Letters) /\ Len(a) = k - 1  BY <1>0
    <2>2. b \in Seq(Letters) /\ Len(b) = Len(s) - k + 1  BY <1>0
    <2>3. <<c>> \in Seq(Letters) /\ Len(<<c>>) = 1  OBVIOUS
    <2> HIDE DEF a, b
    <2>4. a \o <<c>> \in Seq(Letters) /\ Len(a \o <<c>>) = k
      BY <2>1, <2>3, ConcatProperties
    <2> DEFINE e == a \o <<c>>
               f == e \o b
    <2> HIDE DEF e
    <2>5. f \in Seq(Letters) /\ Len(f) = Len(s) + 1
      <3>1. f \in Seq(Letters) /\ Len(f) = Len(e) + Len(b)
        BY <2>2, <2>4, ConcatProperties DEF e
      <3>2. Len(s) \in Nat /\ k \in Int  BY <1>0
      <3>3. Len(e) = k /\ Len(b) = Len(s) - k + 1  BY <2>2, <2>4 DEF e
      <3> HIDE DEF f
      <3> QED  BY ONLY <3>1, <3>2, <3>3
    <2>6. InsertAt(s, k, c) = f  BY DEF InsertAt, a, b, e
    <2>7. Len(s) + 1 <= LINE_MAX - 1  BY <1>0, <1>2, Sizes
    <2> QED  BY <2>5, <2>6, <2>7, LinesAre
  <1> QED  BY <1>1, <1>2

(* The editor's keys: the line, the cursor and the output keep their types. *)
LEMMA BecomesTypes ==
    ASSUME TypeInv, Ready, NEW s \in Lines, NEW c \in 0 .. Len(s),
           NEW h \in -1 .. history_count - 1, NEW out \in Seq(Ops),
           Becomes(s, c, h, out)
    PROVE  TypeInv'
  <1>1. TypeOK'
    BY DEF TypeInv, TypeOK, Ready, Becomes, lines
  <1> QED  BY <1>1 DEF TypeInv, Ready, Becomes, lines, Outside

(* A line of the history, by the index history_get takes. *)
LEMMA HistoryGetIs ==
    ASSUME TypeOK, NEW i \in 0 .. HISTORY_MAX - 1
    PROVE  /\ (history_head - i + HISTORY_MAX) % HISTORY_MAX
                = IF i <= history_head THEN history_head - i
                  ELSE history_head - i + HISTORY_MAX
           /\ HistoryGet(i) \in Lines
  <1>0. /\ HISTORY_MAX \in Nat \ {0} /\ history_head \in 0 .. HISTORY_MAX - 1
        /\ history \in [0 .. HISTORY_MAX - 1 -> Lines]
    BY Sizes DEF TypeOK
  <1>1. (history_head - i + HISTORY_MAX) % HISTORY_MAX
          = IF i <= history_head THEN history_head - i
            ELSE history_head - i + HISTORY_MAX
    <2>1. CASE i <= history_head
      <3>1. (history_head - i) + HISTORY_MAX \in HISTORY_MAX .. 2 * HISTORY_MAX - 1
        BY <1>0, <2>1
      <3> QED  BY <1>0, <2>1, <3>1
    <2>2. CASE i > history_head
      <3>1. (history_head - i) + HISTORY_MAX \in 0 .. HISTORY_MAX - 1
        BY <1>0, <2>2
      <3> QED  BY <1>0, <2>2, <3>1
    <2> QED  BY <1>0, <2>1, <2>2
  <1> QED  BY <1>0, <1>1 DEF HistoryGet

(* history_push: the places of the ring, and the list of recent lines. *)
LEMMA PushFacts ==
    ASSUME TypeInv, NEW s \in Lines, HistoryPush(s)
    PROVE  /\ history' \in [0 .. HISTORY_MAX - 1 -> Lines]
           /\ history_head' \in 0 .. HISTORY_MAX - 1
           /\ history_count' \in 0 .. HISTORY_MAX
           /\ history_count' >= history_count
           /\ recent' \in Seq(Lines)
  <1>0. /\ HISTORY_MAX \in Nat \ {0} /\ history_count \in 0 .. HISTORY_MAX
        /\ history_head \in 0 .. HISTORY_MAX - 1
        /\ history \in [0 .. HISTORY_MAX - 1 -> Lines] /\ recent \in Seq(Lines)
    BY Sizes DEF TypeInv, TypeOK
  <1>1. CASE s = <<>>  BY <1>0, <1>1 DEF HistoryPush, lines
  <1>2. CASE s # <<>>
    <2>1. (history_head + 1) % HISTORY_MAX \in 0 .. HISTORY_MAX - 1
      BY <1>0
    <2> DEFINE n == IF Len(recent) < HISTORY_MAX THEN Len(recent) + 1
                    ELSE HISTORY_MAX
               t == <<s>> \o recent
    <2>2. recent' = SubSeq(t, 1, n)  BY <1>2 DEF HistoryPush
    <2>3. t \in Seq(Lines) /\ Len(t) = Len(recent) + 1
      BY <1>0, ConcatProperties
    <2>4. n \in 1 .. Len(t)  BY <1>0, <2>3
    <2> HIDE DEF n, t
    <2>5. SubSeq(t, 1, n) \in Seq(Lines)  BY <2>3, <2>4
    <2>6. /\ history' = [history EXCEPT ![NextHead] = s]
          /\ history_head' = (history_head + 1) % HISTORY_MAX
          /\ history_count' = IF history_count < HISTORY_MAX THEN history_count + 1
                              ELSE history_count
      BY <1>2 DEF HistoryPush
    <2>7. history' \in [0 .. HISTORY_MAX - 1 -> Lines]  BY <1>0, <2>6
    <2>8. history_head' \in 0 .. HISTORY_MAX - 1  BY <2>1, <2>6
    <2>9. history_count' \in 0 .. HISTORY_MAX /\ history_count' >= history_count
      BY <1>0, <2>6
    <2> QED  BY <2>2, <2>5, <2>7, <2>8, <2>9
  <1> QED  BY <1>1, <1>2

LEMMA TypeInvHolds == Spec => []TypeInv
  <1>1. Init => TypeInv
    <2> SUFFICES ASSUME Init PROVE TypeInv  OBVIOUS
    <2>1. <<>> \in Lines /\ Len(<<>>) = 0  BY EmptyLine
    <2>2. 0 \in Grid  BY Sizes DEF Grid
    <2>3. TypeOK  BY <2>1, <2>2, Sizes DEF Init, TypeOK
    <2> QED  BY <2>2, <2>3, EmptySeq DEF Init, TypeInv, Outside
  <1>2. TypeInv /\ [Next]_vars => TypeInv'
    <2> SUFFICES ASSUME TypeInv, [Next]_vars PROVE TypeInv'  OBVIOUS
    <2>0. /\ buf_line \in Lines /\ buf_line \in Seq(Letters)
          /\ Len(buf_line) \in Nat /\ Len(buf_line) <= LINE_MAX - 1
          /\ cursor \in 0 .. Len(buf_line) /\ start \in Grid /\ start \in Nat
          /\ hist_idx \in -1 .. history_count - 1
          /\ history_count \in 0 .. HISTORY_MAX
      BY LinesAre, Sizes DEF TypeInv, TypeOK, Grid
    <2>1. CASE Draw
      <3>1. Head(todo) \in Ops  BY <2>1 DEF Draw, TypeInv
      <3>2. cells' \in [Grid -> Letters \cup {Blank, Sign}]
        <4>1. CASE Head(todo)[1] = "put" /\ cur \in Grid
          <5>1. Head(todo)[2] \in Chars
            BY <3>1, <4>1 DEF Ops, NewLine
          <5> QED  BY <2>1, <4>1, <5>1 DEF Draw, TypeInv, TypeOK, Chars
        <4>2. CASE ~(Head(todo)[1] = "put" /\ cur \in Grid)
          BY <2>1, <4>2 DEF Draw, TypeInv, TypeOK
        <4> QED  BY <4>1, <4>2
      <3>3. underlined' \subseteq Grid  BY <2>1 DEF Draw, TypeInv, TypeOK
      <3>4. TypeOK'
        BY <2>1, <3>2, <3>3 DEF Draw, TypeInv, TypeOK, editor, lines
      <3> QED  BY <2>1, <3>4 DEF Draw, TypeInv, Outside, editor, lines
    <2>2. CASE Move
      <3> DEFINE op == Head(todo)
      <3>0. /\ half /\ todo # <<>> /\ op \in Ops /\ todo' = Tail(todo)
            /\ todo' \in Seq(Ops) /\ half' = FALSE
            /\ UNCHANGED <<cursor_enabled, cursor_visible, editor, lines>>
        BY <2>2 DEF Move, TypeInv, TypeOK
      <3>1. cur \in Nat /\ Size \in Nat \ {0} /\ Cols \in Nat \ {0} /\ Size >= Cols
        BY Sizes DEF TypeInv, TypeOK
      <3>2. /\ op[1] = "at" => Target(op) = op[2] /\ op[2] \in Nat
            /\ op[1] = "put" => Target(op) = cur + 1
            /\ op[1] = "newline" => Target(op) = (cur \div Cols + 1) * Cols
            /\ op[1] \in {"at", "put", "newline"}
        BY <3>0 DEF Target, Ops, NewLine
      <3>3. (cur \div Cols + 1) * Cols \in Nat /\ ((cur \div Cols + 1) * Cols) % Cols = 0
        <4>1. cur \div Cols + 1 \in Nat  BY <3>1
        <4> HIDE DEF op
        <4> QED  BY ONLY <4>1, <3>1
      <3>4. Target(op) \in Nat  BY <3>1, <3>2, <3>3
      <3>5. cur' = IF Scrolls(op) THEN Size - Cols ELSE Target(op)
        BY <2>2 DEF Move
      <3>6. cells' \in [Grid -> Letters \cup {Blank, Sign}] /\ underlined' \subseteq Grid
        BY <2>2 DEF Move, TypeInv, TypeOK
      <3>7. TypeOK'
        <4>1. Size - Cols \in Nat  BY <3>1
        <4>2. cur' \in Nat  BY <3>4, <3>5, <4>1
        <4>3. half' => todo' # <<>>  BY <3>0
        <4> QED  BY <3>0, <3>6, <4>2, <4>3 DEF TypeInv, TypeOK, editor, lines
      <3>8. Outside'
        <4>1. op[1] = "newline" => cur' \in Grid
          BY <3>1, <3>2, <3>3, <3>5 DEF Scrolls, Grid
        <4>2. op[1] = "put" /\ cur \in Grid => cur' \in Grid
          <5>1. Size % Cols = 0  BY Sizes
          <5> QED  BY <3>1, <3>2, <3>5, <5>1 DEF Scrolls, Grid
        <4>3. CASE pc = "command"
          <5>1. CASE todo = <<NewLine>>
            BY <3>0, <4>1, <4>3, <5>1 DEF Outside, editor, NewLine
          <5>2. CASE \E p \in Nat : todo = <<At(p), NewLine>>
            BY <3>0, <4>3, <5>2 DEF Outside, editor
          <5> QED  BY <3>0, <4>3, <5>1, <5>2 DEF TypeInv, Outside
        <4>4. CASE pc = "prompt"
          BY <3>0, <4>2, <4>4 DEF TypeInv, Outside, editor, Put
        <4> QED  BY <3>0, <4>3, <4>4 DEF Outside, editor
      <3> QED  BY <3>0, <3>7, <3>8 DEF TypeInv, lines
    <2>3. CASE Blink
      BY <2>3 DEF Blink, TypeInv, TypeOK, Outside, editor, lines
    <2>4. CASE \E c \in Letters : Insert(c)
      <3>1. PICK c \in Letters : Insert(c)  BY <2>4
      <3> DEFINE s   == InsertAt(buf_line, cursor + 1, c)
                 out == <<At(start + cursor)>> \o Puts(SubSeq(s, cursor + 1, Len(s)))
                          \o <<At(start + cursor + 1)>>
      <3>2. Ready /\ Len(buf_line) < LINE_MAX - 1 /\ Becomes(s, cursor + 1, -1, out)
        BY <3>1 DEF Insert
      <3>3. cursor + 1 \in 1 .. Len(buf_line) + 1  BY <2>0
      <3>4. s \in Lines /\ Len(s) = Len(buf_line) + 1  BY <2>0, <3>2, <3>3, Edits
      <3>5. SubSeq(s, cursor + 1, Len(s)) \in Seq(Letters)
        BY <2>0, <3>4, LinesAre
      <3>6. At(start + cursor) \in Ops /\ At(start + cursor + 1) \in Ops
        <4>1. start + cursor \in Nat /\ start + cursor + 1 \in Nat  BY <2>0
        <4> QED  BY <4>1, OutputIs
      <3>7. out \in Seq(Ops)
        <4> HIDE DEF s
        <4>1. Puts(SubSeq(s, cursor + 1, Len(s))) \in Seq(Ops)  BY <3>5, OutputIs
        <4>2. <<At(start + cursor)>> \in Seq(Ops) /\ <<At(start + cursor + 1)>> \in Seq(Ops)
          BY <3>6
        <4> QED  BY <4>1, <4>2
      <3>8. cursor + 1 \in 0 .. Len(s) /\ -1 \in -1 .. history_count - 1
        BY <2>0, <3>4
      <3> HIDE DEF s, out
      <3> QED  BY <3>2, <3>4, <3>7, <3>8, BecomesTypes
    <2>5. CASE Backspace
      <3>0. -1 \in -1 .. history_count - 1  BY <2>0
      <3>1. CASE cursor > 0
        <4> DEFINE s == RemoveAt(buf_line, cursor)
        <4>1. Ready /\ Becomes(s, cursor - 1, -1, Redraw(s, cursor - 1))
          BY <2>5, <3>1 DEF Backspace
        <4>2. s \in Lines /\ Len(s) = Len(buf_line) - 1  BY <2>0, <3>1, Edits
        <4>3. cursor - 1 \in 0 .. Len(s) /\ cursor - 1 \in Nat  BY <2>0, <3>1, <4>2
        <4> HIDE DEF s
        <4>4. Redraw(s, cursor - 1) \in Seq(Ops)
          BY <2>0, <4>2, <4>3, OutputIs, LinesAre
        <4> QED  BY <3>0, <4>1, <4>2, <4>3, <4>4, BecomesTypes
      <3>2. CASE cursor = 0
        <4>1. Ready /\ Becomes(buf_line, cursor, -1, todo)
          BY <2>0, <2>5, <3>2 DEF Backspace
        <4> QED  BY <2>0, <3>0, <4>1, BecomesTypes DEF TypeInv
      <3> QED  BY <2>0, <3>1, <3>2
    <2>6. CASE Left \/ Right
      <3>1. PICK c \in 0 .. Len(buf_line) :
              Ready /\ Becomes(buf_line, c, hist_idx, <<At(start + c)>>)
        <4>1. CASE Left
          <5> DEFINE c == IF cursor > 0 THEN cursor - 1 ELSE cursor
          <5>1. c \in 0 .. Len(buf_line)  BY <2>0
          <5>2. Ready /\ Becomes(buf_line, c, hist_idx, <<At(start + c)>>)
            BY <4>1 DEF Left
          <5> QED  BY <5>1, <5>2
        <4>2. CASE Right
          <5> DEFINE c == IF cursor < Len(buf_line) THEN cursor + 1 ELSE cursor
          <5>1. c \in 0 .. Len(buf_line)  BY <2>0
          <5>2. Ready /\ Becomes(buf_line, c, hist_idx, <<At(start + c)>>)
            BY <4>2 DEF Right
          <5> QED  BY <5>1, <5>2
        <4> QED  BY <2>6, <4>1, <4>2
      <3>2. <<At(start + c)>> \in Seq(Ops)
        <4>1. start + c \in Nat  BY <2>0
        <4>2. At(start + c) \in Ops  BY <4>1, OutputIs
        <4> QED  BY <4>2
      <3> QED  BY <2>0, <3>1, <3>2, BecomesTypes
    <2>7. CASE Up \/ Down
      <3>1. \/ \E i \in 0 .. history_count - 1 :
                  Ready /\ Becomes(HistoryGet(i), Len(HistoryGet(i)), i,
                                   Replace(HistoryGet(i)))
            \/ Ready /\ Becomes(<<>>, 0, -1, Replace(<<>>))
        <4>1. CASE Up
          <5>1. hist_idx + 1 \in 0 .. history_count - 1  BY <2>0, <4>1 DEF Up
          <5> QED  BY <4>1, <5>1 DEF Up
        <4>2. CASE Down
          <5>1. hist_idx > 0 => hist_idx - 1 \in 0 .. history_count - 1  BY <2>0
          <5> QED  BY <4>2, <5>1 DEF Down
        <4> QED  BY <2>7, <4>1, <4>2
      <3>2. CASE \E i \in 0 .. history_count - 1 :
                  Ready /\ Becomes(HistoryGet(i), Len(HistoryGet(i)), i,
                                   Replace(HistoryGet(i)))
        <4>1. PICK i \in 0 .. history_count - 1 :
                  Ready /\ Becomes(HistoryGet(i), Len(HistoryGet(i)), i,
                                   Replace(HistoryGet(i)))
          BY <3>2
        <4>2. HistoryGet(i) \in Lines
          <5>1. i \in 0 .. HISTORY_MAX - 1  BY <2>0, Sizes
          <5> QED  BY <5>1, HistoryGetIs DEF TypeInv
        <4>3. /\ Replace(HistoryGet(i)) \in Seq(Ops)
              /\ Len(HistoryGet(i)) \in 0 .. Len(HistoryGet(i))
              /\ i \in -1 .. history_count - 1
          BY <2>0, <4>2, LinesAre, OutputIs
        <4> QED  BY <4>1, <4>2, <4>3, BecomesTypes
      <3>3. CASE Ready /\ Becomes(<<>>, 0, -1, Replace(<<>>))
        <4>1. /\ <<>> \in Lines /\ <<>> \in Seq(Letters) /\ Len(<<>>) = 0
          BY EmptyLine
        <4>2. Replace(<<>>) \in Seq(Ops)  BY <2>0, <4>1, OutputIs
        <4>3. 0 \in 0 .. Len(<<>>) /\ -1 \in -1 .. history_count - 1
          BY <2>0, <4>1
        <4> QED  BY <3>3, <4>1, <4>2, <4>3, BecomesTypes
      <3> QED  BY <3>1, <3>2, <3>3
    <2>8. CASE Enter
      <3>1. HistoryPush(buf_line) /\ Ready  BY <2>8 DEF Enter
      <3>2. todo' = <<At(start + Len(buf_line)), NewLine>> /\ todo' \in Seq(Ops)
        <4>1. At(start + Len(buf_line)) \in Ops /\ NewLine \in Ops
          <5>1. start + Len(buf_line) \in Nat  BY <2>0
          <5> QED  BY <5>1, OutputIs DEF Ops
        <4> QED  BY <2>8, <4>1 DEF Enter
      <3>3. start + Len(buf_line) \in Nat  BY <2>0
      <3>4. -1 \in -1 .. history_count' - 1  BY <2>0, <3>1, PushFacts
      <3>5. half = FALSE  BY <3>1 DEF Ready, TypeInv, TypeOK
      <3>6. TypeOK'
        BY <2>0, <2>8, <3>1, <3>4, <3>5, PushFacts DEF Enter, TypeInv, TypeOK
      <3>7. Outside'  BY <2>8, <3>2, <3>3 DEF Enter, Outside
      <3> QED  BY <2>0, <3>1, <3>2, <3>6, <3>7, PushFacts DEF TypeInv
    <2>9. CASE \E clear \in BOOLEAN : Command(clear)
      <3>1. PICK clear \in BOOLEAN : Command(clear)  BY <2>9
      <3>2. cur \in Grid /\ 0 \in Grid
        BY <3>1, Sizes DEF Command, TypeInv, Outside, At, Grid
      <3>3. todo' = <<Put(Sign)>> /\ todo' \in Seq(Ops)
        <4>1. Put(Sign) \in Ops  BY OutputIs DEF Chars
        <4> QED  BY <3>1, <4>1 DEF Command
      <3>4. TypeOK'
        BY <3>1, <3>2, <3>3 DEF Command, TypeInv, TypeOK, lines
      <3> QED
        BY <3>1, <3>2, <3>3, <3>4 DEF Command, TypeInv, Outside, lines
    <2>10. CASE Readline
      <3>1. cur \in Grid  BY <2>10 DEF Readline, TypeInv, Outside
      <3>2. <<>> \in Lines /\ 0 \in 0 .. Len(<<>>) /\ -1 \in -1 .. history_count - 1
        BY <2>0, EmptyLine
      <3>3. TypeOK'
        BY <2>10, <3>1, <3>2 DEF Readline, TypeInv, TypeOK, lines
      <3> QED  BY <2>10, <3>3 DEF Readline, TypeInv, Outside, lines
    <2>11. CASE UNCHANGED vars
      BY <2>11 DEF vars, screen, editor, lines, TypeInv, TypeOK, Outside
    <2> QED
      BY <2>1, <2>2, <2>3, <2>4, <2>5, <2>6, <2>7, <2>8, <2>9, <2>10, <2>11
         DEF Next
  <1> QED  BY <1>1, <1>2, PTL DEF Spec

(* Every variable keeps its type; the position is on the grid when a line
   begins, though the editor sets it off the grid in between. *)
THEOREM TypeCorrect == Spec => []TypeOK
  <1>1. TypeInv => TypeOK  BY DEF TypeInv
  <1> QED  BY <1>1, TypeInvHolds, PTL

-----------------------------------------------------------------------------
(***************************************************************************)
(* The blinking cursor                                                     *)
(***************************************************************************)

(* Until a tick falls between two halves the only underline is the cursor's,
   it shows only while the cursor does, and a first half takes it away. *)
UnderlineInv ==
    /\ crossings \in Nat
    /\ crossings = 0 =>
        /\ underlined \subseteq {cur}
        /\ underlined # {} => cursor_enabled /\ cursor_visible
        /\ half => underlined = {}

LEMMA UnderlineInvHolds == Spec => []UnderlineInv
  <1>1. Init => UnderlineInv  BY DEF Init, UnderlineInv
  <1>2. TypeOK /\ UnderlineInv /\ [Next]_vars => UnderlineInv'
    <2> SUFFICES ASSUME TypeOK, UnderlineInv, [Next]_vars PROVE UnderlineInv'
      OBVIOUS
    <2>1. CASE Draw
      BY <2>1 DEF Draw, Erases, UnderlineInv
    <2>2. CASE Move
      <3>1. crossings' = crossings /\ half /\ half' = FALSE  BY <2>2 DEF Move
      <3>2. underlined = {} => underlined' = {}  BY <2>2 DEF Move
      <3> QED  BY <3>1, <3>2 DEF UnderlineInv
    <2>3. CASE Blink
      <3>1. CASE half
        <4>1. crossings' = crossings + 1  BY <2>3, <3>1 DEF Blink
        <4> QED  BY <4>1 DEF UnderlineInv
      <3>2. CASE ~half
        <4>1. /\ crossings' = crossings /\ half' = half /\ cur' = cur
              /\ cursor_enabled /\ cursor_enabled' = cursor_enabled
              /\ cursor_visible' = ~cursor_visible
              /\ underlined' = IF cursor_visible THEN underlined \ {cur}
                               ELSE underlined \cup ({cur} \cap Grid)
          BY <2>3, <3>2 DEF Blink
        <4>2. CASE cursor_visible
          BY <3>2, <4>1, <4>2 DEF UnderlineInv
        <4>3. CASE ~cursor_visible
          BY <3>2, <4>1, <4>3 DEF UnderlineInv
        <4> QED  BY <4>2, <4>3
      <3> QED  BY <3>1, <3>2
    <2>4. CASE (\E c \in Letters : Insert(c)) \/ Backspace \/ Left \/ Right \/ Up \/ Down
      <3>1. UNCHANGED <<crossings, underlined, cur, cursor_enabled, cursor_visible, half>>
        BY <2>4 DEF Insert, Backspace, Left, Right, Up, Down, Becomes
      <3> QED  BY <3>1 DEF UnderlineInv
    <2>5. CASE Enter
      BY <2>5 DEF Enter, UnderlineInv
    <2>6. CASE \E clear \in BOOLEAN : Command(clear)
      BY <2>6 DEF Command, UnderlineInv
    <2>7. CASE Readline
      BY <2>7 DEF Readline, UnderlineInv
    <2>8. CASE UNCHANGED vars
      BY <2>8 DEF vars, screen, UnderlineInv
    <2> QED
      BY <2>1, <2>2, <2>3, <2>4, <2>5, <2>6, <2>7, <2>8 DEF Next
  <1> QED  BY <1>1, <1>2, TypeCorrect, PTL DEF Spec

(* The cursor leaves no underline behind unless a tick falls between the
   drawing of a character and the step to the next (vga_putchar,
   fb_cursor_tick). *)
THEOREM CursorLeavesNoGhost == Spec => []NoGhost
  <1>1. UnderlineInv => NoGhost  BY DEF UnderlineInv, NoGhost
  <1> QED  BY <1>1, UnderlineInvHolds, PTL

-----------------------------------------------------------------------------
(***************************************************************************)
(* The history                                                             *)
(***************************************************************************)

(* The history keeps the lines that were entered, the last at the head of the
   ring and the others below it; when an entry is on the line, it is unedited. *)
RecallInv == HistoryRecalls /\ (pc # "read" => hist_idx = -1)

(* The index of an entry after a line is pushed: the new line is the first. *)
LEMMA PushMoves ==
    ASSUME TypeInv, RecallInv, NEW s \in Lines, HistoryPush(s)
    PROVE  /\ Len(recent') = history_count'
           /\ \A i \in 0 .. history_count' - 1 : HistoryGet(i)' = recent'[i + 1]
  <1>0. /\ HISTORY_MAX \in Nat \ {0} /\ history_count \in 0 .. HISTORY_MAX
        /\ history_head \in 0 .. HISTORY_MAX - 1
        /\ history \in [0 .. HISTORY_MAX - 1 -> Lines] /\ recent \in Seq(Lines)
        /\ Len(recent) = history_count
        /\ \A i \in 0 .. history_count - 1 : HistoryGet(i) = recent[i + 1]
    BY Sizes DEF TypeInv, TypeOK, RecallInv, HistoryRecalls
  <1>1. CASE s = <<>>
    BY <1>0, <1>1 DEF HistoryPush, lines, HistoryGet
  <1>2. CASE s # <<>>
    <2> DEFINE H == (history_head + 1) % HISTORY_MAX
               n == IF Len(recent) < HISTORY_MAX THEN Len(recent) + 1
                    ELSE HISTORY_MAX
               t == <<s>> \o recent
    <2>1. H = IF history_head = HISTORY_MAX - 1 THEN 0 ELSE history_head + 1
      <3>1. CASE history_head = HISTORY_MAX - 1
        <4>1. H = HISTORY_MAX % HISTORY_MAX  BY <1>0, <3>1
        <4> QED  BY <1>0, <3>1, <4>1
      <3>2. CASE history_head # HISTORY_MAX - 1
        <4>1. history_head + 1 \in 0 .. HISTORY_MAX - 1  BY <1>0, <3>2
        <4>2. H = history_head + 1  BY <1>0, <4>1, Reduces
        <4> QED  BY <3>2, <4>2
      <3> QED  BY <3>1, <3>2
    <2>2. /\ history' = [history EXCEPT ![H] = s] /\ history_head' = H
          /\ history_count' = n /\ recent' = SubSeq(t, 1, n)
      BY <1>0, <1>2 DEF HistoryPush, NextHead
    <2> HIDE DEF H
    <2>3. /\ t \in Seq(Lines) /\ Len(t) = Len(recent) + 1 /\ t[1] = s
          /\ \A k \in 1 .. Len(recent) : t[k + 1] = recent[k]
      <3>1. <<s>> \in Seq(Lines) /\ Len(<<s>>) = 1 /\ <<s>>[1] = s  OBVIOUS
      <3> QED  BY <1>0, <3>1, ConcatProperties
    <2>4. n \in 1 .. Len(t) /\ n <= HISTORY_MAX /\ n - 1 <= Len(recent)
      BY <1>0, <2>3
    <2> HIDE DEF t, n
    <2>5. Len(recent') = n /\ \A k \in 1 .. n : recent'[k] = t[k]
      BY <2>2, <2>3, <2>4
    <2>6. ASSUME NEW i \in 0 .. n - 1 PROVE HistoryGet(i)' = recent'[i + 1]
      <3>0. i \in 0 .. HISTORY_MAX - 1 /\ n \in Nat /\ i + 1 \in 1 .. n
        BY <1>0, <2>3, <2>4
      <3> DEFINE Slot(h, k) == IF k <= h THEN h - k ELSE h - k + HISTORY_MAX
      <3>1. HistoryGet(i)' = history'[Slot(H, i)]
        <4>1. H \in 0 .. HISTORY_MAX - 1  BY <1>0, <2>1
        <4>2. (H - i + HISTORY_MAX) % HISTORY_MAX = Slot(H, i)
          <5>1. CASE i <= H
            <6>1. (H - i) + HISTORY_MAX \in HISTORY_MAX .. 2 * HISTORY_MAX - 1
              BY <1>0, <3>0, <4>1, <5>1
            <6> QED  BY <1>0, <3>0, <4>1, <5>1, <6>1
          <5>2. CASE i > H
            <6>1. (H - i) + HISTORY_MAX \in 0 .. HISTORY_MAX - 1
              BY <1>0, <3>0, <4>1, <5>2
            <6>2. ((H - i) + HISTORY_MAX) % HISTORY_MAX = (H - i) + HISTORY_MAX
              BY ONLY <1>0, <6>1, Reduces
            <6>3. ~(i <= H)  BY <3>0, <4>1, <5>2
            <6> QED  BY <6>2, <6>3
          <5> QED  BY <3>0, <4>1, <5>1, <5>2
        <4> QED  BY <2>2, <4>2 DEF HistoryGet
      <3>2. CASE i = 0
        <4>1. Slot(H, i) = H /\ H \in 0 .. HISTORY_MAX - 1  BY <1>0, <2>1, <3>2
        <4>2. history'[H] = s  BY <1>0, <2>2, <4>1
        <4>3. recent'[i + 1] = s  BY <2>3, <2>5, <3>0, <3>2
        <4> QED  BY <3>1, <4>1, <4>2, <4>3
      <3>3. CASE i # 0
        <4>1. i - 1 \in 0 .. history_count - 1 /\ i \in 1 .. Len(recent)
          BY <1>0, <2>3, <2>4, <3>0, <3>3
        <4>2. HistoryGet(i - 1) = recent[i]  BY <1>0, <4>1
        <4>3. i - 1 \in 0 .. HISTORY_MAX - 1  BY <1>0, <3>0, <3>3
        <4>4. HistoryGet(i - 1) = history[Slot(history_head, i - 1)]
          BY <4>3, HistoryGetIs DEF HistoryGet, TypeInv
        <4>5. /\ Slot(H, i) = Slot(history_head, i - 1) /\ Slot(H, i) # H
              /\ Slot(H, i) \in 0 .. HISTORY_MAX - 1
          BY <1>0, <2>1, <3>0, <3>3
        <4>6. history'[Slot(H, i)] = history[Slot(H, i)]
          BY <1>0, <2>2, <4>5
        <4>7. recent'[i + 1] = recent[i]  BY <2>3, <2>5, <3>0, <4>1
        <4> QED  BY <3>1, <4>2, <4>4, <4>5, <4>6, <4>7
      <3> QED  BY <3>2, <3>3
    <2> QED  BY <2>2, <2>5, <2>6
  <1> QED  BY <1>1, <1>2

LEMMA RecallInvHolds == Spec => []RecallInv
  <1>1. Init => RecallInv
    BY DEF Init, RecallInv, HistoryRecalls
  <1>2. TypeInv /\ RecallInv /\ [Next]_vars => RecallInv'
    <2> SUFFICES ASSUME TypeInv, RecallInv, [Next]_vars PROVE RecallInv'
      OBVIOUS
    <2>0. /\ hist_idx \in -1 .. history_count - 1 /\ history_count \in Nat
          /\ \A i \in 0 .. history_count - 1 : HistoryGet(i) = recent[i + 1]
      BY Sizes DEF TypeInv, TypeOK, RecallInv, HistoryRecalls
    (* What leaves the history alone, and the line or its index with it. *)
    <2>1. ASSUME UNCHANGED lines, hist_idx' >= 0 => buf_line' = recent[hist_idx' + 1],
                 pc' # "read" => hist_idx' = -1
          PROVE  RecallInv'
      BY <2>1 DEF RecallInv, HistoryRecalls, HistoryGet, lines
    <2>2. CASE Draw \/ Move \/ Blink \/ UNCHANGED vars
      <3>1. UNCHANGED <<editor, lines>>
        BY <2>2 DEF Draw, Move, Blink, vars
      <3> QED  BY <3>1 DEF RecallInv, HistoryRecalls, HistoryGet, lines, editor
    <2>3. CASE (\E c \in Letters : Insert(c)) \/ Backspace
      <3>1. UNCHANGED lines /\ hist_idx' = -1 /\ pc' = "read"
        BY <2>3 DEF Insert, Backspace, Becomes, Ready
      <3> QED  BY <2>1, <3>1
    <2>4. CASE Left \/ Right
      <3>1. UNCHANGED <<lines, hist_idx, buf_line, pc>>
        BY <2>4 DEF Left, Right, Becomes
      <3> QED  BY <2>1, <3>1 DEF RecallInv, HistoryRecalls
    <2>5. CASE Up
      <3>1. hist_idx + 1 \in 0 .. history_count - 1  BY <2>0, <2>5 DEF Up
      <3>2. /\ UNCHANGED <<lines, pc>> /\ hist_idx' = hist_idx + 1
            /\ buf_line' = HistoryGet(hist_idx + 1) /\ pc = "read"
        BY <2>5 DEF Up, Becomes, Ready
      <3>3. HistoryGet(hist_idx + 1) = recent[(hist_idx + 1) + 1]  BY <2>0, <3>1
      <3> QED  BY <2>1, <3>2, <3>3
    <2>6. CASE Down
      <3>1. UNCHANGED <<lines, pc>> /\ pc = "read"
        BY <2>6 DEF Down, Becomes, Ready
      <3>2. CASE hist_idx > 0
        <4>1. hist_idx' = hist_idx - 1 /\ buf_line' = HistoryGet(hist_idx - 1)
          BY <2>6, <3>2 DEF Down, Becomes
        <4>2. hist_idx - 1 \in 0 .. history_count - 1  BY <2>0, <3>2
        <4>3. HistoryGet(hist_idx - 1) = recent[(hist_idx - 1) + 1]  BY <2>0, <4>2
        <4> QED  BY <2>1, <3>1, <4>1, <4>3
      <3>3. CASE ~(hist_idx > 0)
        <4>1. hist_idx' = -1  BY <2>6, <3>3 DEF Down, Becomes
        <4> QED  BY <2>1, <3>1, <4>1
      <3> QED  BY <3>2, <3>3
    <2>7. CASE Enter
      <3>1. HistoryPush(buf_line) /\ hist_idx' = -1  BY <2>7 DEF Enter
      <3>2. buf_line \in Lines  BY DEF TypeInv, TypeOK
      <3> QED  BY <3>1, <3>2, PushMoves DEF RecallInv, HistoryRecalls
    <2>8. CASE (\E clear \in BOOLEAN : Command(clear)) \/ Readline
      <3>1. UNCHANGED lines /\ hist_idx' = -1
        BY <2>8 DEF Command, Readline, RecallInv
      <3> QED  BY <2>1, <3>1
    <2> QED
      BY <2>2, <2>3, <2>4, <2>5, <2>6, <2>7, <2>8 DEF Next
  <1> QED  BY <1>1, <1>2, TypeInvHolds, PTL DEF Spec

(* Up and Down recall the lines that were entered, the last first, for a
   history of any size (history_push, history_get, readline). *)
THEOREM HistoryIsRecent == Spec => []HistoryRecalls
  <1>1. RecallInv => HistoryRecalls  BY DEF RecallInv
  <1> QED  BY <1>1, RecallInvHolds, PTL

-----------------------------------------------------------------------------
(***************************************************************************)
(* The screen                                                              *)
(***************************************************************************)

(* The character that belongs at a place at or behind start. *)
Want(p) == IF p - start < Len(buf_line) THEN buf_line[p - start + 1] ELSE Blank

(* The places the editor answers for: once the screen has scrolled under the
   line, those behind it. *)
Mine(p) == p \in Grid /\ p >= start /\ (scrolled => p >= start + Len(buf_line))

(* They show what they should, but for those from x to y. *)
Shown(x, y) == \A p \in Grid : Mine(p) /\ ~(x <= p /\ p < y) => cells[p] = Want(p)

(* From its k-th operation on the output puts what belongs from x to y there,
   and sets the position to the editor's cursor. *)
Draws(k, x, y) ==
    /\ Len(todo) = k + (y - x) /\ todo[k + (y - x)] = At(start + cursor)
    /\ \A j \in 0 .. y - x - 1 : todo[k + j] = Put(Want(x + j))

(* The output goes to x first (d = 1), or the position is there. *)
Redrawing(d, x, y) ==
    /\ start <= x /\ x <= y /\ y <= start + Len(buf_line) + 1
    /\ Draws(d + 1, x, y) /\ (d = 1 => todo[1] = At(x))
    /\ Shown(x, y)
    /\ d = 0 /\ x < y /\ (scrolled => start + Len(buf_line) < Size) =>
         cur = x /\ (half /\ Mine(x) => cells[x] = Want(x))

(* Before that it blanks m places, which are all that is not blank behind
   start. *)
From(d) == IF d = 1 THEN start ELSE cur
Blanking(d, m) ==
    /\ Draws(d + m + 2, start, start + Len(buf_line) + 1)
    /\ todo[d + m + 1] = At(start) /\ (d = 1 => todo[1] = At(start))
    /\ \A j \in 1 .. m : todo[d + j] = Put(Blank)
    /\ \A p \in Grid : p >= start /\ ~(From(d) <= p /\ p < From(d) + m) =>
         cells[p] = Blank
    /\ d = 0 /\ m > 0 /\ half /\ cur \in Grid => cells[cur] = Blank

AtRest == todo = <<>> /\ Shown(start, start) /\ (~scrolled => cur = start + cursor)

BlankFrom(q) == \A p \in Grid : p >= q => cells[p] = Blank

Editing == \/ AtRest
           \/ \E d \in {0, 1}, x, y \in Nat : Redrawing(d, x, y)
           \/ \E d \in {0, 1}, m \in Nat : Blanking(d, m)

(* Between two lines nothing stands behind the position. *)
Between ==
    /\ pc = "command" =>
         /\ todo \in {<<>>, <<NewLine>>} => BlankFrom(cur)
         /\ \A q \in Nat : todo = <<At(q), NewLine>> => BlankFrom(q)
    /\ pc = "prompt" =>
         \A p \in Grid : p >= cur /\ (half => p # cur) => cells[p] = Blank

ScreenInv == (pc = "read" => Editing) /\ Between

LEMMA ScreenFacts ==
    ASSUME TypeInv
    PROVE  /\ buf_line \in Seq(Letters) /\ Len(buf_line) \in Nat
           /\ cursor \in 0 .. Len(buf_line) /\ start \in Nat /\ start < Size
           /\ cur \in Nat /\ Size \in Nat \ {0} /\ Cols \in Nat \ {0} /\ Size >= Cols
           /\ Grid = 0 .. Size - 1 /\ DOMAIN cells = Grid
           /\ todo \in Seq(Ops) /\ Len(todo) \in Nat /\ half \in BOOLEAN
  BY LinesAre, Sizes DEF TypeInv, TypeOK, Grid

LEMMA OpsApart ==
    ASSUME NEW a, NEW b
    PROVE  /\ At(a)[1] = "at" /\ At(a)[2] = a /\ Put(b)[1] = "put" /\ Put(b)[2] = b
           /\ NewLine[1] = "newline" /\ At(a) # Put(b)
  BY DEF At, Put, NewLine

LEMMA TailIs ==
    ASSUME NEW S, NEW s \in Seq(S), s # <<>>
    PROVE  /\ Head(s) = s[1] /\ Len(s) >= 1 /\ Len(Tail(s)) = Len(s) - 1
           /\ Tail(s) \in Seq(S)
           /\ \A j \in 1 .. Len(s) - 1 : Tail(s)[j] = s[j + 1]
  OBVIOUS

(* What a first half leaves as it was. *)
LEMMA DrawScreen ==
    ASSUME TypeInv, ScreenInv, Draw
    PROVE  ScreenInv'
  <1>0. /\ todo # <<>> /\ ~half /\ half' = TRUE
        /\ UNCHANGED <<cur, todo, buf_line, cursor, start, pc, scrolled>>
        /\ cells' = IF Head(todo)[1] = "put" /\ cur \in Grid
                    THEN [cells EXCEPT ![cur] = Head(todo)[2]] ELSE cells
    BY DEF Draw, editor
  <1>1. Head(todo) = todo[1] /\ Len(todo) >= 1  BY <1>0, ScreenFacts, TailIs
  <1>2. \A p : Want(p)' = Want(p) /\ Mine(p)' = Mine(p)
    BY <1>0 DEF Want, Mine
  <1>3. \A p \in Grid : p # cur => cells'[p] = cells[p]
    BY <1>0, ScreenFacts
  <1>4. todo[1][1] = "put" /\ cur \in Grid => cells'[cur] = todo[1][2]
    BY <1>0, <1>1, ScreenFacts
  <1>5. todo[1][1] # "put" => cells' = cells
    BY <1>0, <1>1
  <1>6. \A k, x, y : Draws(k, x, y)' <=> Draws(k, x, y)
    BY <1>0, <1>2 DEF Draws
  <1>7. CASE pc = "read"
    <2>1. AtRest => FALSE  BY <1>0 DEF AtRest
    <2>2. ASSUME NEW d \in {0, 1}, NEW x \in Nat, NEW y \in Nat, Redrawing(d, x, y)
          PROVE  Redrawing(d, x, y)'
      <3>0. x <= y /\ Draws(d + 1, x, y) /\ Shown(x, y)  BY <2>2 DEF Redrawing
      <3>1. CASE d = 0 /\ x < y
        <4>1. 0 \in 0 .. y - x - 1 /\ d + 1 + 0 = 1 /\ x + 0 = x  BY <3>1
        <4>2. todo[d + 1 + 0] = Put(Want(x + 0))  BY <3>0, <4>1 DEF Draws
        <4>3. todo[1] = Put(Want(x))  BY <4>1, <4>2
        <4>4. (scrolled => start + Len(buf_line) < Size) => cur = x
          BY <2>2, <3>1 DEF Redrawing
        <4>5. ASSUME NEW p \in Grid, Mine(p), ~(x <= p /\ p < y)
              PROVE  cells'[p] = Want(p)
          <5>1. scrolled => start + Len(buf_line) < Size
            BY <4>5, ScreenFacts DEF Mine
          <5>2. p # cur  BY <3>1, <4>4, <4>5, <5>1
          <5> QED  BY <1>3, <3>0, <4>5, <5>2 DEF Shown
        <4>6. Shown(x, y)'  BY <1>2, <4>5 DEF Shown, Grid
        <4>7. Mine(x) /\ cur = x => cells'[x] = Want(x)
          BY <1>4, <4>3, OpsApart DEF Mine
        <4> QED  BY <1>0, <1>2, <1>6, <2>2, <3>1, <4>4, <4>6, <4>7 DEF Redrawing
      <3>2. CASE ~(d = 0 /\ x < y)
        <4>1. todo[1][1] # "put"
          <5>1. CASE d = 1  BY <2>2, <5>1, OpsApart DEF Redrawing
          <5>2. CASE d = 0
            <6>1. x = y /\ d + 1 + (y - x) = 1  BY <3>0, <3>2, <5>2
            <6> QED  BY <3>0, <6>1, OpsApart DEF Draws
          <5> QED  BY <5>1, <5>2
        <4>2. Shown(x, y)'  BY <1>2, <1>5, <3>0, <4>1 DEF Shown, Grid
        <4> QED  BY <1>0, <1>2, <1>6, <2>2, <3>2, <4>2 DEF Redrawing
      <3> QED  BY <3>1, <3>2
    <2>3. ASSUME NEW d \in {0, 1}, NEW m \in Nat, Blanking(d, m)
          PROVE  Blanking(d, m)'
      <3>0. From(d)' = From(d)  BY <1>0 DEF From
      <3>1. CASE d = 0 /\ m > 0
        <4>1. 1 \in 1 .. m /\ d + 1 = 1  BY <3>1
        <4>2. todo[1] = Put(Blank)  BY <2>3, <4>1 DEF Blanking
        <4>3. From(d) = cur /\ cur \in Nat  BY <3>1, ScreenFacts DEF From
        <4>4. ASSUME NEW p \in Grid, p >= start, ~(cur <= p /\ p < cur + m)
              PROVE  cells'[p] = Blank
          <5>1. p # cur  BY <3>1, <4>3, <4>4
          <5> QED  BY <1>3, <2>3, <4>3, <4>4, <5>1 DEF Blanking
        <4>5. cur \in Grid => cells'[cur] = Blank  BY <1>4, <4>2, OpsApart
        <4> QED  BY <1>0, <1>6, <2>3, <3>0, <4>3, <4>4, <4>5 DEF Blanking, Grid
      <3>2. CASE ~(d = 0 /\ m > 0)
        <4>1. todo[1][1] # "put"
          <5>1. CASE d = 1  BY <2>3, <5>1, OpsApart DEF Blanking
          <5>2. CASE d = 0
            <6>1. d + m + 1 = 1  BY <3>2, <5>2
            <6> QED  BY <2>3, <6>1, OpsApart DEF Blanking
          <5> QED  BY <5>1, <5>2
        <4> QED  BY <1>0, <1>5, <1>6, <2>3, <3>0, <3>2, <4>1 DEF Blanking, Grid
      <3> QED  BY <3>1, <3>2
    <2>4. Editing'
      BY <1>7, <2>1, <2>2, <2>3 DEF ScreenInv, Editing
    <2> QED  BY <1>0, <1>7, <2>4 DEF ScreenInv, Between
  <1>8. CASE pc = "command"
    <2>1. todo[1][1] # "put"
      <3>1. todo = <<NewLine>> \/ \E q \in Nat : todo = <<At(q), NewLine>>
        BY <1>0, <1>8 DEF TypeInv, Outside
      <3> QED  BY <3>1, OpsApart
    <2> QED  BY <1>0, <1>5, <1>8, <2>1 DEF ScreenInv, Between, BlankFrom, Grid
  <1>9. CASE pc = "prompt"
    BY <1>0, <1>3, <1>9 DEF ScreenInv, Between, Grid
  <1> QED  BY <1>7, <1>8, <1>9 DEF TypeInv, TypeOK

(* The rest of an output when its first operation is done. *)
LEMMA DrawsRest ==
    ASSUME TypeInv, todo # <<>>, todo' = Tail(todo),
           UNCHANGED <<buf_line, cursor, start>>,
           NEW k \in Nat, NEW x \in Nat, NEW y \in Nat, x <= y, Draws(k, x, y)
    PROVE  /\ k > 1 => Draws(k - 1, x, y)'
           /\ k = 1 /\ x < y => Draws(k, x + 1, y)'
           /\ k = 1 /\ x = y => todo' = <<>> /\ todo[1] = At(start + cursor)
  <1>0. /\ todo \in Seq(Ops) /\ Len(todo) \in Nat /\ Len(todo) = k + (y - x)
        /\ todo' \in Seq(Ops) /\ Len(todo') = Len(todo) - 1
        /\ \A j \in 1 .. Len(todo) - 1 : todo'[j] = todo[j + 1]
    BY ScreenFacts, TailIs DEF Draws
  <1>1. \A p : Want(p)' = Want(p)  BY DEF Want
  <1>2. ASSUME k > 1 PROVE Draws(k - 1, x, y)'
    <2>1. Len(todo') = (k - 1) + (y - x)  BY <1>0
    <2>2. todo'[(k - 1) + (y - x)] = At(start' + cursor')
      <3>1. (k - 1) + (y - x) \in 1 .. Len(todo) - 1 /\ ((k - 1) + (y - x)) + 1 = k + (y - x)
        BY <1>0, <1>2
      <3> QED  BY <1>0, <3>1 DEF Draws
    <2>3. ASSUME NEW j \in 0 .. y - x - 1
          PROVE  todo'[(k - 1) + j] = Put(Want(x + j))'
      <3>1. (k - 1) + j \in 1 .. Len(todo) - 1 /\ ((k - 1) + j) + 1 = k + j
        BY <1>0, <1>2
      <3> QED  BY <1>0, <1>1, <3>1 DEF Draws, Put
    <2> QED  BY <2>1, <2>2, <2>3 DEF Draws
  <1>3. ASSUME k = 1, x < y PROVE Draws(k, x + 1, y)'
    <2>1. Len(todo') = k + (y - (x + 1))  BY <1>0
    <2>2. todo'[k + (y - (x + 1))] = At(start' + cursor')
      <3>1. k + (y - (x + 1)) \in 1 .. Len(todo) - 1 /\ (k + (y - (x + 1))) + 1 = k + (y - x)
        BY <1>0, <1>3
      <3> QED  BY <1>0, <3>1 DEF Draws
    <2>3. ASSUME NEW j \in 0 .. y - (x + 1) - 1
          PROVE  todo'[k + j] = Put(Want((x + 1) + j))'
      <3>1. k + j \in 1 .. Len(todo) - 1 /\ (k + j) + 1 = k + (j + 1)
            /\ j + 1 \in 0 .. y - x - 1 /\ (x + 1) + j = x + (j + 1)
        BY <1>0, <1>3
      <3>2. todo[k + (j + 1)] = Put(Want(x + (j + 1)))  BY <3>1 DEF Draws
      <3>3. todo'[k + j] = todo[k + (j + 1)]  BY <1>0, <3>1
      <3>4. Want((x + 1) + j)' = Want(x + (j + 1))  BY <1>1, <3>1
      <3> QED  BY <3>2, <3>3, <3>4 DEF Put
    <2> QED  BY <2>1, <2>2, <2>3 DEF Draws
  <1>4. ASSUME k = 1, x = y PROVE todo' = <<>> /\ todo[1] = At(start + cursor)
    <2>1. k + (y - x) = 1  BY <1>4
    <2> QED  BY <1>0, <2>1 DEF Draws
  <1> QED  BY <1>2, <1>3, <1>4

ScrolledUp == [p \in Grid |-> IF p + Cols \in Grid THEN cells[p + Cols] ELSE Blank]

(* The second half of an operation: where the position goes, and what the
   screen shows then. *)
LEMMA MoveIs ==
    ASSUME TypeInv, Move
    PROVE  /\ todo # <<>> /\ half /\ half' = FALSE /\ todo' = Tail(todo)
           /\ UNCHANGED <<buf_line, cursor, start, pc>>
           /\ \A q : todo[1] = At(q) =>
                cur' = q /\ UNCHANGED <<cells, scrolled>>
           /\ \A c : todo[1] = Put(c) =>
                \/ /\ cur' = cur + 1 /\ UNCHANGED <<cells, scrolled>>
                \/ /\ cur + 1 >= Size /\ cur' = Size - Cols
                   /\ cells' = ScrolledUp /\ scrolled' = (pc = "read")
           /\ todo[1] = NewLine =>
                \/ /\ cur' \in Nat /\ cur' >= cur + 1 /\ UNCHANGED <<cells, scrolled>>
                \/ /\ cur' = Size - Cols
                   /\ cells' = ScrolledUp /\ scrolled' = (pc = "read")
  <1>0. /\ half /\ half' = FALSE /\ todo' = Tail(todo) /\ todo # <<>>
        /\ UNCHANGED <<buf_line, cursor, start, pc>> /\ Head(todo) = todo[1]
    BY ScreenFacts, TailIs DEF Move, TypeInv, TypeOK, editor
  <1>1. IF Scrolls(todo[1])
        THEN /\ cells' = ScrolledUp
             /\ cur' = Size - Cols /\ scrolled' = (pc = "read")
        ELSE cur' = Target(todo[1]) /\ UNCHANGED <<cells, scrolled>>
    BY <1>0 DEF Move, ScrolledUp
  <1>2. ASSUME NEW q, todo[1] = At(q)
        PROVE  cur' = q /\ UNCHANGED <<cells, scrolled>>
    <2>1. todo[1][1] = "at" /\ todo[1][2] = q  BY <1>2, OpsApart
    <2> QED  BY <1>1, <2>1 DEF Scrolls, Target
  <1>3. ASSUME NEW c, todo[1] = Put(c)
        PROVE  \/ /\ cur' = cur + 1 /\ UNCHANGED <<cells, scrolled>>
               \/ /\ cur + 1 >= Size /\ cur' = Size - Cols
                  /\ cells' = ScrolledUp /\ scrolled' = (pc = "read")
    <2>1. todo[1][1] = "put"  BY <1>3, OpsApart
    <2> QED  BY <1>1, <2>1 DEF Scrolls, Target
  <1>4. ASSUME todo[1] = NewLine
        PROVE  \/ /\ cur' \in Nat /\ cur' >= cur + 1 /\ UNCHANGED <<cells, scrolled>>
               \/ /\ cur' = Size - Cols
                  /\ cells' = ScrolledUp /\ scrolled' = (pc = "read")
    <2>1. todo[1][1] = "newline"  BY <1>4, OpsApart
    <2>2. Target(todo[1]) = (cur \div Cols + 1) * Cols  BY <2>1 DEF Target
    <2>3. cur \in Nat /\ Cols \in Nat \ {0}  BY ScreenFacts
    <2>4. /\ (cur \div Cols + 1) * Cols >= cur + 1
          /\ (cur \div Cols + 1) * Cols \in Nat
      <3>1. cur = Cols * (cur \div Cols) + (cur % Cols) /\ cur % Cols \in 0 .. Cols - 1
            /\ cur \div Cols \in Nat
        BY ONLY <2>3
      <3> DEFINE k == cur \div Cols
      <3> HIDE DEF k
      <3>2. (k + 1) * Cols = Cols * k + Cols  BY <2>3, <3>1 DEF k
      <3> QED  BY <2>3, <3>1, <3>2 DEF k
    <2> QED  BY <1>1, <2>2, <2>4
  <1> QED  BY <1>0, <1>1, <1>2, <1>3, <1>4

(* A place at the bottom is blank after the screen has scrolled. *)
LEMMA BottomBlank ==
    ASSUME TypeInv, NEW p \in Grid, p >= Size - Cols,
           cells' = ScrolledUp
    PROVE  cells'[p] = Blank
  <1>1. ~(p + Cols \in Grid)  BY ScreenFacts
  <1> QED  BY <1>1 DEF ScrolledUp

LEMMA MoveRedrawing ==
    ASSUME TypeInv, pc = "read", Move,
           NEW d \in {0, 1}, NEW x \in Nat, NEW y \in Nat, Redrawing(d, x, y)
    PROVE  Editing'
  <1>0. /\ todo # <<>> /\ half /\ half' = FALSE /\ todo' = Tail(todo)
        /\ UNCHANGED <<buf_line, cursor, start, pc>>
    BY MoveIs
  <1>1. /\ start <= x /\ x <= y /\ y <= start + Len(buf_line) + 1
        /\ Draws(d + 1, x, y) /\ Shown(x, y)
    BY DEF Redrawing
  <1>2. \A p : Want(p)' = Want(p)  BY <1>0 DEF Want
  <1>3. /\ start \in Nat /\ cur \in Nat /\ Len(buf_line) \in Nat
        /\ Size \in Nat \ {0} /\ Cols \in Nat \ {0} /\ Size >= Cols
        /\ Grid = 0 .. Size - 1
    BY ScreenFacts
  <1>4. CASE d = 1
    <2>1. todo[1] = At(x)  BY <1>4 DEF Redrawing
    <2>2. cur' = x /\ UNCHANGED <<cells, scrolled>>  BY <2>1, MoveIs
    <2>3. Draws(1, x, y)'
      <3>1. d + 1 = 2 /\ 2 - 1 = 1 /\ 2 \in Nat  BY <1>4
      <3>2. Draws(2, x, y)  BY <1>1, <3>1
      <3> QED  BY <1>0, <1>1, <3>1, <3>2, DrawsRest
    <2>4. Shown(x, y)'  BY <1>0, <1>1, <1>2, <2>2 DEF Shown, Mine, Grid
    <2>5. 0 + 1 = 1  OBVIOUS
    <2>6. Redrawing(0, x, y)'
      BY <1>0, <1>1, <2>2, <2>3, <2>4, <2>5 DEF Redrawing
    <2> QED  BY <2>6 DEF Editing
  <1>5. CASE d = 0 /\ x = y
    <2>1. Draws(1, x, y) /\ 1 \in Nat
      <3>1. d + 1 = 1  BY <1>5
      <3> QED  BY <1>1, <3>1
    <2>2. todo' = <<>> /\ todo[1] = At(start + cursor)
      BY <1>0, <1>1, <1>5, <2>1, DrawsRest
    <2>3. cur' = start + cursor /\ UNCHANGED <<cells, scrolled>>
      BY <2>2, MoveIs
    <2>4. Shown(start, start)'
      <3>1. \A p \in Grid : ~(x <= p /\ p < y) /\ ~(start <= p /\ p < start)
        BY <1>3, <1>5
      <3> QED  BY <1>0, <1>1, <1>2, <2>3, <3>1 DEF Shown, Mine, Grid
    <2> QED  BY <1>0, <2>2, <2>3, <2>4 DEF Editing, AtRest
  <1>6. CASE d = 0 /\ x < y
    <2>0. Draws(1, x, y) /\ 1 \in Nat
      <3>1. d + 1 = 1  BY <1>6
      <3> QED  BY <1>1, <3>1
    <2>1. Draws(1, x + 1, y)' /\ 0 + 1 = 1
      BY <1>0, <1>1, <1>6, <2>0, DrawsRest
    <2>2. todo[1] = Put(Want(x))
      <3>1. 0 \in 0 .. y - x - 1 /\ 1 + 0 = 1 /\ x + 0 = x  BY <1>6
      <3> QED  BY <2>0, <3>1 DEF Draws
    <2>3. (scrolled => start + Len(buf_line) < Size) =>
            cur = x /\ (Mine(x) => cells[x] = Want(x))
      BY <1>0, <1>6 DEF Redrawing
    <2>4. start <= x + 1 /\ x + 1 <= y /\ x + 1 \in Nat  BY <1>1, <1>3, <1>6
    <2>5. CASE cur' = cur + 1 /\ UNCHANGED <<cells, scrolled>>
      <3>1. \A p : Mine(p)' = Mine(p)  BY <1>0, <2>5 DEF Mine
      <3>2. ASSUME NEW p \in Grid, Mine(p), ~(x + 1 <= p /\ p < y)
            PROVE  cells[p] = Want(p)
        <4>1. CASE p = x
          <5>1. scrolled => start + Len(buf_line) < Size
            BY <1>3, <3>2 DEF Mine
          <5> QED  BY <2>3, <3>2, <4>1, <5>1
        <4>2. CASE p # x
          <5>1. ~(x <= p /\ p < y)  BY <1>3, <3>2, <4>2
          <5> QED  BY <1>1, <3>2, <5>1 DEF Shown
        <4> QED  BY <4>1, <4>2
      <3>3. Shown(x + 1, y)'  BY <1>2, <2>5, <3>1, <3>2 DEF Shown, Grid
      <3>4. (scrolled' => start + Len(buf_line) < Size) => cur' = x + 1
        BY <2>3, <2>5
      <3>5. Redrawing(0, x + 1, y)'
        BY <1>0, <1>1, <2>1, <2>4, <3>3, <3>4 DEF Redrawing
      <3> QED  BY <2>4, <3>5 DEF Editing
    <2>6. CASE cur + 1 >= Size /\ cur' = Size - Cols /\ scrolled' = (pc = "read")
               /\ cells' = ScrolledUp
      <3>0. cells' = ScrolledUp /\ scrolled'  BY <2>6
      <3>1. CASE start + Len(buf_line) >= Size
        <4>1. \A p \in Grid : ~Mine(p)'  BY <1>0, <1>3, <3>0, <3>1 DEF Mine
        <4>2. Shown(x + 1, y)'  BY <4>1 DEF Shown, Grid
        <4>3. ~(scrolled' => start + Len(buf_line) < Size)  BY <1>3, <3>0, <3>1
        <4>4. Redrawing(0, x + 1, y)'
          BY <1>0, <1>1, <2>1, <2>4, <4>2, <4>3 DEF Redrawing
        <4> QED  BY <2>4, <4>4 DEF Editing
      <3>2. CASE start + Len(buf_line) < Size
        <4>1. cur = x  BY <2>3, <3>2
        <4>2. x = Size - 1 /\ start + Len(buf_line) = Size - 1 /\ y = x + 1
          BY <1>1, <1>3, <1>6, <2>6, <3>2, <4>1
        <4>3. ASSUME NEW p \in Grid, Mine(p)' PROVE cells'[p] = Want(p)
          <5>1. p = Size - 1 /\ p >= Size - Cols /\ p = start + Len(buf_line)
            BY <1>0, <1>3, <3>0, <4>2, <4>3 DEF Mine
          <5>2. cells'[p] = Blank  BY <3>0, <5>1, BottomBlank
          <5>3. Want(p) = Blank  BY <1>3, <5>1 DEF Want
          <5> QED  BY <5>2, <5>3
        <4>4. Shown(x + 1, y)'  BY <1>2, <4>3 DEF Shown, Grid
        <4>5. ~(x + 1 < y)  BY <1>3, <4>2
        <4>6. Redrawing(0, x + 1, y)'
          BY <1>0, <1>1, <2>1, <2>4, <4>4, <4>5 DEF Redrawing
        <4> QED  BY <2>4, <4>6 DEF Editing
      <3> QED  BY <1>3, <3>1, <3>2
    <2> QED  BY <2>2, <2>5, <2>6, MoveIs
  <1> QED  BY <1>1, <1>4, <1>5, <1>6

LEMMA MoveBlanking ==
    ASSUME TypeInv, pc = "read", Move,
           NEW d \in {0, 1}, NEW m \in Nat, Blanking(d, m)
    PROVE  Editing'
  <1>0. /\ todo # <<>> /\ half /\ half' = FALSE /\ todo' = Tail(todo)
        /\ UNCHANGED <<buf_line, cursor, start, pc>>
    BY MoveIs
  <1>1. /\ start \in Nat /\ cur \in Nat /\ Len(buf_line) \in Nat
        /\ Size \in Nat \ {0} /\ Cols \in Nat \ {0} /\ Size >= Cols
        /\ Grid = 0 .. Size - 1 /\ Len(todo) \in Nat
    BY ScreenFacts
  <1>2. PICK x \in Nat, y \in Nat : x = start /\ y = start + Len(buf_line) + 1
    <2>1. start + Len(buf_line) + 1 \in Nat  BY <1>1
    <2> QED  BY <1>1, <2>1
  <1>3. /\ Draws(d + m + 2, x, y) /\ todo[d + m + 1] = At(start)
        /\ \A j \in 1 .. m : todo[d + j] = Put(Blank)
        /\ \A p \in Grid : p >= start /\ ~(From(d) <= p /\ p < From(d) + m) =>
             cells[p] = Blank
    BY <1>2 DEF Blanking
  <1>4. /\ Draws(d + m + 1, x, y)'
        /\ Len(todo) = d + m + 2 + (y - start)
    <2>1. d + m + 2 > 1 /\ d + m + 2 \in Nat /\ (d + m + 2) - 1 = d + m + 1
      OBVIOUS
    <2>2. x <= y  BY <1>1, <1>2
    <2>3. Draws(d + m + 1, x, y)'
      BY <1>0, <1>1, <1>3, <1>2, <2>1, <2>2, DrawsRest
    <2> QED  BY <1>2, <1>3, <2>3 DEF Draws
  <1>5. \A j \in 1 .. d + m + 1 : todo'[j] = todo[j + 1]
    <2>1. \A j \in 1 .. Len(todo) - 1 : Tail(todo)[j] = todo[j + 1]
      BY <1>0, ScreenFacts, TailIs
    <2>2. d + m + 1 <= Len(todo) - 1  BY <1>1, <1>2, <1>4
    <2> QED  BY <1>0, <1>1, <2>1, <2>2
  <1>6. CASE d = 1
    <2>1. todo[1] = At(start)  BY <1>6 DEF Blanking
    <2>2. cur' = start /\ UNCHANGED <<cells, scrolled>>  BY <2>1, MoveIs
    <2>3. todo'[0 + m + 1] = At(start)
      <3>1. 0 + m + 1 \in 1 .. d + m + 1 /\ (0 + m + 1) + 1 = d + m + 1  BY <1>6
      <3> QED  BY <1>3, <1>5, <3>1
    <2>4. ASSUME NEW j \in 1 .. m PROVE todo'[0 + j] = Put(Blank)
      <3>1. 0 + j \in 1 .. d + m + 1 /\ (0 + j) + 1 = d + j  BY <1>6
      <3> QED  BY <1>3, <1>5, <3>1
    <2>5. Draws(0 + m + 2, x, y)'
      <3>1. 0 + m + 2 = d + m + 1  BY <1>6
      <3> QED  BY <1>4, <3>1
    <2>6. From(0)' = start /\ From(d) = start  BY <1>6, <2>2 DEF From
    <2>7. Draws(0 + m + 2, start, start + Len(buf_line) + 1)'
      BY <1>0, <1>2, <2>5 DEF Draws, Want
    <2>8. Blanking(0, m)'
      <3>1. \A p \in Grid : p >= start /\ ~(cur' <= p /\ p < cur' + m) =>
              cells'[p] = Blank
        BY <1>3, <2>2, <2>6
      <3>2. todo'[0 + m + 1] = At(start)'  BY <1>0, <2>3 DEF At
      <3>3. \A j \in 1 .. m : todo'[0 + j] = Put(Blank)'  BY <2>4 DEF Put
      <3>4. (0 = 1 => todo[1] = At(start))'  OBVIOUS
      <3>5. (todo[0 + m + 1] = At(start))'  BY <3>2
      <3>6. (\A j \in 1 .. m : todo[0 + j] = Put(Blank))'  BY <3>3
      <3>7. (\A p \in Grid : p >= start /\ ~(From(0) <= p /\ p < From(0) + m)
               => cells[p] = Blank)'
        BY <1>0, <3>1 DEF From, Grid
      <3>8. (0 = 0 /\ m > 0 /\ half /\ cur \in Grid => cells[cur] = Blank)'
        BY <1>0
      <3> QED  BY <2>7, <3>4, <3>5, <3>6, <3>7, <3>8 DEF Blanking
    <2> QED  BY <2>8 DEF Editing
  <1>7. CASE d = 0 /\ m = 0
    <2>1. todo[1] = At(start)
      <3>1. d + m + 1 = 1  BY <1>7
      <3> QED  BY <1>3, <3>1
    <2>2. cur' = start /\ UNCHANGED <<cells, scrolled>>  BY <2>1, MoveIs
    <2>3. Draws(0 + 1, x, y)'
      <3>1. 0 + 1 = d + m + 1  BY <1>7
      <3> QED  BY <1>4, <3>1
    <2>4. ASSUME NEW p \in Grid, p >= start, ~(start <= p /\ p < y)
          PROVE  cells'[p] = Want(p)'
      <3>1. p - start >= Len(buf_line)  BY <1>1, <1>2, <2>4
      <3>2. Want(p)' = Blank  BY <1>0, <1>1, <3>1 DEF Want
      <3>3. ~(From(d) <= p /\ p < From(d) + m)  BY <1>1, <1>7 DEF From
      <3>4. cells[p] = Blank  BY <1>3, <2>4, <3>3
      <3> QED  BY <2>2, <3>2, <3>4 DEF Blank
    <2>5. Shown(x, y)'  BY <1>0, <1>2, <2>4 DEF Shown, Mine, Grid
    <2>6. Redrawing(0, x, y)'
      <3>1. start <= x /\ x <= y /\ y <= start + Len(buf_line) + 1
        BY <1>1, <1>2
      <3> QED  BY <1>0, <1>1, <1>2, <2>2, <2>3, <2>5, <3>1 DEF Redrawing
    <2> QED  BY <1>1, <1>2, <2>6 DEF Editing
  <1>8. CASE d = 0 /\ m > 0
    <2>1. todo[1] = Put(Blank)
      <3>1. 1 \in 1 .. m /\ d + 1 = 1  BY <1>8
      <3> QED  BY <1>3, <3>1
    <2>2. todo'[0 + (m - 1) + 1] = At(start)
      <3>1. 0 + (m - 1) + 1 \in 1 .. d + m + 1 /\ (0 + (m - 1) + 1) + 1 = d + m + 1
        BY <1>8
      <3> QED  BY <1>3, <1>5, <3>1
    <2>3. ASSUME NEW j \in 1 .. m - 1 PROVE todo'[0 + j] = Put(Blank)
      <3>1. 0 + j \in 1 .. d + m + 1 /\ (0 + j) + 1 = d + (j + 1) /\ j + 1 \in 1 .. m
        BY <1>8
      <3> QED  BY <1>3, <1>5, <3>1
    <2>4. Draws(0 + (m - 1) + 2, x, y)'
      <3>1. 0 + (m - 1) + 2 = d + m + 1  BY <1>8
      <3> QED  BY <1>4, <3>1
    <2>5. cur \in Grid => cells[cur] = Blank  BY <1>0, <1>8 DEF Blanking
    <2>6. From(d) = cur /\ From(0)' = cur'  BY <1>8 DEF From
    <2>7. ASSUME NEW p \in Grid, p >= start, ~(cur < p /\ p < cur + m)
          PROVE  cells[p] = Blank
      <3>1. CASE p = cur  BY <2>5, <3>1
      <3>2. CASE p # cur
        <4>1. ~(cur <= p /\ p < cur + m)  BY <1>1, <2>7, <3>2
        <4> QED  BY <1>3, <2>6, <2>7, <4>1
      <3> QED  BY <3>1, <3>2
    <2>8. ASSUME NEW p \in Grid, p >= start, ~(cur' <= p /\ p < cur' + (m - 1))
          PROVE  cells'[p] = Blank
      <3>1. CASE cur' = cur + 1 /\ UNCHANGED cells
        <4>1. ~(cur < p /\ p < cur + m)  BY <1>1, <2>8, <3>1
        <4> QED  BY <2>7, <2>8, <3>1, <4>1
      <3>2. CASE cur + 1 >= Size /\ cells' = ScrolledUp
        <4>1. CASE p + Cols \in Grid
          <5>1. p + Cols >= start /\ ~(cur < p + Cols)  BY <1>1, <2>8, <3>2, <4>1
          <5>2. cells[p + Cols] = Blank  BY <2>7, <4>1, <5>1
          <5> QED  BY <3>2, <4>1, <5>2 DEF ScrolledUp
        <4>2. CASE ~(p + Cols \in Grid)
          BY <3>2, <4>2 DEF ScrolledUp
        <4> QED  BY <4>1, <4>2
      <3> QED  BY <2>1, <3>1, <3>2, MoveIs
    <2>9. m - 1 \in Nat  BY <1>8
    <2>10. Draws(0 + (m - 1) + 2, start, start + Len(buf_line) + 1)'
      BY <1>0, <1>2, <2>4 DEF Draws, Want
    <2>11. Blanking(0, m - 1)'
      <3>1. \A p \in Grid : p >= start /\ ~(cur' <= p /\ p < cur' + (m - 1)) =>
              cells'[p] = Blank
        BY <2>8
      <3>2. todo'[0 + (m - 1) + 1] = At(start)'  BY <1>0, <2>2 DEF At
      <3>3. \A j \in 1 .. m - 1 : todo'[0 + j] = Put(Blank)'  BY <2>3 DEF Put
      <3>4. (0 = 1 => todo[1] = At(start))'  OBVIOUS
      <3>5. (todo[0 + (m - 1) + 1] = At(start))'  BY <3>2
      <3>6. (\A j \in 1 .. m - 1 : todo[0 + j] = Put(Blank))'  BY <3>3
      <3>7. (\A p \in Grid : p >= start /\ ~(From(0) <= p /\ p < From(0) + (m - 1))
               => cells[p] = Blank)'
        BY <1>0, <3>1 DEF From, Grid
      <3>8. (0 = 0 /\ m - 1 > 0 /\ half /\ cur \in Grid => cells[cur] = Blank)'
        BY <1>0
      <3> QED  BY <2>10, <3>4, <3>5, <3>6, <3>7, <3>8 DEF Blanking
    <2> QED  BY <2>9, <2>11 DEF Editing
  <1> QED  BY <1>6, <1>7, <1>8

LEMMA MoveScreen ==
    ASSUME TypeInv, ScreenInv, Move
    PROVE  ScreenInv'
  <1>0. /\ todo # <<>> /\ half /\ half' = FALSE /\ todo' = Tail(todo)
        /\ UNCHANGED <<buf_line, cursor, start, pc>>
    BY MoveIs
  <1>1. CASE pc = "read"
    <2>1. Editing'
      BY <1>0, <1>1, MoveRedrawing, MoveBlanking DEF ScreenInv, Editing, AtRest
    <2> QED  BY <1>0, <1>1, <2>1 DEF ScreenInv, Between
  <1>2. CASE pc = "command"
    <2>1. CASE todo = <<NewLine>>
      <3>1. todo' = <<>> /\ todo[1] = NewLine  BY <1>0, <2>1
      <3>2. BlankFrom(cur)  BY <1>2, <2>1 DEF ScreenInv, Between
      <3>3. ASSUME NEW p \in Grid, p >= cur' PROVE cells'[p] = Blank
        <4>1. CASE cur' \in Nat /\ cur' >= cur + 1 /\ UNCHANGED cells
          <5>1. p >= cur  BY <3>3, <4>1, ScreenFacts
          <5> QED  BY <3>2, <4>1, <5>1 DEF BlankFrom
        <4>2. CASE cur' = Size - Cols /\ cells' = ScrolledUp
          BY <3>3, <4>2, BottomBlank
        <4> QED  BY <3>1, <4>1, <4>2, MoveIs
      <3>4. BlankFrom(cur)'  BY <3>3 DEF BlankFrom, Grid
      <3> QED  BY <1>0, <1>2, <3>1, <3>4 DEF ScreenInv, Between
    <2>2. CASE \E q \in Nat : todo = <<At(q), NewLine>>
      <3>1. PICK q \in Nat : todo = <<At(q), NewLine>>  BY <2>2
      <3>2. todo' = <<NewLine>> /\ todo[1] = At(q)  BY <1>0, <3>1
      <3>3. cur' = q /\ UNCHANGED cells  BY <3>2, MoveIs
      <3>4. BlankFrom(q)  BY <1>2, <3>1 DEF ScreenInv, Between
      <3>5. BlankFrom(cur)'  BY <3>3, <3>4 DEF BlankFrom, Grid
      <3>6. \A r \in Nat : todo' # <<At(r), NewLine>>  BY <3>2
      <3> QED  BY <1>0, <1>2, <3>5, <3>6 DEF ScreenInv, Between, At, NewLine
    <2> QED  BY <1>0, <1>2, <2>1, <2>2 DEF TypeInv, Outside
  <1>3. CASE pc = "prompt"
    <2>1. todo[1] = Put(Sign)  BY <1>0, <1>3 DEF TypeInv, Outside
    <2>2. \A p \in Grid : p >= cur /\ p # cur => cells[p] = Blank
      BY <1>0, <1>3 DEF ScreenInv, Between
    <2>3. ASSUME NEW p \in Grid, p >= cur' PROVE cells'[p] = Blank
      <3>1. CASE cur' = cur + 1 /\ UNCHANGED cells
        <4>1. p >= cur /\ p # cur  BY <2>3, <3>1, ScreenFacts
        <4> QED  BY <2>2, <3>1, <4>1
      <3>2. CASE cur' = Size - Cols /\ cells' = ScrolledUp
        BY <2>3, <3>2, BottomBlank
      <3> QED  BY <2>1, <3>1, <3>2, MoveIs
    <2> QED  BY <1>0, <1>3, <2>3 DEF ScreenInv, Between, Grid
  <1> QED  BY <1>1, <1>2, <1>3 DEF TypeInv, TypeOK

(* When the editor waits for a key the output is done. *)
LEMMA RestIs ==
    ASSUME TypeInv, ScreenInv, Ready
    PROVE  /\ half = FALSE /\ (~scrolled => cur = start + cursor)
           /\ \A p \in Grid : Mine(p) => cells[p] = Want(p)
           /\ BlankFrom(start + Len(buf_line))
  <1>0. pc = "read" /\ todo = <<>> /\ Len(todo) = 0 /\ half = FALSE
    BY DEF Ready, TypeInv, TypeOK
  <1>1. ASSUME NEW d \in {0, 1}, NEW x \in Nat, NEW y \in Nat, Redrawing(d, x, y)
        PROVE  FALSE
    <2>1. x <= y /\ Len(todo) = d + 1 + (y - x)  BY <1>1 DEF Redrawing, Draws
    <2> QED  BY <1>0, <2>1
  <1>2. ASSUME NEW d \in {0, 1}, NEW m \in Nat, Blanking(d, m) PROVE FALSE
    <2>1. Len(todo) = d + m + 2 + ((start + Len(buf_line) + 1) - start)
      BY <1>2 DEF Blanking, Draws
    <2> QED  BY <1>0, <2>1, ScreenFacts
  <1>3. AtRest  BY <1>0, <1>1, <1>2 DEF ScreenInv, Editing
  <1>4. ASSUME NEW p \in Grid, Mine(p) PROVE cells[p] = Want(p)
    <2>1. ~(start <= p /\ p < start)  BY <1>4, ScreenFacts DEF Mine
    <2> QED  BY <1>3, <1>4, <2>1 DEF AtRest, Shown
  <1>5. ASSUME NEW p \in Grid, p >= start + Len(buf_line) PROVE cells[p] = Blank
    <2>1. Mine(p) /\ Want(p) = Blank  BY <1>5, ScreenFacts DEF Mine, Want
    <2> QED  BY <1>4, <2>1
  <1> QED  BY <1>0, <1>3, <1>4, <1>5 DEF AtRest, BlankFrom

(* What the editor writes, operation by operation. *)
LEMMA PutsAre ==
    ASSUME NEW s \in Seq(Letters)
    PROVE  /\ Puts(s) \in Seq(Ops) /\ Len(Puts(s)) = Len(s)
           /\ \A k \in 1 .. Len(s) : Puts(s)[k] = Put(s[k])
  <1>1. Puts(s) \in Seq(Ops) /\ DOMAIN s = 1 .. Len(s)  BY OutputIs
  <1>2. DOMAIN Puts(s) = 1 .. Len(s)  BY <1>1 DEF Puts
  <1>3. Len(Puts(s)) = Len(s)
    <2>1. Len(s) \in Nat  OBVIOUS
    <2>2. DOMAIN Puts(s) = 1 .. Len(Puts(s)) /\ Len(Puts(s)) \in Nat  BY <1>1
    <2> QED  BY <1>2, <2>1, <2>2
  <1> QED  BY <1>1, <1>3 DEF Puts

LEMMA BlanksAre ==
    ASSUME NEW n \in Nat
    PROVE  /\ Blanks(n) \in Seq(Ops) /\ Len(Blanks(n)) = n
           /\ \A k \in 1 .. n : Blanks(n)[k] = Put(Blank)
  <1>1. Blanks(n) \in Seq(Ops)  BY OutputIs
  <1>2. DOMAIN Blanks(n) = 1 .. n  BY DEF Blanks
  <1>3. Len(Blanks(n)) = n
    <2>2. DOMAIN Blanks(n) = 1 .. Len(Blanks(n)) /\ Len(Blanks(n)) \in Nat  BY <1>1
    <2> QED  BY <1>2, <2>2
  <1> QED  BY <1>1, <1>3 DEF Blanks

LEMMA Framed ==
    ASSUME NEW a \in Ops, NEW s \in Seq(Ops), NEW t \in Seq(Ops)
    PROVE  /\ <<a>> \o s \o t \in Seq(Ops)
           /\ Len(<<a>> \o s \o t) = 1 + Len(s) + Len(t)
           /\ (<<a>> \o s \o t)[1] = a
           /\ \A k \in 1 .. Len(s) : (<<a>> \o s \o t)[1 + k] = s[k]
           /\ \A k \in 1 .. Len(t) : (<<a>> \o s \o t)[1 + Len(s) + k] = t[k]
  <1> DEFINE h == <<a>> \o s
  <1>1. /\ h \in Seq(Ops) /\ Len(h) = 1 + Len(s) /\ h[1] = a
        /\ \A k \in 1 .. Len(s) : h[1 + k] = s[k]
    OBVIOUS
  <1> HIDE DEF h
  <1>2. /\ h \o t \in Seq(Ops) /\ Len(h \o t) = Len(h) + Len(t)
        /\ \A k \in 1 .. Len(h) : (h \o t)[k] = h[k]
        /\ \A k \in 1 .. Len(t) : (h \o t)[Len(h) + k] = t[k]
    <2>1. h \in Seq(Ops)  BY <1>1
    <2> QED  BY <2>1, ConcatProperties
  <1>3. Len(s) \in Nat /\ Len(t) \in Nat  OBVIOUS
  <1>4. /\ Len(h \o t) = 1 + Len(s) + Len(t) /\ (h \o t)[1] = a
        /\ \A k \in 1 .. Len(s) : (h \o t)[1 + k] = s[k]
        /\ \A k \in 1 .. Len(t) : (h \o t)[1 + Len(s) + k] = t[k]
    <2> DEFINE w == h \o t
    <2> HIDE DEF w
    <2>1. 1 \in 1 .. Len(h) /\ \A k \in 1 .. Len(s) : 1 + k \in 1 .. Len(h)
      BY <1>1, <1>3
    <2> QED  BY <1>1, <1>2, <1>3, <2>1
  <1> QED  BY <1>2, <1>4 DEF h

LEMMA RedrawIs ==
    ASSUME TypeInv, NEW s \in Seq(Letters), NEW c \in Nat
    PROVE  /\ Redraw(s, c) \in Seq(Ops) /\ Len(Redraw(s, c)) = Len(s) + 3
           /\ Redraw(s, c)[1] = At(start)
           /\ \A j \in 0 .. Len(s) :
                Redraw(s, c)[2 + j] = Put(IF j < Len(s) THEN s[j + 1] ELSE Blank)
           /\ Redraw(s, c)[Len(s) + 3] = At(start + c)
  <1> DEFINE t == <<Put(Blank), At(start + c)>>
             R == <<At(start)>> \o Puts(s) \o t
  <1>1. At(start) \in Ops /\ At(start + c) \in Ops /\ Put(Blank) \in Ops
    <2>1. start \in Nat /\ start + c \in Nat  BY ScreenFacts
    <2> QED  BY <2>1, OutputIs DEF Chars
  <1>2. t \in Seq(Ops) /\ Len(t) = 2 /\ t[1] = Put(Blank) /\ t[2] = At(start + c)
    BY <1>1
  <1> HIDE DEF t
  <1>3. Len(s) \in Nat  OBVIOUS
  <1>4. /\ R \in Seq(Ops) /\ Len(R) = 1 + Len(s) + 2 /\ R[1] = At(start)
        /\ \A k \in 1 .. Len(s) : R[1 + k] = Put(s[k])
        /\ R[1 + Len(s) + 1] = Put(Blank) /\ R[1 + Len(s) + 2] = At(start + c)
    <2>1. /\ R \in Seq(Ops) /\ Len(R) = 1 + Len(Puts(s)) + Len(t) /\ R[1] = At(start)
          /\ \A k \in 1 .. Len(Puts(s)) : R[1 + k] = Puts(s)[k]
          /\ \A k \in 1 .. Len(t) : R[1 + Len(Puts(s)) + k] = t[k]
      <3> DEFINE b == Puts(s)
      <3>1. b \in Seq(Ops) /\ t \in Seq(Ops) /\ At(start) \in Ops
        BY <1>1, <1>2, PutsAre
      <3>2. R = <<At(start)>> \o b \o t  OBVIOUS
      <3> HIDE DEF b, R
      <3>3. /\ R \in Seq(Ops) /\ Len(R) = 1 + Len(b) + Len(t) /\ R[1] = At(start)
            /\ \A k \in 1 .. Len(b) : R[1 + k] = b[k]
            /\ \A k \in 1 .. Len(t) : R[1 + Len(b) + k] = t[k]
        BY ONLY <3>1, <3>2, Framed
      <3> QED  BY <3>3 DEF b
    <2> HIDE DEF R
    <2> QED  BY <1>2, <2>1, PutsAre
  <1>5. Redraw(s, c) = R  BY DEF Redraw, t
  <1> HIDE DEF R
  <1>6. ASSUME NEW j \in 0 .. Len(s)
        PROVE  R[2 + j] = Put(IF j < Len(s) THEN s[j + 1] ELSE Blank)
    <2>1. CASE j < Len(s)
      <3>1. j + 1 \in 1 .. Len(s) /\ 1 + (j + 1) = 2 + j  BY <1>3, <2>1
      <3> QED  BY <1>4, <2>1, <3>1
    <2>2. CASE ~(j < Len(s))
      <3>1. 2 + j = 1 + Len(s) + 1  BY <1>3, <2>2
      <3> QED  BY <1>4, <2>2, <3>1
    <2> QED  BY <2>1, <2>2
  <1>7. Len(s) + 3 = 1 + Len(s) + 2  BY <1>3
  <1> QED  BY <1>4, <1>5, <1>6, <1>7

LEMMA ReplaceIs ==
    ASSUME TypeInv, NEW s \in Seq(Letters)
    PROVE  /\ Len(Replace(s)) = 1 + Len(buf_line) + Len(s) + 3
           /\ Replace(s)[1] = At(start)
           /\ \A j \in 1 .. Len(buf_line) : Replace(s)[1 + j] = Put(Blank)
           /\ \A k \in 1 .. Len(s) + 3 :
                Replace(s)[1 + Len(buf_line) + k] = Redraw(s, Len(s))[k]
  <1>1. At(start) \in Ops /\ Len(buf_line) \in Nat /\ Len(s) \in Nat
    <2>1. start \in Nat /\ Len(buf_line) \in Nat  BY ScreenFacts
    <2>2. At(start) \in Ops  BY <2>1, OutputIs
    <2>3. Len(s) \in Nat  OBVIOUS
    <2> QED  BY <2>1, <2>2, <2>3
  <1> DEFINE R == <<At(start)>> \o Blanks(Len(buf_line)) \o Redraw(s, Len(s))
  <1>2. /\ Len(R) = 1 + Len(Blanks(Len(buf_line))) + Len(Redraw(s, Len(s)))
        /\ R[1] = At(start)
        /\ \A k \in 1 .. Len(Blanks(Len(buf_line))) :
             R[1 + k] = Blanks(Len(buf_line))[k]
        /\ \A k \in 1 .. Len(Redraw(s, Len(s))) :
             R[1 + Len(Blanks(Len(buf_line))) + k] = Redraw(s, Len(s))[k]
    <2> DEFINE b == Blanks(Len(buf_line))
               t == Redraw(s, Len(s))
    <2>1. b \in Seq(Ops) /\ t \in Seq(Ops)  BY <1>1, BlanksAre, RedrawIs
    <2>2. R = <<At(start)>> \o b \o t  OBVIOUS
    <2> HIDE DEF b, t, R
    <2>3. /\ Len(R) = 1 + Len(b) + Len(t) /\ R[1] = At(start)
          /\ \A k \in 1 .. Len(b) : R[1 + k] = b[k]
          /\ \A k \in 1 .. Len(t) : R[1 + Len(b) + k] = t[k]
      BY <1>1, <2>1, <2>2, Framed
    <2> QED  BY <2>3 DEF b, t
  <1>3. Replace(s) = R  BY DEF Replace
  <1> HIDE DEF R
  <1>4. Len(Blanks(Len(buf_line))) = Len(buf_line)  BY <1>1, BlanksAre
  <1>5. \A j \in 1 .. Len(buf_line) : Blanks(Len(buf_line))[j] = Put(Blank)
    BY <1>1, BlanksAre
  <1>6. Len(Redraw(s, Len(s))) = Len(s) + 3  BY <1>1, RedrawIs
  <1>7. Len(R) = 1 + Len(buf_line) + Len(s) + 3  BY <1>1, <1>2, <1>4, <1>6
  <1> QED  BY <1>2, <1>3, <1>4, <1>5, <1>6, <1>7

(* A key after which the output goes to x and draws from there to y, where all
   else is as it should be. *)
LEMMA KeyRedraws ==
    ASSUME TypeInv, ScreenInv, Ready, NEW s \in Lines, NEW c \in Nat, NEW h, NEW out,
           Becomes(s, c, h, out), NEW x \in Nat, NEW y \in Nat,
           start <= x, x <= y, y <= start + Len(s) + 1,
           Draws(2, x, y)', out[1] = At(x), Shown(x, y)'
    PROVE  ScreenInv'
  <1>1. /\ buf_line' = s /\ todo' = out /\ half = FALSE /\ pc = "read"
        /\ UNCHANGED <<start, pc>>
    BY DEF Becomes, Ready, TypeInv, TypeOK
  <1>2. Draws(1 + 1, x, y)'
    <2>1. 1 + 1 = 2  OBVIOUS
    <2> QED  BY <2>1
  <1>3. Redrawing(1, x, y)'
    <2>1. (start <= x /\ x <= y /\ y <= start + Len(buf_line) + 1)'  BY <1>1
    <2>2. (1 = 1 => todo[1] = At(x))'  BY <1>1 DEF At
    <2> QED  BY <1>2, <2>1, <2>2 DEF Redrawing
  <1> QED  BY <1>1, <1>3 DEF ScreenInv, Editing, Between

(* A key that only moves the cursor. *)
LEMMA KeyMoves ==
    ASSUME TypeInv, ScreenInv, Ready, NEW c \in Nat,
           Becomes(buf_line, c, hist_idx, <<At(start + c)>>)
    PROVE  ScreenInv'
  <1>1. /\ UNCHANGED <<cells, buf_line, start, pc, scrolled, half>> /\ cursor' = c
        /\ todo' = <<At(start + c)>> /\ pc = "read" /\ half = FALSE
    BY DEF Becomes, Ready, TypeInv, TypeOK
  <1>2. PICK x \in Nat : x = start  BY ScreenFacts
  <1>3. Draws(0 + 1, x, x)'
    <2>1. todo'[0 + 1 + (x - x)] = At(start + cursor)' /\ Len(todo') = 0 + 1 + (x - x)
      BY <1>1 DEF At
    <2>2. \A j \in 0 .. x - x - 1 : FALSE  OBVIOUS
    <2> QED  BY <2>1, <2>2 DEF Draws
  <1>4. Shown(x, x)'  BY <1>1, RestIs DEF Shown, Mine, Want, Grid
  <1>5. Redrawing(0, x, x)'
    <2>1. (start <= x /\ x <= x /\ x <= start + Len(buf_line) + 1)'
      BY <1>1, <1>2, ScreenFacts
    <2>2. (0 = 1 => todo[1] = At(x))' /\ ~(x < x)  OBVIOUS
    <2> QED  BY <1>3, <1>4, <2>1, <2>2 DEF Redrawing
  <1> QED  BY <1>1, <1>2, <1>5 DEF ScreenInv, Editing, Between

LEMMA InsertScreen ==
    ASSUME TypeInv, ScreenInv, NEW a \in Letters, Insert(a)
    PROVE  ScreenInv'
  <1> DEFINE s == InsertAt(buf_line, cursor + 1, a)
             u == SubSeq(s, cursor + 1, Len(s))
             out == <<At(start + cursor)>> \o Puts(u) \o <<At(start + cursor + 1)>>
  <1>1. Ready /\ Len(buf_line) < LINE_MAX - 1 /\ Becomes(s, cursor + 1, -1, out)
    BY DEF Insert
  <1>2. /\ buf_line \in Seq(Letters) /\ Len(buf_line) \in Nat
        /\ cursor \in 0 .. Len(buf_line) /\ start \in Nat /\ buf_line \in Lines
    BY ScreenFacts DEF TypeInv, TypeOK
  <1>3. /\ s \in Lines /\ Len(s) = Len(buf_line) + 1 /\ s \in Seq(Letters)
        /\ \A k \in 1 .. cursor : s[k] = buf_line[k]
    <2>1. cursor + 1 \in 1 .. Len(buf_line) + 1  BY <1>2
    <2>2. s \in Lines /\ Len(s) = Len(buf_line) + 1  BY <1>1, <1>2, <2>1, Edits
    <2>3. \A k \in 1 .. cursor : s[k] = buf_line[k]
      <3> DEFINE p == SubSeq(buf_line, 1, cursor)
                 q == SubSeq(buf_line, cursor + 1, Len(buf_line))
      <3>1. p \in Seq(Letters) /\ Len(p) = cursor
            /\ \A k \in 1 .. cursor : p[k] = buf_line[k]
        BY <1>2
      <3>2. q \in Seq(Letters)  BY <1>2
      <3>3. s = p \o <<a>> \o q
        <4>1. (cursor + 1) - 1 = cursor  BY <1>2
        <4> QED  BY <4>1 DEF InsertAt
      <3> HIDE DEF p, q, s
      <3>4. <<a>> \in Seq(Letters) /\ p \o <<a>> \in Seq(Letters)  BY <3>1
      <3>5. \A k \in 1 .. cursor : (p \o <<a>>)[k] = p[k] /\ k \in 1 .. Len(p \o <<a>>)
        BY <1>2, <3>1, <3>4, ConcatProperties
      <3>6. \A k \in 1 .. Len(p \o <<a>>) : s[k] = (p \o <<a>>)[k]
        BY <3>2, <3>3, <3>4, ConcatProperties
      <3> QED  BY <3>1, <3>5, <3>6
    <2> HIDE DEF s
    <2> QED  BY <2>2, <2>3, LinesAre
  <1> HIDE DEF s
  <1>4. /\ u \in Seq(Letters) /\ Len(u) = Len(s) - cursor
        /\ \A k \in 1 .. Len(s) - cursor : u[k] = s[cursor + k]
    BY <1>2, <1>3
  <1> HIDE DEF u
  <1>5. /\ Len(out) = 1 + Len(u) + 1 /\ out[1] = At(start + cursor)
        /\ \A k \in 1 .. Len(u) : out[1 + k] = Put(u[k])
        /\ out[1 + Len(u) + 1] = At(start + cursor + 1)
    <2> DEFINE b == Puts(u)
               t == <<At(start + cursor + 1)>>
    <2>1. At(start + cursor) \in Ops /\ At(start + cursor + 1) \in Ops
      <3>1. start + cursor \in Nat /\ start + cursor + 1 \in Nat  BY <1>2
      <3> QED  BY <3>1, OutputIs
    <2>2. t \in Seq(Ops) /\ Len(t) = 1 /\ t[1] = At(start + cursor + 1)  BY <2>1
    <2>3. b \in Seq(Ops) /\ t \in Seq(Ops) /\ At(start + cursor) \in Ops
      BY <1>4, <2>1, <2>2, PutsAre
    <2>4. out = <<At(start + cursor)>> \o b \o t  OBVIOUS
    <2> HIDE DEF b, t, out
    <2>5. /\ Len(out) = 1 + Len(b) + Len(t) /\ out[1] = At(start + cursor)
          /\ \A k \in 1 .. Len(b) : out[1 + k] = b[k]
          /\ \A k \in 1 .. Len(t) : out[1 + Len(b) + k] = t[k]
      BY ONLY <2>3, <2>4, Framed
    <2>6. Len(b) = Len(u) /\ \A k \in 1 .. Len(u) : b[k] = Put(u[k])
      BY <1>4, PutsAre DEF b
    <2> QED  BY <2>2, <2>5, <2>6
  <1> HIDE DEF out
  <1>6. /\ buf_line' = s /\ cursor' = cursor + 1 /\ todo' = out
        /\ UNCHANGED <<cells, start, scrolled>>
    BY <1>1 DEF Becomes
  <1>7. PICK x \in Nat, y \in Nat : x = start + cursor /\ y = start + Len(s)
    <2>1. start + cursor \in Nat /\ start + Len(s) \in Nat  BY <1>2, <1>3
    <2> QED  BY <2>1
  <1>8. start <= x /\ x <= y /\ y <= start + Len(s) + 1  BY <1>2, <1>3, <1>7
  <1>9. Draws(2, x, y)'
    <2>1. Len(todo') = 2 + (y - x)  BY <1>2, <1>3, <1>4, <1>5, <1>6, <1>7
    <2>2. todo'[2 + (y - x)] = At(start + cursor)'
      <3>1. 2 + (y - x) = 1 + Len(u) + 1  BY <1>2, <1>3, <1>4, <1>7
      <3>2. start' + cursor' = start + cursor + 1  BY <1>2, <1>6
      <3> QED  BY <1>5, <1>6, <3>1, <3>2 DEF At
    <2>3. ASSUME NEW j \in 0 .. y - x - 1
          PROVE  todo'[2 + j] = Put(Want(x + j))'
      <3>1. /\ j + 1 \in 1 .. Len(u) /\ 1 + (j + 1) = 2 + j
            /\ (x + j) - start = cursor + j /\ cursor + j < Len(s)
            /\ ((x + j) - start) + 1 = cursor + (j + 1)
        BY <1>2, <1>3, <1>4, <1>7
      <3>2. todo'[2 + j] = Put(u[j + 1])  BY <1>5, <1>6, <3>1
      <3>3. u[j + 1] = s[cursor + (j + 1)]  BY <1>4, <3>1
      <3>4. Want(x + j)' = s[((x + j) - start) + 1]  BY <1>6, <3>1 DEF Want
      <3> QED  BY <3>1, <3>2, <3>3, <3>4 DEF Put
    <2> QED  BY <2>1, <2>2, <2>3 DEF Draws
  <1>10. Shown(x, y)'
    <2>1. ASSUME NEW p \in Grid, Mine(p)', ~(x <= p /\ p < y)
          PROVE  cells'[p] = Want(p)'
      <3>0. p \in Nat  BY ScreenFacts
      <3>1. Mine(p) /\ p >= start  BY <1>2, <1>3, <1>6, <2>1, <3>0 DEF Mine
      <3>2. cells[p] = Want(p)  BY <1>1, <3>1, RestIs
      <3>3. CASE p < x
        <4>1. /\ p - start < Len(buf_line) /\ p - start < Len(s)
              /\ (p - start) + 1 \in 1 .. cursor
          BY <1>2, <1>3, <1>7, <3>0, <3>1, <3>3
        <4>2. Want(p) = buf_line[(p - start) + 1] /\ Want(p)' = s[(p - start) + 1]
          BY <1>6, <4>1 DEF Want
        <4> QED  BY <1>3, <1>6, <3>2, <4>1, <4>2
      <3>4. CASE p >= y
        <4>1. ~(p - start < Len(buf_line)) /\ ~(p - start < Len(s))
          BY <1>2, <1>3, <1>7, <3>0, <3>4
        <4>2. Want(p) = Blank /\ Want(p)' = Blank  BY <1>6, <4>1 DEF Want
        <4> QED  BY <1>6, <3>2, <4>2
      <3> QED  BY <2>1, <3>0, <3>3, <3>4
    <2> QED  BY <2>1 DEF Shown, Grid
  <1>11. out[1] = At(x) /\ cursor + 1 \in Nat  BY <1>2, <1>5, <1>7
  <1> QED  BY <1>1, <1>3, <1>8, <1>9, <1>10, <1>11, KeyRedraws

(* The output of redraw_line draws the line from its beginning. *)
LEMMA RedrawDraws ==
    ASSUME TypeInv, NEW s \in Seq(Letters), NEW c \in Nat, NEW k \in Nat,
           UNCHANGED start, buf_line' = s, cursor' = c,
           Len(todo') = k + Len(s) + 1,
           \A i \in 2 .. Len(s) + 3 : todo'[k + i - 2] = Redraw(s, c)[i],
           NEW x \in Nat, NEW y \in Nat, x = start, y = start + Len(s) + 1
    PROVE  Draws(k, x, y)'
  <1>1. start \in Nat /\ Len(s) \in Nat  BY ScreenFacts
  <1>2. y - x = Len(s) + 1  BY <1>1
  <1>3. Len(todo') = k + (y - x)  BY <1>1, <1>2
  <1>4. todo'[k + (y - x)] = At(start + cursor)'
    <2>1. Len(s) + 3 \in 2 .. Len(s) + 3 /\ k + (Len(s) + 3) - 2 = k + (y - x)
      BY <1>1, <1>2
    <2> QED  BY <2>1, RedrawIs DEF At
  <1>5. ASSUME NEW j \in 0 .. y - x - 1 PROVE todo'[k + j] = Put(Want(x + j))'
    <2>1. /\ 2 + j \in 2 .. Len(s) + 3 /\ k + (2 + j) - 2 = k + j /\ j \in 0 .. Len(s)
          /\ (x + j) - start = j
      BY <1>1, <1>2
    <2>2. todo'[k + j] = Redraw(s, c)[2 + j]  BY <2>1
    <2>3. Redraw(s, c)[2 + j] = Put(IF j < Len(s) THEN s[j + 1] ELSE Blank)
      BY <2>1, RedrawIs
    <2>4. Want(x + j)' = IF j < Len(s) THEN s[j + 1] ELSE Blank
      BY <2>1 DEF Want
    <2> QED  BY <2>2, <2>3, <2>4 DEF Put
  <1> QED  BY <1>3, <1>4, <1>5 DEF Draws

LEMMA BackspaceScreen ==
    ASSUME TypeInv, ScreenInv, Backspace
    PROVE  ScreenInv'
  <1>1. /\ buf_line \in Seq(Letters) /\ Len(buf_line) \in Nat
        /\ cursor \in 0 .. Len(buf_line) /\ start \in Nat /\ buf_line \in Lines
    BY ScreenFacts DEF TypeInv, TypeOK
  <1>2. CASE cursor > 0
    <2> DEFINE s == RemoveAt(buf_line, cursor)
               c == cursor - 1
    <2>1. Ready /\ Becomes(s, c, -1, Redraw(s, c))
      BY <1>2 DEF Backspace
    <2>2. s \in Lines /\ Len(s) = Len(buf_line) - 1  BY <1>1, <1>2, Edits
    <2>3. s \in Seq(Letters) /\ c \in Nat
      <3>1. c \in Nat  BY <1>1, <1>2
      <3> HIDE DEF s
      <3> QED  BY <2>2, <3>1, LinesAre
    <2> HIDE DEF s, c
    <2>4. /\ buf_line' = s /\ cursor' = c /\ todo' = Redraw(s, c)
          /\ UNCHANGED <<cells, start, scrolled>>
      BY <2>1 DEF Becomes
    <2>5. PICK x \in Nat, y \in Nat : x = start /\ y = start + Len(s) + 1
      <3>1. start + Len(s) + 1 \in Nat  BY <1>1, <2>3
      <3> QED  BY <1>1, <3>1
    <2>6. Draws(2, x, y)'
      <3>1. Len(todo') = 2 + Len(s) + 1  BY <2>3, <2>4, RedrawIs
      <3>2. \A i \in 2 .. Len(s) + 3 : 2 + i - 2 = i  BY <2>3
      <3>3. \A i \in 2 .. Len(s) + 3 : todo'[2 + i - 2] = Redraw(s, c)[i]
        BY <2>4, <3>2
      <3>4. 2 \in Nat  OBVIOUS
      <3> QED  BY <2>3, <2>4, <2>5, <3>1, <3>3, <3>4, RedrawDraws
    <2>7. Shown(x, y)'
      <3>1. ASSUME NEW p \in Grid, Mine(p)', ~(x <= p /\ p < y)
            PROVE  cells'[p] = Want(p)'
        <4>0. p \in Nat  BY ScreenFacts
        <4>1. p >= start + Len(buf_line) /\ ~(p - start < Len(s))
          BY <1>1, <2>2, <2>4, <2>5, <3>1, <4>0 DEF Mine
        <4>2. cells[p] = Blank  BY <2>1, <4>1, RestIs DEF BlankFrom
        <4>3. Want(p)' = Blank  BY <2>4, <4>1 DEF Want
        <4> QED  BY <2>4, <4>2, <4>3
      <3> QED  BY <3>1 DEF Shown, Grid
    <2>8. /\ Redraw(s, c)[1] = At(x) /\ start <= x /\ x <= y /\ y <= start + Len(s) + 1
      <3>1. Redraw(s, c)[1] = At(x)  BY <2>3, <2>5, RedrawIs
      <3> QED  BY <1>1, <2>3, <2>5, <3>1
    <2> QED  BY <2>1, <2>2, <2>3, <2>6, <2>7, <2>8, KeyRedraws
  <1>3. CASE ~(cursor > 0)
    <2>1. /\ Ready /\ UNCHANGED <<cells, cur, todo, half, buf_line, cursor, start, pc, scrolled>>
      BY <1>1, <1>3 DEF Backspace, Becomes
    <2>2. AtRest'
      BY <2>1, RestIs DEF Ready, AtRest, Shown, Mine, Want, Grid
    <2> QED  BY <2>1, <2>2 DEF ScreenInv, Editing, Between, Ready
  <1> QED  BY <1>2, <1>3

(* A line of the history in the place of the old one. *)
LEMMA ReplaceScreen ==
    ASSUME TypeInv, ScreenInv, Ready, NEW s \in Lines, NEW h,
           Becomes(s, Len(s), h, Replace(s))
    PROVE  ScreenInv'
  <1>1. /\ buf_line \in Seq(Letters) /\ Len(buf_line) \in Nat /\ start \in Nat
        /\ cursor \in 0 .. Len(buf_line) /\ s \in Seq(Letters) /\ Len(s) \in Nat
    BY ScreenFacts, LinesAre
  <1>2. /\ buf_line' = s /\ cursor' = Len(s) /\ todo' = Replace(s)
        /\ UNCHANGED <<cells, start, scrolled, pc, cur>> /\ pc = "read" /\ half = FALSE
        /\ half' = half
    BY DEF Becomes, Ready, TypeInv, TypeOK
  <1>3. PICK m \in Nat : m = Len(buf_line)  BY <1>1
  <1>4. PICK x \in Nat, y \in Nat : x = start /\ y = start + Len(s) + 1
    <2>1. start + Len(s) + 1 \in Nat  BY <1>1
    <2> QED  BY <1>1, <2>1
  <1>5. /\ Len(Replace(s)) = 1 + m + Len(s) + 3 /\ Replace(s)[1] = At(start)
        /\ \A j \in 1 .. m : Replace(s)[1 + j] = Put(Blank)
        /\ \A k \in 1 .. Len(s) + 3 : Replace(s)[1 + m + k] = Redraw(s, Len(s))[k]
    BY <1>1, <1>3, ReplaceIs
  <1>6. Draws(1 + m + 2, x, y)'
    <2>1. 1 + m + 2 \in Nat /\ Len(todo') = (1 + m + 2) + Len(s) + 1
      BY <1>1, <1>2, <1>5
    <2>2. ASSUME NEW i \in 2 .. Len(s) + 3
          PROVE  todo'[(1 + m + 2) + i - 2] = Redraw(s, Len(s))[i]
      <3>1. i \in 1 .. Len(s) + 3 /\ (1 + m + 2) + i - 2 = 1 + m + i  BY <1>1
      <3> QED  BY <1>2, <1>5, <3>1
    <2> QED  BY <1>1, <1>2, <1>4, <2>1, <2>2, RedrawDraws
  <1>7. Draws(1 + m + 2, start, start + Len(buf_line) + 1)'
    BY <1>2, <1>4, <1>6 DEF Draws, Want
  <1>8. (todo[1 + m + 1] = At(start))'
    <2>1. 1 \in 1 .. Len(s) + 3  BY <1>1
    <2>2. Redraw(s, Len(s))[1] = At(start)  BY <1>1, RedrawIs
    <2> QED  BY <1>2, <1>5, <2>1, <2>2 DEF At
  <1>9. (1 = 1 => todo[1] = At(start))'  BY <1>2, <1>5 DEF At
  <1>10. (\A j \in 1 .. m : todo[1 + j] = Put(Blank))'  BY <1>2, <1>5 DEF Put
  <1>11. (\A p \in Grid : p >= start /\ ~(From(1) <= p /\ p < From(1) + m)
            => cells[p] = Blank)'
    <2>1. ASSUME NEW p \in Grid, p >= start, ~(start <= p /\ p < start + m)
          PROVE  cells[p] = Blank
      <3>1. p >= start + Len(buf_line)  BY <1>1, <1>3, <2>1, ScreenFacts
      <3> QED  BY <3>1, RestIs DEF BlankFrom
    <2> QED  BY <1>2, <2>1 DEF From, Grid
  <1>12. (1 = 0 /\ m > 0 /\ half /\ cur \in Grid => cells[cur] = Blank)'  OBVIOUS
  <1>13. Blanking(1, m)'
    BY <1>7, <1>8, <1>9, <1>10, <1>11, <1>12 DEF Blanking
  <1> QED  BY <1>2, <1>13 DEF ScreenInv, Editing, Between

LEMMA ScreenInvHolds == Spec => []ScreenInv
  <1>1. Init => ScreenInv
    BY DEF Init, ScreenInv, Between, BlankFrom
  <1>2. TypeInv /\ ScreenInv /\ [Next]_vars => ScreenInv'
    <2> SUFFICES ASSUME TypeInv, ScreenInv, [Next]_vars PROVE ScreenInv'
      OBVIOUS
    <2>0. /\ buf_line \in Lines /\ Len(buf_line) \in Nat /\ start \in Nat
          /\ cursor \in 0 .. Len(buf_line) /\ cur \in Nat
          /\ hist_idx \in -1 .. history_count - 1
          /\ history_count \in 0 .. HISTORY_MAX
      BY ScreenFacts, Sizes DEF TypeInv, TypeOK
    <2>1. CASE Draw \/ Move  BY <2>1, DrawScreen, MoveScreen
    <2>2. CASE Blink \/ UNCHANGED vars
      <3>1. UNCHANGED <<cells, cur, todo, half, buf_line, cursor, start, pc, scrolled>>
        BY <2>2 DEF Blink, vars, screen, editor
      <3>2. \A p : Want(p)' = Want(p) /\ Mine(p)' = Mine(p)
        BY <3>1 DEF Want, Mine
      <3>3. \A x, y : Shown(x, y) => Shown(x, y)'
        BY <3>1, <3>2 DEF Shown, Grid
      <3>4. \A k, x, y : Draws(k, x, y) => Draws(k, x, y)'
        BY <3>1, <3>2 DEF Draws, At, Put
      <3>5. AtRest => AtRest'  BY <3>1, <3>3 DEF AtRest
      <3>6. ASSUME NEW d, NEW x, NEW y, Redrawing(d, x, y) PROVE Redrawing(d, x, y)'
        <4>1. Draws(d + 1, x, y)' /\ Shown(x, y)'  BY <3>3, <3>4, <3>6 DEF Redrawing
        <4> QED  BY <3>1, <3>2, <3>6, <4>1 DEF Redrawing, At
      <3>7. ASSUME NEW d, NEW m, Blanking(d, m) PROVE Blanking(d, m)'
        <4>1. Draws(d + m + 2, start, start + Len(buf_line) + 1)'
          BY <3>1, <3>4, <3>7 DEF Blanking
        <4>2. From(d)' = From(d)  BY <3>1 DEF From
        <4> QED  BY <3>1, <3>7, <4>1, <4>2 DEF Blanking, At, Put, Grid
      <3>8. Editing => Editing'  BY <3>5, <3>6, <3>7 DEF Editing
      <3> QED  BY <3>1, <3>8 DEF ScreenInv, Between, BlankFrom, Grid, At, NewLine
    <2>3. CASE \E c \in Letters : Insert(c)  BY <2>3, InsertScreen
    <2>4. CASE Backspace  BY <2>4, BackspaceScreen
    <2>5. CASE Left \/ Right
      <3>1. \E c \in Nat : Ready /\ Becomes(buf_line, c, hist_idx, <<At(start + c)>>)
        <4>1. CASE Left
          <5> DEFINE c == IF cursor > 0 THEN cursor - 1 ELSE cursor
          <5>1. c \in Nat  BY <2>0
          <5> QED  BY <4>1, <5>1 DEF Left
        <4>2. CASE Right
          <5> DEFINE c == IF cursor < Len(buf_line) THEN cursor + 1 ELSE cursor
          <5>1. c \in Nat  BY <2>0
          <5> QED  BY <4>2, <5>1 DEF Right
        <4> QED  BY <2>5, <4>1, <4>2
      <3> QED  BY <3>1, KeyMoves
    <2>6. CASE Up \/ Down
      <3>1. \E s \in Lines, h \in Int : Ready /\ Becomes(s, Len(s), h, Replace(s))
        <4>1. ASSUME NEW i \in 0 .. history_count - 1 PROVE HistoryGet(i) \in Lines
          <5>1. i \in 0 .. HISTORY_MAX - 1  BY <2>0, Sizes
          <5> QED  BY <5>1, HistoryGetIs DEF TypeInv
        <4>2. CASE Up
          <5>1. hist_idx + 1 \in 0 .. history_count - 1  BY <2>0, <4>2 DEF Up
          <5>2. HistoryGet(hist_idx + 1) \in Lines  BY <4>1, <5>1
          <5> QED  BY <4>2, <5>1, <5>2 DEF Up
        <4>3. CASE Down
          <5>1. CASE hist_idx > 0
            <6>1. hist_idx - 1 \in 0 .. history_count - 1  BY <2>0, <5>1
            <6>2. HistoryGet(hist_idx - 1) \in Lines  BY <4>1, <6>1
            <6> QED  BY <4>3, <5>1, <6>1, <6>2 DEF Down
          <5>2. CASE ~(hist_idx > 0)
            <6>1. Ready /\ Becomes(<<>>, 0, -1, Replace(<<>>))
              BY <4>3, <5>2 DEF Down
            <6> QED  BY <6>1, EmptyLine
          <5> QED  BY <5>1, <5>2
        <4> QED  BY <2>6, <4>2, <4>3
      <3> QED  BY <3>1, ReplaceScreen
    <2>7. CASE Enter
      <3>1. /\ Ready /\ pc' = "command" /\ UNCHANGED cells
            /\ todo' = <<At(start + Len(buf_line)), NewLine>>
        BY <2>7 DEF Enter
      <3>2. BlankFrom(start + Len(buf_line))  BY <3>1, RestIs
      <3>3. ASSUME NEW q \in Nat, todo' = <<At(q), NewLine>>
            PROVE  q = start + Len(buf_line)
        <4>1. At(q) = At(start + Len(buf_line))  BY <3>1, <3>3
        <4> QED  BY <4>1 DEF At
      <3>4. ASSUME NEW q \in Nat, todo' = <<At(q), NewLine>>
            PROVE  BlankFrom(q)'
        BY <3>1, <3>2, <3>3, <3>4 DEF BlankFrom, Grid
      <3>5. (\A q \in Nat : todo = <<At(q), NewLine>> => BlankFrom(q))'
        BY <3>4 DEF At, NewLine
      <3>6. todo' \notin {<<>>, <<NewLine>>}  BY <3>1
      <3> QED  BY <3>1, <3>5, <3>6 DEF ScreenInv, Between, NewLine
    <2>8. CASE \E clear \in BOOLEAN : Command(clear)
      <3>1. PICK clear \in BOOLEAN : Command(clear)  BY <2>8
      <3>2. /\ pc = "command" /\ todo = <<>> /\ pc' = "prompt" /\ half' = half
            /\ cells' = IF clear THEN [p \in Grid |-> Blank] ELSE cells
            /\ cur' = IF clear THEN 0 ELSE cur
        BY <3>1 DEF Command
      <3>3. BlankFrom(cur)  BY <3>2 DEF ScreenInv, Between
      <3>4. \A p \in Grid : p >= cur' => cells'[p] = Blank
        BY <3>2, <3>3 DEF BlankFrom
      <3> QED  BY <3>2, <3>4 DEF ScreenInv, Between, Grid
    <2>9. CASE Readline
      <3>1. /\ pc = "prompt" /\ todo = <<>> /\ pc' = "read" /\ buf_line' = <<>>
            /\ cursor' = 0 /\ start' = cur /\ UNCHANGED <<cells, cur, todo>>
        BY <2>9 DEF Readline
      <3>2. half = FALSE  BY <3>1 DEF TypeInv, TypeOK
      <3>3. ASSUME NEW p \in Grid, Mine(p)' PROVE cells'[p] = Want(p)'
        <4>1. p \in Nat /\ p >= cur  BY <3>1, <3>3, ScreenFacts DEF Mine
        <4>2. cells[p] = Blank  BY <3>1, <3>2, <4>1 DEF ScreenInv, Between
        <4>3. Want(p)' = Blank  BY <2>0, <3>1, <4>1 DEF Want
        <4> QED  BY <3>1, <4>2, <4>3
      <3>4. AtRest'
        <4>1. Shown(start, start)'  BY <3>3 DEF Shown, Grid
        <4>2. cur' = start' + cursor'  BY <2>0, <3>1
        <4> QED  BY <3>1, <4>1, <4>2 DEF AtRest
      <3> QED  BY <3>1, <3>4 DEF ScreenInv, Editing, Between
    <2> QED
      BY <2>1, <2>2, <2>3, <2>4, <2>5, <2>6, <2>7, <2>8, <2>9 DEF Next
  <1> QED  BY <1>1, <1>2, TypeInvHolds, PTL DEF Spec

(* On a screen of any size the editor waits for a key with the line on the
   screen, nothing behind it, and the position at its cursor, until the line
   has made the screen scroll (readline, redraw_line, set_cur). *)
THEOREM ScreenIsTheLine == Spec => []ScreenShowsLine
  <1>1. TypeInv /\ ScreenInv => ScreenShowsLine
    <2> SUFFICES ASSUME TypeInv, ScreenInv, Ready, ~scrolled
                 PROVE  /\ cur = start + cursor
                        /\ \A p \in start .. Size - 1 :
                             cells[p] = IF p - start < Len(buf_line)
                                        THEN buf_line[p - start + 1] ELSE Blank
      BY DEF ScreenShowsLine
    <2>1. ASSUME NEW p \in start .. Size - 1 PROVE cells[p] = Want(p)
      <3>1. p \in Grid /\ Mine(p)  BY ScreenFacts DEF Mine
      <3> QED  BY <3>1, RestIs
    <2> QED  BY <2>1, RestIs DEF Want
  <1> QED  BY <1>1, TypeInvHolds, ScreenInvHolds, PTL

=============================================================================
