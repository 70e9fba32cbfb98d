---------------------------- MODULE TextChunker -----------------------------
(***************************************************************************)
(* TextChunker::chunk (semfs-core/src/indexer/chunker/text.rs): one pass   *)
(* over the lines of a file. A line is a heading (it begins with '#'),     *)
(* blank, or text. Lines are numbered from 1.                              *)
(***************************************************************************)
EXTENDS Chunks

CONSTANT MaxLines   \* bound: lines of a file

ASSUME TextAssumption == MaxLines \in Nat

VARIABLES lines,    \* the content
          at,       \* the line to be read next
          text,     \* current_text: the lines in it
          start,    \* current_start
          section,  \* current_section_idx
          spans     \* start_line and end_line of each chunk

textVars == <<lines, at, text, start, section, spans>>

Line == {"heading", "blank", "text"}

TextTypeOK ==
  /\ lines \in Seq(Line) /\ Len(lines) <= MaxLines
  /\ at \in 1..(MaxLines + 1) /\ start \in 1..(MaxLines + 1)
  /\ text \subseteq 1..Len(lines)
  /\ section \in 0..Len(chunks)

NoText == lines = << >> /\ at = 1 /\ text = {} /\ start = 1 /\ section = 0 /\ spans = << >>

BeginText ==
  /\ \E c \in BoundedSeq(Line, MaxLines) :
       lines' = c /\ phase' = IF c = << >> THEN "done" ELSE "lines"
  /\ UNCHANGED <<chunks, at, text, start, section, spans>>

-----------------------------------------------------------------------------
\* The lines of current_text.trim(): only leading lines of it can be blank.
Ink == {i \in text : lines[i] = "text"}

\* Mutated form: a paragraph's parent is the chunk before it.
FlushedUnderPrevious ==
  IF Ink = {} THEN chunks ELSE Append(chunks, ChunkData("Paragraph", Ink, Len(chunks)))

\* Flush current_text, if there is anything in it, as a paragraph.
Flushed ==
  IF Ink = {} THEN chunks ELSE Append(chunks, ChunkData("Paragraph", Ink, section))
FlushedSpans ==
  IF Ink = {} THEN spans ELSE Append(spans, <<start, at - 1>>)

Heading ==
  /\ lines[at] = "heading"
  /\ chunks' = Append(Flushed, ChunkData("Section", {at}, 0))
  /\ spans' = Append(FlushedSpans, <<at, at>>)
  /\ section' = Len(Flushed) + 1
  /\ text' = {} /\ start' = at + 1

ParagraphBreak ==
  /\ lines[at] = "blank" /\ Ink # {}
  /\ chunks' = Flushed /\ spans' = FlushedSpans
  /\ text' = {} /\ start' = at + 1
  /\ UNCHANGED section

\* A blank line before the first line of a paragraph is appended as well.
AppendLine ==
  /\ \/ lines[at] = "text"
     \/ lines[at] = "blank" /\ Ink = {}
  /\ text' = text \cup {at}
  /\ UNCHANGED <<chunks, spans, start, section>>

ReadLine ==
  /\ phase = "lines" /\ at <= Len(lines)
  /\ Heading \/ ParagraphBreak \/ AppendLine
  /\ at' = at + 1
  /\ UNCHANGED <<phase, lines>>

\* The rest is flushed; a file without any chunk is one chunk.
EndOfText ==
  /\ phase = "lines" /\ at > Len(lines) /\ phase' = "done"
  /\ chunks' = IF Flushed = << >> THEN <<ChunkData("File", Ink, 0)>> ELSE Flushed
  /\ spans' = IF Flushed = << >> THEN <<(<<1, Len(lines)>>)>> ELSE FlushedSpans
  /\ UNCHANGED <<lines, at, text, start, section>>

TextStep == ReadLine \/ EndOfText

-----------------------------------------------------------------------------
TextDone == phase = "done" /\ lines # << >>

\* The maximal runs of text lines, which is what a reader calls a paragraph.
Runs ==
  {r \in SUBSET {i \in 1..Len(lines) : lines[i] = "text"} :
     /\ r # {} /\ r = Min(r)..Max(r)
     /\ ~\E i \in {Min(r) - 1, Max(r) + 1} : i \in 1..Len(lines) /\ lines[i] = "text"}
Headings == {{i} : i \in {j \in 1..Len(lines) : lines[j] = "heading"}}

(* The chunks are the headings and the paragraphs, each once and in their  *)
(* order, so every line with text reaches the index exactly once and a     *)
(* paragraph is never cut or joined to another; a paragraph belongs to the *)
(* last heading above it; the line ranges contain their text and do not    *)
(* overlap (text.rs:34-119).                                               *)
ChunksAreParagraphs ==
  TextDone =>
    LET parts == Runs \cup Headings
        above(i) == {j \in 1..(i - 1) : chunks[j].type = "Section"}
    IN  /\ IF parts = {} THEN Len(chunks) = 1 /\ chunks[1].content = {}
           ELSE {chunks[i].content : i \in 1..Len(chunks)} = parts
        /\ \A i \in 2..Len(chunks) : Max(chunks[i - 1].content) < Min(chunks[i].content)
        /\ \A i \in 1..Len(chunks) :
             /\ chunks[i].parent =
                  IF chunks[i].type # "Paragraph" \/ above(i) = {} THEN 0 ELSE Max(above(i))
             /\ chunks[i].content \subseteq spans[i][1]..spans[i][2]
             /\ spans[i][2] <= Len(lines)
             /\ i > 1 => spans[i - 1][2] < spans[i][1]
=============================================================================
