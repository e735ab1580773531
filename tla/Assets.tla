------------------------------- MODULE Assets -------------------------------
(***************************************************************************)
(* The static files of server.c: loaded into one allocation at start-up,   *)
(* translated into every language in a second one, searched for the marks  *)
(* of the uptime and the version, and served with the marks overwritten.   *)
(*                                                                         *)
(* Memory is a sequence of bytes and an address an offset into it.  The    *)
(* files lie end to end, so that a read past the end of one sees the next; *)
(* past the end of the memory the byte is Unknown.  Keys are @name@, as    *)
(* tools/translations.py writes them.                                      *)
(***************************************************************************)
EXTENDS Integers, Sequences, SequencesExt

CONSTANTS
  Langs,         \* 1..lang_COUNT
  translations,  \* for each language, its sequence of key and value
  Pages,         \* what the first file may consist of, piece by piece
  Others,        \* the same for the second file
  Tail_,         \* the bytes with which every file ends
  REPLACE_SIZE,  \* bytes of a mark
  UPTIME_CH,     \* the byte the mark of the uptime consists of
  VERSION_CH     \* and that of the version

ASSUME AssetsConstants ==
  /\ translations \in Seq(Seq([key : Seq(STRING), value : Seq(STRING)]))
  /\ Langs = 1..Len(translations) /\ Langs # {}
  /\ Pages \cup Others \subseteq Seq(Seq(STRING))
  /\ REPLACE_SIZE \in Nat \ {0}

(* Keys are @name@, without @ in the name, each one once, and every language *)
(* has them in the same order.                                              *)
Keys == {translations[1][e].key : e \in DOMAIN translations[1]}

ASSUME KeysConstant ==
  /\ \A i \in Langs : /\ Len(translations[i]) = Len(translations[1])
                      /\ \A e \in DOMAIN translations[1] :
                           translations[i][e].key = translations[1][e].key
  /\ \A e, f \in DOMAIN translations[1] :
       translations[1][e].key = translations[1][f].key => e = f
  /\ \A key \in Keys :
       /\ Len(key) >= 2
       /\ \A k \in DOMAIN key : key[k] = "@" <=> k \in {1, Len(key)}

(* The files end with a newline, a semicolon or the last byte of a PNG, and *)
(* no key contains one of these.                                            *)
ASSUME TailConstant ==
  /\ Tail_ \in Seq(STRING) /\ Tail_ # <<>>
  /\ \A i \in Langs : \A e \in DOMAIN translations[i] :
       \A k \in DOMAIN translations[i][e].key :
         translations[i][e].key[k] # Tail_[Len(Tail_)]

VARIABLES
  pc,              \* the next stage of start-up, "serving" or "failed"
  at,              \* the language and the file to translate next
  files,           \* the pieces of each file on disk
  assets_memory,   \* the files as they were read
  assets,          \* for each language and file: which memory, where, size
  allocated,       \* size of the translated memory
  translated,      \* what was written into it
  data_ptr,        \* where the next file goes
  marks            \* for each language: where its page has the two marks

vars == <<pc, at, files, assets_memory, assets, allocated, translated,
          data_ptr, marks>>

Files == 1..2
Unknown == "?"
Byte(m, p) == IF p < Len(m) THEN m[p + 1] ELSE Unknown
Bytes(m, p, n) == [k \in 1..n |-> Byte(m, p + k - 1)]

(* A file is cut at its keys: no key begins inside a text, or in the tail.  *)
(* Any file can be cut so, a key at a time.                                 *)
ASSUME PiecesConstant ==
  \A f \in Pages \cup Others :
    LET g == Append(f, Tail_)
        start(k) == Len(FlattenSeq(SubSeq(g, 1, k - 1)))
    IN  \A k \in DOMAIN g :
          /\ g[k] # <<>>
          /\ g[k] \notin Keys =>
               \A o \in 0..(Len(g[k]) - 1) : \A key \in Keys :
                 Bytes(FlattenSeq(g), start(k) + o, Len(key)) # key

(* The disk: pieces are texts or keys, each a sequence of bytes. *)
Content(j) == FlattenSeq(files[j]) \o Tail_

-----------------------------------------------------------------------------
(* The entry whose key memcmp finds at p: the first one, 0 if none. *)
Match(m, p, entries) ==
  LET found == {e \in DOMAIN entries :
                  Bytes(m, p, Len(entries[e].key)) = entries[e].key}
  IN  IF Byte(m, p) # "@" \/ found = {} THEN 0
      ELSE CHOOSE e \in found : \A f \in found : e <= f

(* How far the loops go on from p: one byte, or a key and the byte after.   *)
After(p, e, entries) == IF e = 0 THEN p + 1 ELSE p + Len(entries[e].key) + 1

(* The size after translation; translate_file returns the same. *)
get_translated_file_size(m, a, entries) ==
  LET end == a.data + a.size
      grown[p \in 0..end] ==
        IF p >= end THEN 0
        ELSE LET e == Match(m, p, entries)
             IN  (IF e = 0 THEN 0
                  ELSE Len(entries[e].value) - Len(entries[e].key))
                 + grown[After(p, e, entries)]
  IN  a.size + grown[a.data]

(* Variant: the byte after a key is lost. *)
translate_file_Drops(m, a, entries) ==
  LET end == a.data + a.size
      out[p \in 0..end] ==
        IF p >= end THEN <<>>
        ELSE LET e == Match(m, p, entries)
             IN  (IF e = 0 THEN <<Byte(m, p)>> ELSE entries[e].value)
                 \o out[After(p, e, entries)]
  IN  out[a.data]

(* What is written: after a value the next byte is copied unexamined. *)
translate_file(m, a, entries) ==
  LET end == a.data + a.size
      out[p \in 0..end] ==
        IF p >= end THEN <<>>
        ELSE LET e == Match(m, p, entries)
             IN  (IF e = 0 THEN <<Byte(m, p)>>
                  ELSE Append(entries[e].value,
                              Byte(m, p + Len(entries[e].key))))
                 \o out[After(p, e, entries)]
  IN  out[a.data]

(* all16_eq_byte: a whole mark of ch at p, with remaining bytes to look at. *)
all16_eq_byte(m, p, remaining, ch) ==
  /\ remaining >= REPLACE_SIZE
  /\ \A k \in 0..(REPLACE_SIZE - 1) : Byte(m, p + k) = ch

None == -1
Least(S) == IF S = {} THEN None ELSE CHOOSE p \in S : \A q \in S : p <= q

find_16_scalar(m, a, ch) ==
  Least({p \in a.data..(a.data + a.size - REPLACE_SIZE) :
           all16_eq_byte(m, p, a.data + a.size - p, ch)})

(* Variant: a mark may not cross the end of a chunk. *)
find_16_Chunked(m, a, ch) ==
  LET end == a.data + a.size
      chunk == 2 * REPLACE_SIZE
      from[data \in 0..(end + chunk)] ==
        IF end - data < chunk
        THEN find_16_scalar(m, [data |-> data, size |-> end - data], ch)
        ELSE LET hits == {p \in data..(data + chunk - 1) :
                            all16_eq_byte(m, p, data + chunk - p, ch)}
             IN  IF hits # {} THEN Least(hits) ELSE from[data + chunk]
  IN  from[a.data]

(* Chunks of two marks are compared at once, the rest byte by byte. *)
find_16(m, a, ch) ==
  LET end == a.data + a.size
      chunk == 2 * REPLACE_SIZE
      from[data \in 0..(end + chunk)] ==
        IF end - data < chunk
        THEN find_16_scalar(m, [data |-> data, size |-> end - data], ch)
        ELSE LET hits == {p \in data..(data + chunk - 1) :
                            /\ Byte(m, p) = ch
                            /\ all16_eq_byte(m, p, end - p, ch)}
             IN  IF hits # {} THEN Least(hits) ELSE from[data + chunk]
  IN  from[a.data]

-----------------------------------------------------------------------------
NoAsset == [in |-> "none", data |-> 0, size |-> 0]

Init ==
  /\ pc = "load"
  /\ at = <<1, 1>>
  /\ files \in {<<f, g>> : f \in Pages, g \in Others}
  /\ assets_memory = <<>>
  /\ assets = [i \in Langs |-> [j \in Files |-> NoAsset]]
  /\ allocated = 0
  /\ translated = <<>>
  /\ data_ptr = 0
  /\ marks = [i \in Langs |-> [uptime |-> None, version |-> None]]

(* A file that is missing, irregular, empty or shorter than it was, or a    *)
(* lack of memory: the server does not start.                               *)
load_fails ==
  /\ pc \in {"load", "translate"}
  /\ pc' = "failed"
  /\ UNCHANGED <<at, files, assets_memory, assets, allocated, translated,
                 data_ptr, marks>>

(* The files are read one behind the other and become the first language's. *)
assets_load ==
  /\ pc = "load"
  /\ assets_memory' = Content(1) \o Content(2)
  /\ assets' = [assets EXCEPT ![1] =
       <<[in |-> "read", data |-> 0, size |-> Len(Content(1))],
         [in |-> "read", data |-> Len(Content(1)), size |-> Len(Content(2))]>>]
  /\ pc' = "copy"
  /\ UNCHANGED <<at, files, allocated, translated, data_ptr, marks>>

(* The other languages begin with the same files. *)
copy_assets ==
  /\ pc = "copy"
  /\ assets' = [i \in Langs |-> assets[1]]
  /\ pc' = "translate"
  /\ UNCHANGED <<at, files, assets_memory, allocated, translated, data_ptr,
                 marks>>

(* What the first i languages take, measured on the first one's files. *)
Measured(m, first) ==
  LET size(i, j) == get_translated_file_size(m, first[j], translations[i])
      sum[i \in 0..Len(translations)] ==
        IF i = 0 THEN 0 ELSE sum[i - 1] + size(i, 1) + size(i, 2)
  IN  sum

(* The sizes are added up and as much is allocated. *)
measure ==
  /\ pc = "translate"
  /\ allocated' = Measured(assets_memory, assets[1])[Len(translations)]
  /\ pc' = "translating"
  /\ UNCHANGED <<at, files, assets_memory, assets, translated, data_ptr,
                 marks>>

(* Variant: every language is translated from the first one's file. *)
Source_First(i, j) == assets[1][j]

(* Where the text to translate is read. *)
Source(i, j) == assets[i][j]

(* The size recorded is computed like the one that was allocated; what is   *)
(* written may be more, and the next file then overwrites it.  After the    *)
(* last file the memory of the files as they were read is freed.            *)
translate(i, j) ==
  LET from == Source(i, j)
      m == IF from.in = "read" THEN assets_memory ELSE translated
      size == get_translated_file_size(m, from, translations[i])
      last == <<i, j>> = <<Len(translations), 2>>
  IN  /\ pc = "translating" /\ at = <<i, j>>
      /\ translated' = Bytes(translated, 0, data_ptr)
                         \o translate_file(m, from, translations[i])
      /\ assets' = [assets EXCEPT ![i][j] =
           [in |-> "translated", data |-> data_ptr, size |-> size]]
      /\ data_ptr' = data_ptr + size
      /\ at' = IF j = 1 THEN <<i, 2>> ELSE <<i + 1, 1>>
      /\ pc' = IF last THEN "marks" ELSE "translating"
      /\ assets_memory' = IF last THEN <<>> ELSE assets_memory
      /\ UNCHANGED <<files, allocated, marks>>

(* A page without one of its marks is an error. *)
find_marks ==
  LET found == [i \in Langs |->
        [uptime |-> find_16(translated, assets[i][1], UPTIME_CH),
         version |-> find_16(translated, assets[i][1], VERSION_CH)]]
  IN  /\ pc = "marks"
      /\ marks' = found
      /\ pc' = IF \E i \in Langs : None \in {found[i].uptime, found[i].version}
               THEN "failed" ELSE "serving"
      /\ UNCHANGED <<at, files, assets_memory, assets, allocated, translated,
                     data_ptr>>

MarkBytes(i) ==
  UNION {m..(m + REPLACE_SIZE - 1) : m \in {marks[i].uptime, marks[i].version}}

(* GET /: both marks are overwritten in the page that is sent, which other  *)
(* clients may still be receiving.                                          *)
serve_root(i) ==
  /\ pc = "serving"
  /\ translated' = [p \in 1..Len(translated) |->
                      IF p - 1 \in MarkBytes(i) THEN "#" ELSE translated[p]]
  /\ UNCHANGED <<pc, at, files, assets_memory, assets, allocated, data_ptr,
                 marks>>

Stopped == pc = "failed" /\ UNCHANGED vars

Next ==
  \/ load_fails \/ assets_load \/ copy_assets \/ measure
  \/ \E i \in Langs, j \in Files : translate(i, j)
  \/ find_marks \/ Stopped
  \/ \E i \in Langs : serve_root(i)

Spec == Init /\ [][Next]_vars

-----------------------------------------------------------------------------
(***************************************************************************)
(* The two passes over the files agree: nothing is written outside the     *)
(* memory that the first pass measured, it is filled to the last byte, and *)
(* no language keeps a file in the memory that was freed.                  *)
(***************************************************************************)
InBounds ==
  /\ pc \notin {"load", "copy", "translate", "failed"} =>
       Len(translated) <= allocated
  /\ pc = "serving" =>
       /\ data_ptr = allocated
       /\ \A i \in Langs, j \in Files :
            /\ assets[i][j].in = "translated"
            /\ assets[i][j].data + assets[i][j].size <= Len(translated)

(* Two keys next to each other: the second is taken for text. *)
Adjacent(j) ==
  \E k \in 1..(Len(files[j]) - 1) :
    {files[j][k], files[j][k + 1]} \subseteq Keys

Value(i, piece) ==
  LET found == {e \in DOMAIN translations[i] :
                  translations[i][e].key = piece}
  IN  IF found = {} THEN piece
      ELSE translations[i][CHOOSE e \in found : TRUE].value

(***************************************************************************)
(* Every language serves each file with each of its keys replaced by that  *)
(* language's text and everything else as it was, also after the marks of  *)
(* any page were overwritten any number of times; except that a key right  *)
(* behind another is not seen, which the files avoid.                      *)
(***************************************************************************)
Translated ==
  pc = "serving" =>
    \A i \in Langs, j \in Files :
      ~Adjacent(j) =>
        LET want == FlattenSeq([k \in DOMAIN files[j] |->
                                  Value(i, files[j][k])]) \o Tail_
            a == assets[i][j]
        IN  /\ a.size = Len(want)
            /\ \A p \in 0..(a.size - 1) :
                 a.data + p \in MarkBytes(i) \/ Byte(translated, a.data + p)
                                                = want[p + 1]

(***************************************************************************)
(* The search in chunks finds the first whole mark of the page, wherever   *)
(* it lies with respect to the chunks, and nothing outside the page: the   *)
(* bytes that every GET / overwrites are the mark's.                       *)
(***************************************************************************)
MarksFound ==
  pc = "marks" =>
    \A i \in Langs : \A ch \in {UPTIME_CH, VERSION_CH} :
      LET a == assets[i][1]
          whole == {p \in a.data..(a.data + a.size - 1) :
                      /\ p + REPLACE_SIZE <= a.data + a.size
                      /\ \A k \in 0..(REPLACE_SIZE - 1) :
                           Byte(translated, p + k) = ch}
      IN  find_16(translated, a, ch) = Least(whole)
=============================================================================
