----------------------------- MODULE LogMerge -----------------------------
(***************************************************************************)
(* resolve_conflict of src/resolve_09.py and the helpers it calls: keep    *)
(* HEAD's lines, merge each HEAD log line with the first branch log line   *)
(* whose .Msg("...") text matches it, then insert the branch's stand-alone *)
(* field lines that are not yet present before the first .Msg( line.       *)
(*                                                                         *)
(* A line is a record:                                                     *)
(*   blank    line.strip() == ''          empty    line == ''              *)
(*   log      'log.' in line              msgcall  '.Msg(' in line         *)
(*   msg      the text of .Msg("...") or NoMsg                             *)
(*   fields   the field calls .Str(..), .Int(..), ... in order             *)
(*   fline    the field call a line starts with (.Str(, .Int(, .Bool(),    *)
(*            or NoField                                                   *)
(* A message is its lowered text (a sequence of letters) and whether its   *)
(* first letter is a capital.                                              *)
(***************************************************************************)
EXTENDS ResolutionPolicy

CONSTANT PrefixLen   \* the 20 of b_msg.lower()[:20]

ASSUME PrefixLenAssumption == PrefixLen \in Nat

NoMsg   == [none |-> TRUE]
NoField == "none"

(* The lines and messages resolve_conflict handles.                        *)
Message == [word : Seq(STRING), cap : BOOLEAN] \cup {NoMsg}

LineRecord ==
  [blank : BOOLEAN, empty : BOOLEAN, log : BOOLEAN, msgcall : BOOLEAN,
   msg : Message, fields : Seq(STRING), fline : STRING]

(* Python truthiness of get_msg_content's result.                          *)
Truthy(m) == m # NoMsg /\ m.word # << >>

IsPrefixOf(p, w) == Len(p) <= Len(w) /\ SubSeq(w, 1, Len(p)) = p

Trunc(w) == IF Len(w) <= PrefixLen THEN w ELSE SubSeq(w, 1, PrefixLen)

FieldsOf(l) == {l.fields[i] : i \in DOMAIN l.fields}

(* Mutant: the new fields replace HEAD's.                                  *)
MergeLogLineReplace(h, b) ==
  LET new == SelectSeq(b.fields, LAMBDA f : f \notin FieldsOf(h))
  IN  IF new = << >> THEN h
      ELSE IF h.msgcall THEN [h EXCEPT !.fields = new]
      ELSE h

(***************************************************************************)
(* merge_log_line: the branch fields HEAD lacks go before .Msg(, and the   *)
(* branch's message replaces HEAD's: only on a case-only difference when   *)
(* there is no new field, whenever both messages are non-empty otherwise.  *)
(***************************************************************************)
MergeLogLine(h, b) ==
  LET new == SelectSeq(b.fields, LAMBDA f : f \notin FieldsOf(h))
  IN  IF new = << >>
        THEN IF Truthy(b.msg) /\ Truthy(h.msg) /\ b.msg.word = h.msg.word
               THEN [h EXCEPT !.msg = b.msg]
               ELSE h
      ELSE IF h.msgcall
        THEN [h EXCEPT !.fields = h.fields \o new,
                       !.msg = IF Truthy(b.msg) /\ Truthy(h.msg)
                                 THEN b.msg ELSE h.msg]
      ELSE h

(* The message test of the HEAD-line loop (lines 112-116).                 *)
MsgsMatch(hm, bm) ==
  /\ Truthy(hm) /\ Truthy(bm)
  /\ \/ hm.word = bm.word
     \/ IsPrefixOf(Trunc(bm.word), hm.word)
     \/ IsPrefixOf(Trunc(hm.word), bm.word)

(* One HEAD line of the first loop: a log line with .Msg( is merged with   *)
(* the first matching branch line, every other line is kept.               *)
MapHeadLine(hl, B) ==
  LET match(j) == B[j].msgcall /\ MsgsMatch(hl.msg, B[j].msg)
      hits     == {j \in 1 .. Len(B) : match(j)}
  IN  IF hl.log /\ hl.msgcall /\ hits # {}
        THEN MergeLogLine(hl, B[CHOOSE j \in hits : \A i \in hits : j <= i])
        ELSE hl

(***************************************************************************)
(* One branch line of the second loop.  A field line whose call no result  *)
(* line contains yet is inserted before the first .Msg( line, re-indented  *)
(* with h_line: the loop variable left over from the first loop, so the    *)
(* last HEAD line.  When that line is whitespace only, h_line.strip() is   *)
(* '' and replace('', field) writes the field call between every two       *)
(* characters of it: the inserted line holds the call at least twice.      *)
(***************************************************************************)
Reindent(hlast, bl) ==
  IF hlast.blank THEN [bl EXCEPT !.fields = <<bl.fline, bl.fline>>] ELSE bl

InsertFieldLine(R, bl, hlast) ==
  LET present == \E i \in 1 .. Len(R) : bl.fline \in FieldsOf(R[i])
      msgAt   == {i \in 1 .. Len(R) : R[i].msgcall}
      at      == CHOOSE i \in msgAt : \A j \in msgAt : i <= j
  IN  IF bl.fline = NoField \/ present \/ msgAt = {} THEN R
      ELSE SubSeq(R, 1, at - 1) \o << Reindent(hlast, bl) >> \o SubSeq(R, at, Len(R))

(* content.rstrip('\n').split('\n'): the lines up to the last non-empty.   *)
StripLines(s) ==
  LET ne == {i \in 1 .. Len(s) : ~s[i].empty}
  IN  IF ne = {} THEN << >>
      ELSE SubSeq(s, 1, CHOOSE i \in ne : \A j \in ne : j <= i)

HasLog(s) == \E i \in 1 .. Len(s) : s[i].log

(***************************************************************************)
(* resolve_conflict of resolve_09.py.  An empty side yields the other;     *)
(* without log lines on both sides HEAD is kept whole.                     *)
(***************************************************************************)
Resolve09(h, b) ==
  LET H == StripLines(h)
      B == StripLines(b)
      R == [i \in 1 .. Len(H) |-> MapHeadLine(H[i], B)]
      acc[n \in 0 .. Len(B)] ==
        IF n = 0 THEN R ELSE InsertFieldLine(acc[n - 1], B[n], H[Len(H)])
  IN  IF Blank(h) THEN b
      ELSE IF Blank(b) THEN h
      ELSE IF HasLog(H) /\ HasLog(B) THEN acc[Len(B)]
      ELSE h

-----------------------------------------------------------------------------
(* Constructors for the lines of model-checking instances.                 *)
Msg(w, c) == [word |-> w, cap |-> c]

Ln(bl, em, lg, mc, m, fs, fl) ==
  [blank |-> bl, empty |-> em, log |-> lg, msgcall |-> mc, msg |-> m,
   fields |-> fs, fline |-> fl]

LogLn(fs, m) == Ln(FALSE, FALSE, TRUE, TRUE, m, fs, NoField)

FieldLn(f) == Ln(FALSE, FALSE, FALSE, FALSE, NoMsg, <<f>>, f)

WsLn == Ln(TRUE, FALSE, FALSE, FALSE, NoMsg, << >>, NoField)

=============================================================================
