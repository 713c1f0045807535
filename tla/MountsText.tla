----------------------------- MODULE MountsText -----------------------------
(***************************************************************************)
(* The text of /proc/mounts, as far as a mount point goes through it: how  *)
(* the kernel writes one, and what `parse_mounts` and `decode_octal`       *)
(* (core/src/sysfs.rs) read.  A text is a sequence of characters, and a    *)
(* character its Unicode code point, or NotUtf8 for a byte that is not     *)
(* part of any.                                                            *)
(***************************************************************************)
EXTENDS Integers, Sequences

NotUtf8 == -1
Slash == 47
Backslash == 92
Zero == 48

\* A mount point is an absolute path.
IsPath(s) == s \in Seq(Int) /\ s # <<>> /\ s[1] = Slash

-----------------------------------------------------------------------------
(* The kernel's side. *)

\* The characters that would break a line of /proc/mounts into other fields.
Escaped == {9, 10, 32, Backslash}

Octal(c) == <<Backslash, Zero + (c \div 64), Zero + ((c \div 8) % 8), Zero + (c % 8)>>

\* A path as it is written: those characters in octal, all others as they are.
seq_path(s) ==
  LET from[i \in 1 .. Len(s) + 1] ==
        IF i > Len(s) THEN <<>>
        ELSE (IF s[i] \in Escaped THEN Octal(s[i]) ELSE <<s[i]>>) \o from[i + 1]
  IN  from[1]

-----------------------------------------------------------------------------
(* The parser's side. *)

\* char::is_whitespace: also the spaces and separators beyond ASCII.
White_Space == (9 .. 13) \cup {32, 133, 160, 5760} \cup (8192 .. 8202)
               \cup {8232, 8233, 8239, 8287, 12288}

\* split_whitespace: a field ends at the first white space of any kind.
Field(s) ==
  LET white == {i \in DOMAIN s : s[i] \in White_Space}
  IN  IF white = {} THEN s
      ELSE SubSeq(s, 1, (CHOOSE i \in white : \A j \in white : i =< j) - 1)

\* Three octal digits follow, and make a byte.
Byte(s, i) == 64 * (s[i + 1] - Zero) + 8 * (s[i + 2] - Zero) + (s[i + 3] - Zero)
IsEscape(s, i) == /\ s[i] = Backslash
                  /\ i + 3 =< Len(s)
                  /\ \A j \in i + 1 .. i + 3 : s[j] - Zero \in 0 .. 7
                  /\ Byte(s, i) =< 255

decode_octal(s) ==
  LET from[i \in 1 .. Len(s) + 1] ==
        IF i > Len(s) THEN <<>>
        ELSE IF IsEscape(s, i) THEN <<Byte(s, i)>> \o from[i + 4]
        ELSE <<s[i]>> \o from[i + 1]
  IN  from[1]

\* Mutant of PointRead: the line is decoded before it is split.
DecodedFirst(s) == Field(decode_octal(seq_path(s)))

\* The mount point that is read where the kernel mounted at s.
PointRead(s) == decode_octal(Field(seq_path(s)))
=============================================================================
