----------------------------- MODULE AuditLogProofs -----------------------------
(***************************************************************************)
(* What the audit log keeps, for any sizes of lines and files and any      *)
(* number of events, segments, deaths and changes from outside: its types, *)
(* that a repair that reports ok leaves every link and chain right, that   *)
(* an acknowledged event stays but for one per torn append and only a torn *)
(* current file is ever undecodable, and, while nobody dies and nobody     *)
(* touches the files, that the doctor accepts the log and the index lists  *)
(* it.                                                                     *)
(***************************************************************************)
EXTENDS AuditLog, FiniteSetTheorems, SequenceTheorems, WellFoundedInduction, TLAPS

-----------------------------------------------------------------------------
(* Types *)

Links == [segment : Nat, name : Seq(Nat), digest : Seq(Nat)]

Kinds == {"event", "marker", "junk", "mangled"}

Lines == [kind : Kinds, size : Nat, id : Nat, sha : Nat, prev : Nat, link : Links]

Calls == [stage : Stages, size : Nat, at : 0..Current, rotated : BOOLEAN, id : Nat,
          link : Links, errors : BOOLEAN]

\* The hashes and ids of the lines are among the first n.
Drawn(lines, n) == \A i \in 1..Len(lines) : lines[i].sha \in 1..n /\ lines[i].id \in 0..n

TypeInv ==
    /\ text \in [Files -> Seq(Lines)]
    /\ name \in [Segments -> Seq(Nat)]
    /\ torn \in BOOLEAN
    /\ call \in Calls
    /\ serial \in Nat
    /\ \A f \in Files : Drawn(text[f], serial)
    /\ acked \in SUBSET (1..serial)
    /\ report \in {"none", "ok", "failed"}
    /\ aborts \in Nat /\ tears \in Nat /\ damages \in Nat

\* What a call is about in each of its stages.
StageInv ==
    /\ call.stage = "idle" => call = Idle
    /\ call # Idle => report = "none"
    /\ call.stage \in {"seal", "replace"} => text[Current] # <<>>
    /\ call.stage = "replace" =>
         /\ call.at \in Segments
         /\ text[call.at] = text[Current] /\ name[call.at] = DigestOf(text[call.at])
    /\ call.stage \in {"row", "rebuild"} => call.id \in 1..serial /\ ~ torn
    /\ call.stage \in {"repair", "rename"} => call.at \in Present
    /\ call.stage = "rename" => call.at \in Segments
    /\ torn => text[Current] # <<>>

Basic == TypeInv /\ StageInv

-----------------------------------------------------------------------------
(* Files, lines and digests *)

LEMMA FileFacts ==
    /\ MaxSegments \in Nat /\ Current \in Nat /\ Current \in Files
    /\ Segments \subseteq Files /\ Files \subseteq Nat
    /\ Current \notin Segments /\ 0 \notin Files
    /\ \A f \in Files : f # Current <=> f \in Segments
    /\ \A f \in Files : f <= Current
    /\ 0 \in 0..Current /\ Files \subseteq 0..Current /\ Segments \subseteq 0..Current
<1>1. MaxSegments \in Nat
    BY BoundsAssumption
<1> QED BY <1>1 DEF Current, Files, Segments

LEMMA DigestIsSeq ==
    ASSUME NEW lines \in Seq(Lines)
    PROVE  /\ DigestOf(lines) \in Seq(Nat)
           /\ Len(DigestOf(lines)) = Len(lines)
           /\ \A i \in 1..Len(lines) : DigestOf(lines)[i] = lines[i].sha
<1>1. Len(lines) \in Nat /\ DOMAIN lines = 1..Len(lines)
    BY LenProperties
<1>2. \A i \in 1..Len(lines) : lines[i].sha \in Nat
  <2> TAKE i \in 1..Len(lines)
  <2>1. lines[i] \in Lines
    BY ElementOfSeq
  <2> QED BY <2>1 DEF Lines
<1>3. DigestOf(lines) = [i \in 1..Len(lines) |-> lines[i].sha]
    BY <1>1 DEF DigestOf
<1>4. DigestOf(lines) \in [1..Len(lines) -> Nat]
    BY <1>2, <1>3
<1> QED BY <1>1, <1>3, <1>4, LenProperties

LEMMA LinkTyped ==
    ASSUME NEW f \in Files, NEW lines \in Seq(Lines)
    PROVE  /\ NoLink \in Links
           /\ LinkTo(f, lines) \in Links
<1>1. <<>> \in Seq(Nat) /\ f \in Nat
    BY FileFacts, EmptySeq
<1>2. DigestOf(lines) \in Seq(Nat)
    BY DigestIsSeq
<1>3. (IF f = Current THEN <<>> ELSE DigestOf(lines)) \in Seq(Nat)
    BY <1>1, <1>2
<1> QED BY <1>1, <1>2, <1>3 DEF NoLink, LinkTo, Links

LEMMA LineTyped ==
    ASSUME TypeInv, NEW kind \in Kinds, NEW size \in Nat,
           NEW prev \in Nat, NEW link \in Links
    PROVE  /\ Line(kind, size, prev, link) \in Lines
           /\ Line(kind, size, prev, link).kind = kind
           /\ Line(kind, size, prev, link).prev = prev
           /\ Line(kind, size, prev, link).link = link
           /\ Line(kind, size, prev, link).id = serial + 1
           /\ Line(kind, size, prev, link).sha = serial + 1
<1>1. serial + 1 \in Nat
    BY DEF TypeInv
<1> QED BY <1>1 DEF Line, Lines

LEMMA JunkTyped ==
    ASSUME TypeInv, NEW kinds, NEW size \in Nat
    PROVE  LET junk == Junk(kinds, size) IN
             /\ junk \in Lines /\ junk.kind \in Broken
             /\ "mangled" \notin kinds => junk.kind = "junk"
             /\ junk.id = 0 /\ junk.sha = serial + 1 /\ junk.prev = 0 /\ junk.link = NoLink
<1>1. serial + 1 \in Nat
    BY DEF TypeInv
<1>2. NoLink \in Links
    BY LinkTyped, FileFacts, EmptySeq
<1> DEFINE kind == IF "mangled" \in kinds THEN "mangled" ELSE "junk"
<1>3. Junk(kinds, size) = [kind |-> kind, size |-> size, id |-> 0, sha |-> serial + 1,
                           prev |-> 0, link |-> NoLink]
    BY DEF Junk, Line
<1>4. kind \in Kinds /\ kind \in Broken /\ ("mangled" \notin kinds => kind = "junk")
    BY DEF Kinds, Broken
<1> HIDE DEF kind
<1> QED BY <1>1, <1>2, <1>3, <1>4 DEF Lines

LEMMA LastIsLine ==
    ASSUME NEW lines \in Seq(Lines)
    PROVE  /\ LastSha(lines) \in Nat
           /\ lines # <<>> => /\ Len(lines) \in Nat \ {0} /\ Len(lines) \in 1..Len(lines)
                              /\ Last(lines) = lines[Len(lines)] /\ Last(lines) \in Lines
<1>1. CASE lines = <<>>
    BY <1>1 DEF LastSha
<1>2. CASE lines # <<>>
  <2>1. Len(lines) \in Nat \ {0} /\ Len(lines) \in 1..Len(lines)
    BY <1>2, EmptySeq
  <2>2. Last(lines) = lines[Len(lines)] /\ Last(lines) \in Lines
    BY <2>1, ElementOfSeq DEF Last
  <2>3. Last(lines).sha \in Nat
    BY <2>2 DEF Lines
  <2> QED BY <1>2, <2>1, <2>2, <2>3 DEF LastSha
<1> QED BY <1>1, <1>2

LEMMA FrontIs ==
    ASSUME NEW lines \in Seq(Lines), lines # <<>>
    PROVE  /\ Front(lines) \in Seq(Lines) /\ Len(Front(lines)) = Len(lines) - 1
           /\ \A i \in 1..(Len(lines) - 1) : Front(lines)[i] = lines[i]
<1> DEFINE n == Len(lines) - 1
<1>1. n \in Nat /\ n \in Int /\ 1 \in Int /\ Len(lines) = n + 1
    BY EmptySeq
<1>2. \A i \in 1..n : lines[i] \in Lines
    BY <1>1, ElementOfSeq
<1> HIDE DEF n
<1>3. /\ SubSeq(lines, 1, n) \in Seq(Lines)
      /\ Len(SubSeq(lines, 1, n)) = (IF 1 <= n THEN n - 1 + 1 ELSE 0)
      /\ \A i \in 1..(n - 1 + 1) : SubSeq(lines, 1, n)[i] = lines[1 + i - 1]
    BY <1>1, <1>2, SubSeqProperties
<1>4. (IF 1 <= n THEN n - 1 + 1 ELSE 0) = n /\ n - 1 + 1 = n
    BY <1>1
<1>5. \A i \in 1..n : 1 + i - 1 = i
    BY <1>1
<1>6. \A i \in 1..n : SubSeq(lines, 1, n)[i] = lines[i]
    BY <1>3, <1>4, <1>5, Zenon
<1>7. Front(lines) = SubSeq(lines, 1, n)
    BY DEF Front, n
<1> QED BY <1>3, <1>4, <1>6, <1>7, Zenon DEF n

\* A file that can be decoded.
Legible(lines) == \A i \in 1..Len(lines) : lines[i].kind # "mangled"

LEMMA UnreadableIs ==
    ASSUME TypeInv, NEW f \in Files
    PROVE  Unreadable(f) <=> ~ Legible(text[f])
<1>1. DOMAIN text[f] = 1..Len(text[f])
    BY LenProperties DEF TypeInv
<1> QED BY <1>1 DEF Unreadable, Legible

\* What is written of a record: all of it, or what is left when the writer dies.
Written == {"event", "junk", "mangled"}

\* What an append leaves in the current file.
LEMMA AppendedIs ==
    ASSUME TypeInv, StageInv, NEW kind \in Written
    PROVE  LET old == text[Current]
               new == Appended(Record(kind))
           IN  /\ new \in Seq(Lines) /\ new # <<>> /\ Len(new) \in Nat \ {0}
               /\ Len(old) \in Nat
               /\ Drawn(new, serial + 1)
               /\ Len(new) = IF torn THEN Len(old) ELSE Len(old) + 1
               /\ \A i \in 1..(Len(new) - 1) : i \in 1..Len(old) /\ new[i] = old[i]
               /\ torn => new[Len(new)].kind \in Broken /\ Len(old) # 0
               /\ torn /\ kind # "mangled" /\ Legible(old) => new[Len(new)].kind = "junk"
               /\ ~ torn => new[Len(new)] = Record(kind)
               /\ Record(kind) \in Lines
               /\ Record(kind).kind = kind /\ Record(kind).id = serial + 1
               /\ Record(kind).link = NoLink /\ Record(kind).prev = LastSha(old)
<1> DEFINE old == text[Current]
<1> DEFINE new == Appended(Record(kind))
<1>1. old \in Seq(Lines) /\ Len(old) \in Nat /\ serial \in Nat /\ Drawn(old, serial)
    BY FileFacts, LenProperties DEF TypeInv
<1>2. call.size \in Nat
    BY DEF TypeInv, Calls
<1>3. LastSha(old) \in Nat /\ NoLink \in Links
    BY <1>1, LastIsLine, LinkTyped, FileFacts
<1>4. /\ Record(kind) \in Lines
      /\ Record(kind).kind = kind /\ Record(kind).id = serial + 1
      /\ Record(kind).sha = serial + 1
      /\ Record(kind).link = NoLink /\ Record(kind).prev = LastSha(old)
    BY <1>2, <1>3, LineTyped DEF Record, Written, Kinds
<1>5. CASE torn
  <2>1. old # <<>>
    BY <1>5 DEF StageInv
  <2>2. /\ Len(old) \in Nat \ {0} /\ Last(old) \in Lines
        /\ Len(old) \in 1..Len(old) /\ Last(old) = old[Len(old)]
    BY <1>1, <2>1, LastIsLine
  <2>3. Last(old).size + Record(kind).size \in Nat
    BY <1>4, <2>2 DEF Lines
  <2> DEFINE kinds == {Last(old).kind, Record(kind).kind}
  <2> DEFINE junk == Junk(kinds, Last(old).size + Record(kind).size)
  <2>4. /\ junk \in Lines /\ junk.kind \in Broken /\ junk.id = 0 /\ junk.sha = serial + 1
        /\ "mangled" \notin kinds => junk.kind = "junk"
    BY <2>3, JunkTyped
  <2>10. kind # "mangled" /\ Legible(old) => junk.kind = "junk"
    BY <1>4, <2>2, <2>4 DEF Legible
  <2>5. new = Front(old) \o <<junk>>
    BY <1>5 DEF Appended
  <2> HIDE DEF junk, kinds, new
  <2>6. /\ Front(old) \in Seq(Lines) /\ Len(Front(old)) = Len(old) - 1
        /\ \A i \in 1..(Len(old) - 1) : Front(old)[i] = old[i]
    BY <1>1, <2>1, FrontIs
  <2>7. <<junk>> \in Seq(Lines) /\ Len(<<junk>>) = 1 /\ <<junk>>[1] = junk
    BY <2>4
  <2> DEFINE front == Front(old)
  <2> DEFINE last == <<junk>>
  <2> HIDE DEF front, last, old
  <2>8. /\ new \in Seq(Lines) /\ Len(new) = Len(old)
        /\ \A i \in 1..(Len(old) - 1) : new[i] = old[i]
        /\ new[Len(old)] = junk
    <3>1. /\ front \o last \in Seq(Lines)
          /\ Len(front \o last) = Len(front) + Len(last)
          /\ \A i \in 1..(Len(front) + Len(last)) : (front \o last)[i] =
                IF i <= Len(front) THEN front[i] ELSE last[i - Len(front)]
      BY <2>6, <2>7, ConcatProperties DEF front, last
    <3>2. new = front \o last
      BY <2>5 DEF front, last
    <3>3. Len(front) = Len(old) - 1 /\ Len(last) = 1 /\ last[1] = junk
          /\ \A i \in 1..(Len(old) - 1) : front[i] = old[i]
      BY <2>6, <2>7 DEF front, last
    <3> HIDE DEF last
    <3> QED BY <2>2, <3>1, <3>2, <3>3
  <2>9. Drawn(new, serial + 1)
    <3> SUFFICES ASSUME NEW i \in 1..Len(old)
                 PROVE  new[i].sha \in 1..(serial + 1) /\ new[i].id \in 0..(serial + 1)
      BY <2>8 DEF Drawn
    <3>1. CASE i = Len(old)
      BY <1>1, <2>4, <2>8, <3>1
    <3>2. CASE i # Len(old)
      <4>1. old[i].sha \in 1..serial /\ old[i].id \in 0..serial
        BY <1>1 DEF Drawn
      <4>2. new[i] = old[i]
        BY <2>2, <2>8, <3>2
      <4> QED BY <1>1, <4>1, <4>2
    <3> QED BY <3>1, <3>2
  <2> QED BY <1>1, <1>4, <1>5, <2>2, <2>4, <2>8, <2>9, <2>10, EmptySeq DEF new, old
<1>6. CASE ~ torn
  <2>1. new = Append(old, Record(kind))
    BY <1>6 DEF Appended
  <2> DEFINE record == Record(kind)
  <2> HIDE DEF new, old, record
  <2>2. /\ new \in Seq(Lines) /\ new # <<>> /\ Len(new) = Len(old) + 1
        /\ \A i \in 1..Len(old) : new[i] = old[i]
        /\ new[Len(old) + 1] = record
    BY <1>1, <1>4, <2>1, AppendProperties DEF record
  <2>3. Drawn(new, serial + 1)
    <3> SUFFICES ASSUME NEW i \in 1..(Len(old) + 1)
                 PROVE  new[i].sha \in 1..(serial + 1) /\ new[i].id \in 0..(serial + 1)
      BY <2>2 DEF Drawn
    <3>1. CASE i = Len(old) + 1
      BY <1>1, <1>4, <2>2, <3>1 DEF record
    <3>2. CASE i # Len(old) + 1
      <4>1. i \in 1..Len(old)
        BY <1>1, <3>2
      <4>2. old[i].sha \in 1..serial /\ old[i].id \in 0..serial
        BY <1>1, <4>1 DEF Drawn
      <4>3. new[i] = old[i]
        BY <2>2, <4>1
      <4> QED BY <1>1, <4>2, <4>3
    <3> QED BY <3>1, <3>2
  <2> QED BY <1>1, <1>4, <1>6, <2>2, <2>3 DEF new, old, record
<1> QED BY <1>5, <1>6

-----------------------------------------------------------------------------
(* The lowest and the highest of some files *)

LEMMA LowestIs ==
    ASSUME NEW S \in SUBSET Files, S # {}
    PROVE  /\ Lowest(S) \in S
           /\ \A g \in S : Lowest(S) <= g
           /\ \A f \in S : (\A g \in S : f <= g) => f = Lowest(S)
<1> USE FileFacts
<1>1. PICK f \in S : \A g \in S : <<g, f>> \notin OpToRel(<, Nat)
    BY WFMin, NatLessThanWellFounded, Zenon
<1>2. \A g \in S : f <= g
  <2> TAKE g \in S
  <2>1. f \in Nat /\ g \in Nat
    OBVIOUS
  <2>2. ~ (g < f)
    BY <1>1, <2>1, Zenon DEF OpToRel
  <2> QED BY <2>1, <2>2
<1>3. Lowest(S) \in S /\ \A g \in S : Lowest(S) <= g
    BY <1>2, Zenon DEF Lowest
<1>4. \A h \in S : (\A g \in S : h <= g) => h = Lowest(S)
  <2> DEFINE low == Lowest(S)
  <2>1. low \in S /\ low \in Nat /\ \A g \in S : low <= g
    BY <1>3
  <2> HIDE DEF low
  <2>2. ASSUME NEW h \in S, \A g \in S : h <= g
        PROVE  h = low
    BY <2>1, <2>2
  <2> QED BY <2>2 DEF low
<1> QED BY <1>3, <1>4

LEMMA HighestIs ==
    ASSUME NEW S \in SUBSET Files, S # {}
    PROVE  /\ Highest(S) \in S
           /\ \A g \in S : g <= Highest(S)
           /\ \A f \in S : (\A g \in S : g <= f) => f = Highest(S)
<1> USE FileFacts
<1> DEFINE T == {n \in Nat : Current - n \in S}
<1>1. T # {}
  <2>1. PICK f \in S : TRUE
    OBVIOUS
  <2>2. Current - f \in Nat /\ Current - (Current - f) = f
    OBVIOUS
  <2> QED BY <2>1, <2>2
<1>2. PICK n \in T : \A m \in T : <<m, n>> \notin OpToRel(<, Nat)
  <2>1. T \subseteq Nat
    OBVIOUS
  <2> HIDE DEF T
  <2> QED BY <1>1, <2>1, WFMin, NatLessThanWellFounded, Zenon
<1>3. n \in Nat /\ Current - n \in S
    BY <1>2
<1>4. \A g \in S : g <= Current - n
  <2> TAKE g \in S
  <2>1. g \in Nat /\ Current - g \in Nat /\ Current - (Current - g) = g
    OBVIOUS
  <2>2. Current - g \in T
    BY <2>1
  <2> HIDE DEF T
  <2>3. ~ (Current - g < n)
    BY <1>2, <1>3, <2>1, <2>2, Zenon DEF OpToRel
  <2> QED BY <1>3, <2>1, <2>3
<1>5. Highest(S) \in S /\ \A g \in S : g <= Highest(S)
    BY <1>3, <1>4, Zenon DEF Highest
<1>6. \A h \in S : (\A g \in S : g <= h) => h = Highest(S)
  <2> DEFINE high == Highest(S)
  <2>1. high \in S /\ high \in Nat /\ \A g \in S : g <= high
    BY <1>5
  <2> HIDE DEF high
  <2>2. ASSUME NEW h \in S, \A g \in S : g <= h
        PROVE  h = high
    BY <2>1, <2>2
  <2> QED BY <2>2 DEF high
<1> QED BY <1>5, <1>6

-----------------------------------------------------------------------------
(* The repair of one file *)

LEMMA WithLinkIs ==
    ASSUME NEW lines \in Seq(Lines), lines # <<>>, NEW link \in Links
    PROVE  LET W == WithLink(lines, link) IN
             /\ W \in Seq(Lines) /\ Len(W) = Len(lines) /\ Len(lines) \in Nat \ {0}
             /\ W[1] = [lines[1] EXCEPT !.link = link] /\ W[1].link = link
             /\ \A i \in 1..Len(lines) : i # 1 => W[i] = lines[i]
             /\ \A i \in 1..Len(lines) :
                  /\ W[i].kind = lines[i].kind /\ W[i].size = lines[i].size
                  /\ W[i].id = lines[i].id /\ W[i].sha = lines[i].sha
                  /\ W[i].prev = lines[i].prev
             /\ lines[1].link = link => W = lines
<1> DEFINE first == [lines[1] EXCEPT !.link = link]
<1>1. Len(lines) \in Nat \ {0} /\ 1 \in 1..Len(lines) /\ DOMAIN lines = 1..Len(lines)
    BY EmptySeq, LenProperties
<1>2. \A i \in 1..Len(lines) : lines[i] \in Lines
    BY ElementOfSeq
<1>3. /\ first \in Lines /\ first.link = link /\ first.kind = lines[1].kind
      /\ first.size = lines[1].size /\ first.id = lines[1].id /\ first.sha = lines[1].sha
      /\ first.prev = lines[1].prev
    BY <1>1, <1>2 DEF Lines
<1>4. lines[1].link = link => first = lines[1]
    BY <1>1, <1>2 DEF Lines
<1>5. WithLink(lines, link) = [lines EXCEPT ![1] = first]
    BY DEF WithLink
<1> HIDE DEF first
<1> DEFINE W == [lines EXCEPT ![1] = first]
<1>6. /\ W \in Seq(Lines) /\ Len(W) = Len(lines)
      /\ \A j \in 1..Len(lines) : W[j] = IF j = 1 THEN first ELSE lines[j]
    BY <1>1, <1>3, ExceptSeq
<1> HIDE DEF W
<1>7. lines[1].link = link => W = lines
    BY <1>4, <1>6, SeqEqual
<1>8. WithLink(lines, link) = W
    BY <1>5 DEF W
<1> QED BY <1>1, <1>3, <1>6, <1>7, <1>8 DEF first

\* R is what _rewrite_chain makes of lines that are to begin with this link.
Chain(lines, link, R) ==
    /\ R \in Seq(Lines) /\ R # <<>> /\ Len(R) = Len(lines) /\ Len(lines) \in Nat \ {0}
    /\ R[1].link = link
    /\ \A i \in 1..Len(lines) : R[i].kind = lines[i].kind /\ R[i].id = lines[i].id
    /\ \A i \in 1..Len(lines) : R[i].kind = "junk" \/ R[i].prev = ShaAbove(R, i)
    /\ /\ lines[1].link = link
       /\ \A i \in 1..Len(lines) :
            lines[i].kind = "junk" \/ lines[i].prev = ShaAbove(lines, i)
       => R = lines

LEMMA RewrittenIs ==
    ASSUME TypeInv, NEW lines \in Seq(Lines), lines # <<>>, Drawn(lines, serial),
           NEW link \in Links, NEW R, R = Rewritten(lines, link)
    PROVE  Chain(lines, link, R) /\ Drawn(R, serial + Len(lines))
<1> DEFINE W == WithLink(lines, link)
<1> DEFINE stale == Stale(lines, link)
<1> DEFINE wrong == Wrong(lines, link)
<1> DEFINE prev(i) == IF i - 1 \in stale THEN serial + i - 1 ELSE ShaAbove(lines, i)
<1> DEFINE line(i) == [W[i] EXCEPT !.prev = prev(i), !.sha = serial + i]
<1>1. serial \in Nat /\ Len(lines) \in Nat \ {0} /\ DOMAIN lines = 1..Len(lines)
    BY EmptySeq, LenProperties DEF TypeInv
<1>2. \A i \in 1..Len(lines) : lines[i] \in Lines
    BY ElementOfSeq
<1>3. /\ W \in Seq(Lines) /\ Len(W) = Len(lines) /\ W[1].link = link
      /\ \A i \in 1..Len(lines) : i # 1 => W[i] = lines[i]
      /\ \A i \in 1..Len(lines) :
           /\ W[i].kind = lines[i].kind /\ W[i].id = lines[i].id
           /\ W[i].sha = lines[i].sha /\ W[i].prev = lines[i].prev
      /\ lines[1].link = link => W = lines
  <2>1. PICK V : /\ V = WithLink(lines, link)
                 /\ V \in Seq(Lines) /\ Len(V) = Len(lines) /\ V[1].link = link
                 /\ \A i \in 1..Len(lines) : i # 1 => V[i] = lines[i]
                 /\ \A i \in 1..Len(lines) :
                      /\ V[i].kind = lines[i].kind /\ V[i].size = lines[i].size
                      /\ V[i].id = lines[i].id /\ V[i].sha = lines[i].sha
                      /\ V[i].prev = lines[i].prev
                 /\ lines[1].link = link => V = lines
    BY WithLinkIs, Zenon
  <2>2. W = V
    BY <2>1
  <2> HIDE DEF W
  <2> QED BY <2>1, <2>2
<1>4. R = [i \in 1..Len(lines) |-> IF i \notin stale THEN W[i] ELSE line(i)]
    BY <1>1, Zenon DEF Rewritten
<1>5. /\ stale \subseteq 1..Len(lines)
      /\ \A i \in 1..Len(lines) : i \in wrong => i \in stale
      /\ \A i \in 1..Len(lines) : i - 1 \in stale /\ lines[i].kind # "junk" => i \in stale
      /\ stale # {} => wrong # {}
  <2>1. wrong \subseteq {i \in 1..Len(lines) : lines[i].kind # "junk"}
    BY <1>1 DEF Wrong
  <2>2. stale = {i \in 1..Len(lines) : \E j \in 1..i :
                    j \in wrong /\ \A k \in j..i : lines[k].kind # "junk"}
    BY <1>1 DEF Stale
  <2> HIDE DEF wrong, stale, W
  <2>3. \A i \in 1..Len(lines) : i \in wrong => i \in stale
    <3> SUFFICES ASSUME NEW i \in 1..Len(lines), i \in wrong PROVE i \in stale
      OBVIOUS
    <3>1. i \in 1..i /\ \A k \in i..i : k = i
      BY <1>1
    <3>2. \A k \in i..i : lines[k].kind # "junk"
      BY <2>1, <3>1
    <3> QED BY <2>2, <3>1, <3>2
  <2>4. ASSUME NEW i \in 1..Len(lines), i - 1 \in stale, lines[i].kind # "junk"
        PROVE  i \in stale
    <3>1. PICK j \in 1..(i - 1) : j \in wrong /\ \A k \in j..(i - 1) : lines[k].kind # "junk"
      BY <2>2, <2>4
    <3>2. j \in 1..i /\ \A k \in j..i : k \in j..(i - 1) \/ k = i
      BY <1>1
    <3>3. \A k \in j..i : lines[k].kind # "junk"
      BY <2>4, <3>1, <3>2
    <3> QED BY <2>2, <3>1, <3>2, <3>3
  <2> QED BY <2>2, <2>3, <2>4
<1>6. \A i \in 1..Len(lines) : i \notin wrong /\ lines[i].kind # "junk" =>
         lines[i].prev = ShaAbove(lines, i)
    BY <1>1 DEF Wrong
<1>7. \A i \in 1..Len(lines) : ShaAbove(lines, i) \in Nat
  <2> TAKE i \in 1..Len(lines)
  <2>1. CASE i = 1
    BY <2>1 DEF ShaAbove
  <2>2. CASE i # 1
    <3>1. i - 1 \in 1..Len(lines)
      BY <1>1, <2>2
    <3>2. lines[i - 1] \in Lines
      BY <1>2, <3>1
    <3> QED BY <2>2, <3>2 DEF ShaAbove, Lines
  <2> QED BY <2>1, <2>2
<1>8. wrong = {} <=> \A i \in 1..Len(lines) :
           lines[i].kind = "junk" \/ (W[i] = lines[i] /\ lines[i].prev = ShaAbove(lines, i))
    BY <1>1 DEF Wrong
<1> HIDE DEF W, stale, wrong
<1>9. \A i \in 1..Len(lines) : prev(i) \in Nat
    BY <1>1, <1>7
<1>10. \A i \in 1..Len(lines) :
         /\ line(i) \in Lines /\ line(i).kind = lines[i].kind /\ line(i).id = lines[i].id
         /\ line(i).prev = prev(i) /\ line(i).sha = serial + i /\ line(i).link = W[i].link
  <2> TAKE i \in 1..Len(lines)
  <2>1. W[i] \in Lines
    BY <1>3, ElementOfSeq
  <2>2. serial + i \in Nat /\ prev(i) \in Nat
    BY <1>1, <1>9
  <2> HIDE DEF prev
  <2> QED BY <1>3, <2>1, <2>2 DEF Lines
<1> HIDE DEF line
<1>11. /\ R \in Seq(Lines) /\ Len(R) = Len(lines)
       /\ \A i \in 1..Len(lines) : R[i] = IF i \notin stale THEN W[i] ELSE line(i)
  <2>1. \A i \in 1..Len(lines) : (IF i \notin stale THEN W[i] ELSE line(i)) \in Lines
    <3> TAKE i \in 1..Len(lines)
    <3>1. W[i] \in Lines
      BY <1>3, ElementOfSeq
    <3> QED BY <1>10, <3>1
  <2>2. R \in [1..Len(lines) -> Lines]
    BY <1>4, <2>1
  <2>3. R \in Seq(Lines) /\ Len(R) = Len(lines)
    BY <1>1, <2>2
  <2> QED BY <1>4, <2>3
<1>12. \A i \in 1..Len(lines) :
         R[i].kind = lines[i].kind /\ R[i].id = lines[i].id /\ R[i].link = W[i].link
    BY <1>3, <1>10, <1>11
<1>13. Drawn(R, serial + Len(lines))
  <2> SUFFICES ASSUME NEW i \in 1..Len(lines)
               PROVE  /\ R[i].sha \in 1..(serial + Len(lines))
                      /\ R[i].id \in 0..(serial + Len(lines))
    BY <1>11 DEF Drawn
  <2>1. lines[i].sha \in 1..serial /\ lines[i].id \in 0..serial
    BY DEF Drawn
  <2>2. R[i].sha = lines[i].sha \/ R[i].sha = serial + i
    BY <1>3, <1>10, <1>11
  <2> QED BY <1>1, <1>12, <2>1, <2>2
<1>14. \A i \in 1..Len(lines) : R[i].kind = "junk" \/ R[i].prev = ShaAbove(R, i)
  <2> SUFFICES ASSUME NEW i \in 1..Len(lines), lines[i].kind # "junk"
               PROVE  R[i].prev = ShaAbove(R, i)
    BY <1>12
  <2>1. CASE i = 1
    <3>1. i - 1 \notin stale
      BY <1>5, <2>1
    <3>2. i \in stale => R[i].prev = ShaAbove(lines, i)
      BY <1>10, <1>11, <3>1
    <3>3. i \notin stale => R[i].prev = ShaAbove(lines, i)
      BY <1>3, <1>5, <1>6, <1>11
    <3> QED BY <2>1, <3>2, <3>3 DEF ShaAbove
  <2>2. CASE i # 1
    <3>1. i - 1 \in 1..Len(lines) /\ ShaAbove(R, i) = R[i - 1].sha
          /\ ShaAbove(lines, i) = lines[i - 1].sha
      BY <1>1, <2>2 DEF ShaAbove
    <3>2. CASE i - 1 \in stale
      <4>1. i \in stale
        BY <1>5, <3>2
      <4>2. R[i].prev = serial + i - 1
        BY <1>10, <1>11, <3>2, <4>1
      <4>3. R[i - 1].sha = serial + (i - 1)
        BY <1>10, <1>11, <3>1, <3>2
      <4> QED BY <1>1, <3>1, <4>2, <4>3
    <3>3. CASE i - 1 \notin stale
      <4>1. R[i - 1].sha = lines[i - 1].sha
        BY <1>3, <1>11, <3>1, <3>3
      <4>2. i \in stale => R[i].prev = ShaAbove(lines, i)
        BY <1>10, <1>11, <3>3
      <4>3. i \notin stale => R[i].prev = ShaAbove(lines, i)
        BY <1>3, <1>5, <1>6, <1>11
      <4> QED BY <3>1, <4>1, <4>2, <4>3
    <3> QED BY <3>2, <3>3
  <2> QED BY <2>1, <2>2
<1>15. ASSUME lines[1].link = link,
              \A i \in 1..Len(lines) :
                lines[i].kind = "junk" \/ lines[i].prev = ShaAbove(lines, i)
       PROVE  R = lines
  <2>1. W = lines
    BY <1>3, <1>15
  <2>2. stale = {}
    BY <1>5, <1>8, <1>15, <2>1
  <2>3. \A i \in 1..Len(lines) : R[i] = lines[i]
    BY <1>11, <2>1, <2>2
  <2> QED BY <1>11, <2>3, SeqEqual
<1>16. R # <<>>
    BY <1>1, <1>11, EmptySeq
<1>17. R[1].link = link
    BY <1>1, <1>3, <1>12
<1> QED BY <1>1, <1>11, <1>12, <1>13, <1>14, <1>15, <1>16, <1>17 DEF Chain

-----------------------------------------------------------------------------
(* The types, and the stages of a call *)

LEMMA TextChanged ==
    ASSUME TypeInv, NEW f \in Files, NEW lines \in Seq(Lines), NEW n \in Nat, serial <= n,
           Drawn(lines, n), text' = [text EXCEPT ![f] = lines]
    PROVE  /\ text' \in [Files -> Seq(Lines)]
           /\ \A g \in Files : Drawn(text'[g], n)
           /\ text'[f] = lines
           /\ \A g \in Files : g # f => text'[g] = text[g]
<1>1. /\ text' \in [Files -> Seq(Lines)] /\ text'[f] = lines
      /\ \A g \in Files : g # f => text'[g] = text[g]
    BY DEF TypeInv
<1>2. \A g \in Files : Drawn(text[g], n)
    BY DEF TypeInv, Drawn
<1>3. \A g \in Files : Drawn(text'[g], n)
    BY <1>1, <1>2, Zenon
<1> QED BY <1>1, <1>3

LEMMA TextKept ==
    ASSUME TypeInv, NEW n \in Nat, serial <= n
    PROVE  /\ \A g \in Files : Drawn(text[g], n)
           /\ acked \in SUBSET (1..n)
BY DEF TypeInv, Drawn

LEMMA IdleTyped == Idle \in Calls /\ Idle.stage = "idle" /\ ~ Idle.errors
<1>1. NoLink \in Links /\ 0 \in 0..Current
    BY LinkTyped, FileFacts, EmptySeq
<1> QED BY <1>1 DEF Idle, Calls, Stages

LEMMA NextCall ==
    ASSUME TypeInv, NEW f \in Files, NEW link \in Links, NEW errors \in BOOLEAN,
           RepairNext(f, link, errors), call # Idle => report = "none", call # Idle
    PROVE  /\ call' \in Calls /\ report' \in {"none", "ok", "failed"}
           /\ \/ /\ After(f) = {} /\ call' = Idle
                 /\ report' = IF errors THEN "failed" ELSE "ok"
              \/ /\ After(f) # {} /\ report' = "none"
                 /\ call'.stage = "repair" /\ call'.at = Lowest(After(f))
                 /\ call'.at \in After(f) /\ call'.at \in Files
                 /\ call'.link = link /\ call'.errors = errors
<1>1. CASE After(f) = {}
    BY <1>1, IdleTyped DEF RepairNext
<1>2. CASE After(f) # {}
  <2>1. After(f) \in SUBSET Files /\ Files \subseteq Nat
    BY FileFacts DEF After, Present
  <2>2. Lowest(After(f)) \in After(f)
    BY <1>2, <2>1, LowestIs
  <2>3. Lowest(After(f)) \in 0..Current /\ Lowest(After(f)) \in Files
    BY <2>1, <2>2, FileFacts
  <2>4. PICK at \in 0..Current : at = Lowest(After(f))
    BY <2>3
  <2>5. call' = [call EXCEPT !.stage = "repair", !.at = at, !.link = link, !.errors = errors]
        /\ report' = report
    BY <1>2, <2>4 DEF RepairNext
  <2>6. /\ call' \in Calls
        /\ call'.stage = "repair" /\ call'.at = at /\ call'.link = link /\ call'.errors = errors
    BY <2>5 DEF TypeInv, Calls, Stages
  <2> QED BY <1>2, <2>2, <2>3, <2>4, <2>5, <2>6 DEF TypeInv
<1> QED BY <1>1, <1>2

LEMMA InitBasic == Init => Basic
<1> SUFFICES ASSUME Init PROVE Basic
    OBVIOUS
<1>1. text \in [Files -> Seq(Lines)] /\ name \in [Segments -> Seq(Nat)]
      /\ \A f \in Files : text[f] = <<>>
    BY EmptySeq DEF Init
<1>2. \A f \in Files : Drawn(text[f], serial)
    BY <1>1, EmptySeq DEF Drawn
<1>3. TypeInv
    BY <1>1, <1>2, IdleTyped DEF Init, TypeInv
<1>4. StageInv
    BY IdleTyped DEF Init, StageInv
<1> QED BY <1>3, <1>4 DEF Basic

LEMMA AppendBeginBasic ==
    ASSUME Basic, NEW size \in Sizes, AppendBegin(size)
    PROVE  Basic'
<1>1. size \in Nat
    BY SizesAssumption
<1> DEFINE full == text[Current] # <<>> /\ SizeOf(text[Current]) + size > MaxBytes
<1>2. call' = [Idle EXCEPT !.stage = IF full THEN "seal" ELSE "append", !.size = size,
                           !.rotated = full]
    BY DEF AppendBegin
<1>3. call' \in Calls /\ call'.stage = (IF full THEN "seal" ELSE "append")
  <2>1. full \in BOOLEAN
    OBVIOUS
  <2> HIDE DEF full
  <2> QED BY <1>1, <1>2, <2>1, LinkTyped, FileFacts, EmptySeq, IdleTyped DEF Calls, Stages, Idle
<1>4. UNCHANGED <<text, name, torn, serial, acked, aborts, tears, damages>> /\ report' = "none"
    BY DEF AppendBegin
<1>5. TypeInv'
    BY <1>3, <1>4 DEF Basic, TypeInv
<1>6. StageInv'
  <2>1. full => text[Current] # <<>>
    OBVIOUS
  <2> HIDE DEF full
  <2> QED BY <1>3, <1>4, <2>1, IdleTyped DEF Basic, StageInv
<1> QED BY <1>5, <1>6 DEF Basic

LEMMA SealBasic ==
    ASSUME Basic, Seal
    PROVE  Basic'
<1> USE FileFacts
<1>1. call.stage = "seal" /\ text[Current] # <<>> /\ text[Current] \in Seq(Lines)
    BY DEF Basic, StageInv, TypeInv, Seal
<1>2. UNCHANGED <<torn, serial, report, acked, aborts, tears, damages>>
    BY DEF Seal, counters
<1>3. report = "none"
    BY <1>1, IdleTyped DEF Basic, StageInv
<1>4. CASE SameText # {}
  <2>1. SameText \in SUBSET Files
    BY DEF SameText
  <2>2. Lowest(SameText) \in SameText
    BY <1>4, <2>1, LowestIs
  <2>3. PICK s \in SameText : s = Lowest(SameText)
    BY <2>2
  <2>4. s \in Segments /\ s \in 0..Current /\ text[s] = text[Current] /\ name[s] = DigestOf(text[s])
    BY <2>3 DEF SameText
  <2>5. call' = [call EXCEPT !.stage = "replace", !.at = s] /\ text' = text /\ name' = name
    BY <1>4, <2>3 DEF Seal
  <2>6. call' \in Calls /\ call'.stage = "replace" /\ call'.at = s
    BY <2>4, <2>5 DEF Basic, TypeInv, Calls, Stages
  <2>7. TypeInv'
    BY <1>2, <2>5, <2>6 DEF Basic, TypeInv
  <2>8. StageInv'
    BY <1>1, <1>2, <1>3, <2>4, <2>5, <2>6 DEF Basic, StageInv
  <2> QED BY <2>7, <2>8 DEF Basic
<1>5. CASE SameText = {}
  <2>1. PICK s \in Segments : s = NextSegment
    BY <1>5 DEF Seal
  <2>2. /\ text' = [text EXCEPT ![s] = text[Current]]
        /\ name' = [name EXCEPT ![s] = DigestOf(text[Current])]
        /\ call' = [call EXCEPT !.stage = "replace", !.at = s]
    BY <1>5, <2>1 DEF Seal
  <2>3. call' \in Calls /\ call'.stage = "replace" /\ call'.at = s
    BY <2>2 DEF Basic, TypeInv, Calls, Stages
  <2>4. DigestOf(text[Current]) \in Seq(Nat)
    BY <1>1, DigestIsSeq
  <2>5. name' \in [Segments -> Seq(Nat)] /\ name'[s] = DigestOf(text[Current])
    BY <2>2, <2>4 DEF Basic, TypeInv
  <2>6. /\ text' \in [Files -> Seq(Lines)] /\ \A g \in Files : Drawn(text'[g], serial)
        /\ text'[s] = text[Current] /\ text'[Current] = text[Current]
    BY <1>1, <2>2, TextChanged DEF Basic, TypeInv
  <2>7. TypeInv'
    BY <1>2, <2>3, <2>5, <2>6 DEF Basic, TypeInv
  <2>8. StageInv'
    BY <1>1, <1>2, <1>3, <2>3, <2>5, <2>6 DEF Basic, StageInv
  <2> QED BY <2>7, <2>8 DEF Basic
<1> QED BY <1>4, <1>5

LEMMA ReplaceBasic ==
    ASSUME Basic, Replace
    PROVE  Basic'
<1> USE FileFacts
<1> DEFINE lines == <<Line("marker", 1, 0, LinkTo(call.at, text[Current]))>>
<1>1. text[Current] \in Seq(Lines) /\ call.at \in Files /\ serial \in Nat /\ TypeInv
      /\ serial + 1 \in Nat /\ serial <= serial + 1 /\ serial <= serial
    BY DEF Basic, StageInv, TypeInv, Replace
<1>2. LinkTo(call.at, text[Current]) \in Links
    BY <1>1, LinkTyped
<1>3. PICK line \in Lines :
          /\ line = Line("marker", 1, 0, LinkTo(call.at, text[Current]))
          /\ line.id = serial + 1 /\ line.sha = serial + 1
    BY <1>1, <1>2, LineTyped DEF Kinds
<1>4. <<line>> \in Seq(Lines) /\ <<line>> # <<>> /\ Drawn(<<line>>, serial + 1)
    BY <1>1, <1>3 DEF Drawn
<1>5. text' = [text EXCEPT ![Current] = <<line>>] /\ torn' = FALSE /\ serial' = serial + 1
    BY <1>3 DEF Replace
<1>6. /\ text' \in [Files -> Seq(Lines)] /\ \A g \in Files : Drawn(text'[g], serial + 1)
      /\ text'[Current] = <<line>>
    BY <1>1, <1>4, <1>5, TextChanged
<1>7. call' \in Calls /\ call'.stage = "append"
    BY DEF Replace, Basic, TypeInv, Calls, Stages
<1>8. UNCHANGED <<name, report, acked, aborts, tears, damages>>
    BY DEF Replace, counters
<1>9. report = "none"
    BY IdleTyped DEF Basic, StageInv, Replace
<1>10. TypeInv'
    BY <1>1, <1>5, <1>6, <1>7, <1>8, TextKept DEF TypeInv
<1>11. StageInv'
    BY <1>5, <1>7, <1>8, <1>9 DEF StageInv
<1> QED BY <1>10, <1>11 DEF Basic

LEMMA AppendWriteBasic ==
    ASSUME Basic, AppendWrite
    PROVE  Basic'
<1> USE FileFacts
<1>1. TypeInv /\ StageInv /\ serial \in Nat
      /\ serial + 1 \in Nat /\ serial <= serial + 1 /\ serial <= serial
    BY DEF Basic, TypeInv
<1>2. PICK lines \in Seq(Lines) :
          lines = Appended(Record("event")) /\ lines # <<>> /\ Drawn(lines, serial + 1)
    BY <1>1, AppendedIs DEF Written
<1>3. text' = [text EXCEPT ![Current] = lines] /\ torn' = FALSE /\ serial' = serial + 1
    BY <1>2 DEF AppendWrite
<1>4. /\ text' \in [Files -> Seq(Lines)] /\ \A g \in Files : Drawn(text'[g], serial + 1)
      /\ text'[Current] = lines
    BY <1>1, <1>2, <1>3, TextChanged
<1>5. call' \in Calls /\ call'.stage \in {"row", "rebuild"} /\ call'.id = serial + 1
  <2>1. PICK next \in {"row", "rebuild"}, id \in Nat : id = serial + 1
                              /\ call' = [call EXCEPT !.stage = next, !.id = id]
    BY <1>1 DEF AppendWrite
  <2> QED BY <1>1, <2>1 DEF TypeInv, Calls, Stages
<1>6. UNCHANGED <<name, report, acked, aborts, tears, damages>> /\ report = "none"
    BY <1>1, IdleTyped DEF AppendWrite, counters, StageInv
<1>7. TypeInv'
    BY <1>1, <1>3, <1>4, <1>5, <1>6, TextKept DEF TypeInv
<1>8. StageInv'
    BY <1>1, <1>3, <1>5, <1>6 DEF StageInv
<1> QED BY <1>7, <1>8 DEF Basic

LEMMA AppendTornBasic ==
    ASSUME Basic, NEW kind \in Written, AppendTorn(kind)
    PROVE  Basic'
<1> USE FileFacts
<1>1. TypeInv /\ StageInv /\ serial \in Nat
      /\ serial + 1 \in Nat /\ serial <= serial + 1 /\ serial <= serial
    BY DEF Basic, TypeInv
<1>2. PICK lines \in Seq(Lines) :
          lines = Appended(Record(kind)) /\ lines # <<>> /\ Drawn(lines, serial + 1)
    BY <1>1, AppendedIs
<1>3. /\ text' = [text EXCEPT ![Current] = lines] /\ torn' = TRUE /\ serial' = serial + 1
      /\ call' = Idle /\ aborts' = aborts + 1 /\ tears' = tears + 1
    BY <1>2 DEF AppendTorn
<1>4. /\ text' \in [Files -> Seq(Lines)] /\ \A g \in Files : Drawn(text'[g], serial + 1)
      /\ text'[Current] = lines
    BY <1>1, <1>2, <1>3, TextChanged
<1>5. UNCHANGED <<name, report, acked, damages>>
    BY DEF AppendTorn
<1>6. TypeInv'
    BY <1>1, <1>3, <1>4, <1>5, TextKept, IdleTyped DEF TypeInv
<1>7. StageInv'
    BY <1>2, <1>3, <1>4, IdleTyped DEF StageInv
<1> QED BY <1>6, <1>7 DEF Basic

\* A call that ends with the row of its record, and a rebuild of the index.
LEMMA RowBasic ==
    ASSUME Basic, IndexRow \/ IndexAfterRotation
    PROVE  Basic'
<1>1. /\ call' = Idle /\ acked' = acked \cup {call.id} /\ call.id \in 1..serial
      /\ UNCHANGED <<text, name, torn, serial, report, aborts, tears, damages>>
    BY DEF IndexRow, IndexAfterRotation, counters, Basic, StageInv
<1>2. TypeInv'
    BY <1>1, IdleTyped DEF Basic, TypeInv
<1>3. StageInv'
    BY <1>1, IdleTyped DEF Basic, StageInv
<1> QED BY <1>2, <1>3 DEF Basic

LEMMA RebuildBasic ==
    ASSUME Basic, RebuildIndex
    PROVE  Basic'
<1>1. UNCHANGED <<text, name, torn, serial, call, acked, aborts, tears, damages>>
      /\ report' = "none"
    BY DEF RebuildIndex, counters
<1> QED BY <1>1 DEF Basic, TypeInv, StageInv, Present

LEMMA RepairBeginBasic ==
    ASSUME Basic, RepairBegin
    PROVE  Basic'
<1> USE FileFacts
<1>1. UNCHANGED <<text, name, torn, serial, acked, aborts, tears, damages>> /\ call = Idle
    BY DEF RepairBegin, counters
<1>2. CASE report' = "failed" /\ call' = call
    BY <1>1, <1>2, IdleTyped DEF Basic, TypeInv, StageInv
<1>3. CASE report' = "none" /\ call' = [Idle EXCEPT !.stage = "repair", !.at = Lowest(Present)]
  <2>1. Present \in SUBSET Files /\ Present # {}
    BY DEF Present, RepairBegin
  <2>2. PICK at \in Present : at = Lowest(Present)
    BY <2>1, LowestIs
  <2>3. at \in 0..Current
    BY <2>1
  <2>4. call' \in Calls /\ call'.stage = "repair" /\ call'.at = at
    BY <1>3, <2>2, <2>3, IdleTyped DEF Calls, Idle, Stages
  <2>5. Present' = Present
    BY <1>1 DEF Present
  <2>6. TypeInv'
    BY <1>1, <1>3, <2>4 DEF Basic, TypeInv
  <2>7. StageInv'
    BY <1>1, <1>3, <2>4, <2>5 DEF Basic, StageInv
  <2> QED BY <2>6, <2>7 DEF Basic
<1> QED BY <1>2, <1>3 DEF RepairBegin

LEMMA RepairSkipBasic ==
    ASSUME Basic, RepairSkip
    PROVE  Basic'
<1>1. /\ UNCHANGED <<text, name, torn, serial, acked, aborts, tears, damages>>
      /\ call.stage = "repair" /\ RepairNext(call.at, call.link, TRUE)
    BY DEF RepairSkip, counters
<1>2. call.at \in Present /\ call # Idle /\ call.link \in Links /\ TypeInv
      /\ call.at \in Files /\ report = "none"
    BY <1>1, IdleTyped DEF Basic, TypeInv, StageInv, Calls, Present
<1>3. /\ call' \in Calls /\ report' \in {"none", "ok", "failed"}
      /\ \/ call' = Idle
         \/ report' = "none" /\ call'.stage = "repair" /\ call'.at \in After(call.at)
    BY <1>1, <1>2, NextCall
<1>4. Present' = Present /\ After(call.at) \subseteq Present
    BY <1>1 DEF Present, After
<1>5. TypeInv'
    BY <1>1, <1>2, <1>3 DEF TypeInv
<1>6. StageInv'
    BY <1>1, <1>3, <1>4, IdleTyped DEF Basic, StageInv
<1> QED BY <1>5, <1>6 DEF Basic

\* What repair_audit_chain does to one file.
LEMMA FileRepaired ==
    ASSUME Basic, RepairFile,
           NEW f, f = call.at, NEW link, link = IF LinkExpected THEN call.link ELSE NoLink,
           NEW lines, lines = Rewritten(text[f], link)
    PROVE  /\ f \in Files /\ f \in Present /\ link \in Links /\ TypeInv /\ call # Idle
           /\ report = "none" /\ text[f] \in Seq(Lines) /\ Len(text[f]) \in Nat \ {0}
           /\ Chain(text[f], link, lines)
           /\ text' = [text EXCEPT ![f] = lines]
           /\ text' \in [Files -> Seq(Lines)] /\ text'[f] = lines
           /\ \A g \in Files : g # f => text'[g] = text[g]
           /\ serial' \in Nat /\ serial <= serial'
           /\ \A g \in Files : Drawn(text'[g], serial')
           /\ Present' = Present
           /\ UNCHANGED <<name, torn, index, acked, lost, aborts, tears, damages>>
           /\ LinkTo(f, lines) \in Links
           /\ \/ /\ f # Current /\ name[f] # DigestOf(lines)
                 /\ call' = [call EXCEPT !.stage = "rename"] /\ report' = "none"
              \/ /\ f = Current \/ name[f] = DigestOf(lines)
                 /\ RepairNext(f, LinkTo(f, lines), call.errors)
<1>1. /\ f \in Files /\ f \in Present /\ TypeInv /\ call # Idle /\ report = "none"
      /\ call.link \in Links /\ serial \in Nat
    BY IdleTyped DEF Basic, TypeInv, StageInv, Calls, Present, RepairFile
<1>2. link \in Links
    BY <1>1, LinkTyped, FileFacts, EmptySeq
<1>3. text[f] \in Seq(Lines) /\ text[f] # <<>> /\ Drawn(text[f], serial)
    BY <1>1 DEF TypeInv, Present
<1>4. Chain(text[f], link, lines) /\ Drawn(lines, serial + Len(text[f]))
    BY <1>1, <1>2, <1>3, RewrittenIs
<1>5. /\ text' = [text EXCEPT ![f] = lines]
      /\ serial' = IF lines = text[f] THEN serial ELSE serial + Len(lines)
      /\ IF f # Current /\ name[f] # DigestOf(lines)
         THEN call' = [call EXCEPT !.stage = "rename"] /\ UNCHANGED report
         ELSE RepairNext(f, LinkTo(f, lines), call.errors)
      /\ UNCHANGED <<name, torn, index, acked, lost, aborts, tears, damages>>
    BY Zenon DEF RepairFile, counters
<1>6. serial' \in Nat /\ serial <= serial' /\ Drawn(lines, serial')
    BY <1>1, <1>3, <1>4, <1>5 DEF Chain
<1>7. /\ text' \in [Files -> Seq(Lines)] /\ text'[f] = lines
      /\ \A g \in Files : g # f => text'[g] = text[g]
      /\ \A g \in Files : Drawn(text'[g], serial')
  <2>1. PICK n \in Nat : n = serial' /\ serial <= n /\ Drawn(lines, n)
    BY <1>6
  <2> QED BY <1>1, <1>4, <1>5, <2>1, TextChanged, ZenonT(30) DEF Chain
<1>8. Present' = Present
    BY <1>3, <1>4, <1>7 DEF Present, Chain
<1>9. LinkTo(f, lines) \in Links
    BY <1>1, <1>4, LinkTyped DEF Chain
<1> QED BY <1>1, <1>2, <1>3, <1>4, <1>5, <1>6, <1>7, <1>8, <1>9 DEF Chain

LEMMA RepairFileBasic ==
    ASSUME Basic, RepairFile
    PROVE  Basic'
<1> USE FileFacts
<1>1. PICK f, link, lines : /\ f = call.at /\ link = IF LinkExpected THEN call.link ELSE NoLink
                            /\ lines = Rewritten(text[f], link)
    OBVIOUS
<1>2. /\ f \in Files /\ f \in Present /\ TypeInv /\ call # Idle /\ report = "none"
      /\ lines # <<>> /\ text'[f] = lines /\ \A g \in Files : g # f => text'[g] = text[g]
      /\ text' \in [Files -> Seq(Lines)]
      /\ serial' \in Nat /\ serial <= serial' /\ \A g \in Files : Drawn(text'[g], serial')
      /\ Present' = Present
      /\ UNCHANGED <<name, torn, acked, aborts, tears, damages>>
      /\ LinkTo(f, lines) \in Links
      /\ \/ f # Current /\ call' = [call EXCEPT !.stage = "rename"] /\ report' = "none"
         \/ RepairNext(f, LinkTo(f, lines), call.errors)
    BY <1>1, FileRepaired DEF Chain
<1>3. acked \in SUBSET (1..serial')
    BY <1>2 DEF TypeInv
<1>4. torn' => text'[Current] # <<>>
    BY <1>2 DEF Basic, StageInv
<1>5. CASE f # Current /\ call' = [call EXCEPT !.stage = "rename"] /\ report' = "none"
  <2>1. call' \in Calls /\ call'.stage = "rename" /\ call'.at = f
    BY <1>1, <1>2, <1>5 DEF TypeInv, Calls, Stages
  <2>2. TypeInv'
    BY <1>2, <1>3, <1>5, <2>1 DEF TypeInv
  <2>3. StageInv'
    BY <1>2, <1>4, <1>5, <2>1 DEF StageInv
  <2> QED BY <2>2, <2>3 DEF Basic
<1>6. CASE RepairNext(f, LinkTo(f, lines), call.errors)
  <2>1. call.errors \in BOOLEAN
    BY <1>2 DEF TypeInv, Calls
  <2>2. /\ call' \in Calls /\ report' \in {"none", "ok", "failed"}
        /\ \/ call' = Idle
           \/ report' = "none" /\ call'.stage = "repair" /\ call'.at \in After(f)
    BY <1>2, <1>6, <2>1, NextCall
  <2>3. After(f) \subseteq Present
    BY DEF After
  <2>4. TypeInv'
    BY <1>2, <1>3, <2>2 DEF TypeInv
  <2>5. StageInv'
    BY <1>2, <1>4, <2>2, <2>3, IdleTyped DEF StageInv
  <2> QED BY <2>4, <2>5 DEF Basic
<1> QED BY <1>2, <1>5, <1>6

LEMMA RepairRenameBasic ==
    ASSUME Basic, RepairRename
    PROVE  Basic'
<1>1. PICK f : f = call.at
    OBVIOUS
<1>2. /\ UNCHANGED <<text, torn, serial, acked, aborts, tears, damages>>
      /\ name' = [name EXCEPT ![f] = DigestOf(text[f])]
      /\ call.stage = "rename" /\ RepairNext(f, LinkTo(f, text[f]), call.errors)
    BY <1>1 DEF RepairRename, counters
<1>3. f \in Present /\ call # Idle /\ TypeInv /\ f \in Segments /\ f \in Files
      /\ call.errors \in BOOLEAN /\ report = "none" /\ text[f] \in Seq(Lines)
    BY <1>1, <1>2, IdleTyped, FileFacts DEF Basic, TypeInv, StageInv, Calls, Present
<1>4. LinkTo(f, text[f]) \in Links /\ DigestOf(text[f]) \in Seq(Nat)
    BY <1>3, LinkTyped, DigestIsSeq
<1>5. /\ call' \in Calls /\ report' \in {"none", "ok", "failed"}
      /\ \/ call' = Idle
         \/ report' = "none" /\ call'.stage = "repair" /\ call'.at \in After(f)
    BY <1>2, <1>3, <1>4, NextCall
<1>6. Present' = Present /\ After(f) \subseteq Present
    BY <1>2 DEF Present, After
<1>7. name' \in [Segments -> Seq(Nat)]
    BY <1>2, <1>3, <1>4 DEF TypeInv
<1>8. TypeInv'
    BY <1>2, <1>3, <1>5, <1>7 DEF TypeInv
<1>9. StageInv'
    BY <1>2, <1>5, <1>6, IdleTyped DEF Basic, StageInv
<1> QED BY <1>8, <1>9 DEF Basic

LEMMA AbortBasic ==
    ASSUME Basic, Abort
    PROVE  Basic'
<1>1. /\ call' = Idle /\ aborts' = aborts + 1
      /\ UNCHANGED <<text, name, torn, serial, report, acked, tears, damages>>
    BY DEF Abort
<1> QED BY <1>1, IdleTyped DEF Basic, TypeInv, StageInv

LEMMA TailCutBasic ==
    ASSUME Basic, TailCut
    PROVE  /\ Basic'
           /\ text[Current] \in Seq(Lines) /\ text[Current] # <<>>
           /\ text'[Current] = Front(text[Current]) /\ text' \in [Files -> Seq(Lines)]
           /\ \A g \in Files : g # Current => text'[g] = text[g]
<1> USE FileFacts
<1> DEFINE old == text[Current]
<1>1. /\ text' = [text EXCEPT ![Current] = Front(old)] /\ call = Idle /\ torn' = FALSE
      /\ report' = "none"
      /\ UNCHANGED <<name, call, serial, acked, aborts, tears, damages>>
    BY DEF TailCut, counters
<1>2. /\ TypeInv /\ serial \in Nat /\ serial <= serial
      /\ old \in Seq(Lines) /\ Drawn(old, serial) /\ Len(old) \in Nat
    BY LenProperties DEF Basic, TypeInv
<1>3. old # <<>>
    BY <1>2, UnreadableIs, EmptySeq DEF TailCut, Legible
<1>4. /\ Front(old) \in Seq(Lines) /\ Len(Front(old)) = Len(old) - 1
      /\ \A i \in 1..(Len(old) - 1) : Front(old)[i] = old[i]
    BY <1>2, <1>3, FrontIs
<1> DEFINE new == Front(old)
<1> HIDE DEF old, new
<1>5. Drawn(new, serial)
    BY <1>2, <1>4 DEF Drawn, new
<1>6. /\ text' \in [Files -> Seq(Lines)] /\ \A g \in Files : Drawn(text'[g], serial)
      /\ text'[Current] = new /\ \A g \in Files : g # Current => text'[g] = text[g]
  <2>1. text' = [text EXCEPT ![Current] = new] /\ new \in Seq(Lines)
    BY <1>1, <1>4 DEF new
  <2> QED BY <1>2, <1>5, <2>1, TextChanged
<1>7. TypeInv'
    BY <1>1, <1>2, <1>6 DEF TypeInv
<1>8. StageInv'
    BY <1>1, IdleTyped DEF StageInv
<1> QED BY <1>2, <1>3, <1>6, <1>7, <1>8 DEF Basic, old, new

LEMMA DamageBasic ==
    ASSUME Basic, NEW f \in Present, NEW lines \in Seq(Lines), Drawn(lines, serial),
           Damage(f, lines)
    PROVE  Basic'
<1>1. /\ text' = [text EXCEPT ![f] = lines] /\ call = Idle /\ ~ torn
      /\ report' = "none" /\ damages' = damages + 1
      /\ UNCHANGED <<name, torn, call, serial, acked, aborts, tears>>
    BY DEF Damage
<1>2. TypeInv /\ serial \in Nat /\ f \in Files
      /\ serial + 1 \in Nat /\ serial <= serial + 1 /\ serial <= serial
    BY DEF Basic, TypeInv, Present
<1>3. text' \in [Files -> Seq(Lines)] /\ \A g \in Files : Drawn(text'[g], serial)
    BY <1>1, <1>2, TextChanged
<1>4. TypeInv'
    BY <1>1, <1>2, <1>3 DEF TypeInv
<1>5. StageInv'
    BY <1>1, IdleTyped DEF StageInv
<1> QED BY <1>4, <1>5 DEF Basic

\* Lines that were swapped, removed or lost.
LEMMA DamagedIs ==
    ASSUME Basic, DamageAny
    PROVE  \E f \in Present : \E lines \in Seq(Lines) :
               Drawn(lines, serial) /\ (Legible(text[f]) => Legible(lines)) /\ Damage(f, lines)
<1>1. PICK f \in Present :
        \/ \E i \in 1..(Len(text[f]) - 1) : Damage(f, Swapped(text[f], i))
        \/ \E i \in DOMAIN text[f] : Len(text[f]) > 1 /\ Damage(f, RemoveAt(text[f], i))
        \/ f \in Segments /\ Damage(f, <<>>)
    BY DEF DamageAny
<1>2. PICK old \in Seq(Lines) : old = text[f] /\ Drawn(old, serial)
    BY DEF Basic, TypeInv, Present
<1>3. Len(old) \in Nat /\ DOMAIN old = 1..Len(old)
    BY LenProperties
<1>4. \A i \in 1..Len(old) : old[i] \in Lines
    BY ElementOfSeq
<1>5. ASSUME NEW i \in 1..(Len(old) - 1)
      PROVE  /\ Swapped(old, i) \in Seq(Lines) /\ Drawn(Swapped(old, i), serial)
             /\ Legible(old) => Legible(Swapped(old, i))
  <2>1. i \in 1..Len(old) /\ i + 1 \in 1..Len(old)
    BY <1>3
  <2> DEFINE half == [old EXCEPT ![i] = old[i + 1]]
  <2>2. /\ half \in Seq(Lines) /\ Len(half) = Len(old)
        /\ \A j \in 1..Len(old) : half[j] = IF j = i THEN old[i + 1] ELSE old[j]
    BY <1>4, <2>1, ExceptSeq
  <2> HIDE DEF half
  <2> DEFINE new == [half EXCEPT ![i + 1] = old[i]]
  <2>3. /\ new \in Seq(Lines) /\ Len(new) = Len(old)
        /\ \A j \in 1..Len(old) : new[j] = IF j = i + 1 THEN old[i] ELSE half[j]
    BY <1>4, <2>1, <2>2, ExceptSeq
  <2>4. Swapped(old, i) = new
    BY DEF Swapped, half
  <2> HIDE DEF new
  <2>5. Drawn(new, serial)
    BY <1>2, <2>1, <2>2, <2>3 DEF Drawn
  <2>6. Legible(old) => Legible(new)
    BY <2>1, <2>2, <2>3 DEF Legible
  <2> QED BY <2>3, <2>4, <2>5, <2>6
<1>6. ASSUME NEW i \in 1..Len(old)
      PROVE  /\ RemoveAt(old, i) \in Seq(Lines) /\ Drawn(RemoveAt(old, i), serial)
             /\ Legible(old) => Legible(RemoveAt(old, i))
  <2> DEFINE kinds == {old[j].kind : j \in 1..Len(old)}
  <2> DEFINE Fine == {l \in Lines : l.sha \in 1..serial /\ l.id \in 0..serial /\ l.kind \in kinds}
  <2>9. \A j \in 1..Len(old) : old[j].kind \in kinds
    OBVIOUS
  <2>10. Legible(old) => "mangled" \notin kinds
    BY DEF Legible
  <2> HIDE DEF kinds
  <2>1. \A j \in 1..Len(old) : old[j] \in Fine
    BY <1>2, <1>4, <2>9 DEF Drawn
  <2> HIDE DEF Fine
  <2>2. SubSeq(old, 1, i - 1) \in Seq(Fine)
    <3>1. 1 \in Int /\ i - 1 \in Int /\ \A j \in 1..(i - 1) : j \in 1..Len(old)
      BY <1>3
    <3>2. \A j \in 1..(i - 1) : old[j] \in Fine
      BY <2>1, <3>1
    <3> QED BY <3>1, <3>2, SubSeqProperties, Zenon
  <2>3. SubSeq(old, i + 1, Len(old)) \in Seq(Fine)
    <3>1. i + 1 \in Int /\ Len(old) \in Int /\ \A j \in (i + 1)..Len(old) : j \in 1..Len(old)
      BY <1>3
    <3>2. \A j \in (i + 1)..Len(old) : old[j] \in Fine
      BY <2>1, <3>1
    <3> QED BY <3>1, <3>2, SubSeqProperties, Zenon
  <2>4. RemoveAt(old, i) \in Seq(Fine)
    BY <2>2, <2>3, ConcatProperties, Zenon DEF RemoveAt
  <2>5. \A j \in 1..Len(RemoveAt(old, i)) : RemoveAt(old, i)[j] \in Fine
    BY <2>4, ElementOfSeq, Zenon
  <2>6. RemoveAt(old, i) \in Seq(Lines)
    BY <2>4, SeqMonotonic, Fine \subseteq Lines DEF Fine
  <2>7. Drawn(RemoveAt(old, i), serial)
    BY <2>5 DEF Fine, Drawn
  <2>8. Legible(old) => Legible(RemoveAt(old, i))
    <3>1. \A j \in 1..Len(RemoveAt(old, i)) : RemoveAt(old, i)[j].kind \in kinds
      BY <2>5 DEF Fine
    <3> QED BY <2>10, <3>1 DEF Legible
  <2> QED BY <2>6, <2>7, <2>8
<1>7. <<>> \in Seq(Lines) /\ Drawn(<<>>, serial) /\ Legible(<<>>)
    BY EmptySeq DEF Drawn, Legible
<1> QED BY <1>1, <1>2, <1>3, <1>5, <1>6, <1>7

LEMMA UnchangedBasic ==
    ASSUME Basic, UNCHANGED vars
    PROVE  Basic'
BY DEF Basic, TypeInv, StageInv, Present, vars

\* The types of the variables and the stages of a call hold.
LEMMA BasicInvariant == Spec => []Basic
<1>1. Basic /\ [Next]_vars => Basic'
  <2> SUFFICES ASSUME Basic, [Next]_vars PROVE Basic'
    OBVIOUS
  <2>1. CASE DamageAny
    BY <2>1, DamagedIs, DamageBasic
  <2>2. CASE ~ DamageAny
    BY <2>2, AppendBeginBasic, SealBasic, ReplaceBasic, AppendWriteBasic, AppendTornBasic,
       RowBasic, RebuildBasic, RepairBeginBasic, RepairSkipBasic, RepairFileBasic,
       RepairRenameBasic, AbortBasic, TailCutBasic, UnchangedBasic DEF Next, Written
  <2> QED BY <2>1, <2>2
<1> QED BY <1>1, InitBasic, PTL DEF Spec

LEMMA BasicTypeOK == Basic => TypeOK
<1> SUFFICES ASSUME Basic PROVE TypeOK
    OBVIOUS
<1>1. \A f \in Files : text[f] \in Seq(Lines) /\ Drawn(text[f], serial)
    BY DEF Basic, TypeInv
<1>2. \A f \in Files : \A i \in DOMAIN text[f] :
         text[f][i].kind \in Kinds /\ text[f][i].sha \in 1..serial
  <2> TAKE f \in Files
  <2> TAKE i \in DOMAIN text[f]
  <2>1. i \in 1..Len(text[f])
    BY <1>1, LenProperties
  <2>2. text[f][i] \in Lines
    BY <1>1, <2>1, ElementOfSeq
  <2> QED BY <1>1, <2>1, <2>2 DEF Lines, Drawn
<1>3. call.stage \in Stages /\ call.at \in 0..Current
    BY DEF Basic, TypeInv, Calls
<1> QED BY <1>2, <1>3 DEF Basic, TypeInv, StageInv, TypeOK, Kinds

\* The types of the log, through every interleaving of writers, repairs and deaths.
THEOREM TypeCorrect == Spec => []TypeOK
BY BasicInvariant, BasicTypeOK, PTL

-----------------------------------------------------------------------------
(* The repair: what it leaves behind is linked *)

Whole(f) == Named(f) /\ HasLink(f) /\ Chained(f)

LinkOf(f) == [segment |-> f, name |-> NameOf(f), digest |-> DigestOf(text[f])]

\* While a repair has met no error the files behind it are whole, and it knows the link
\* of the last of them.
RepairInv ==
    /\ call.stage \in {"repair", "rename"} =>
         /\ ~ SequenceIssue /\ ~ OrphanMarker
         /\ ~ call.errors =>
              /\ \A f \in Before(call.at) : Whole(f)
              /\ LinkExpected => call.link = LinkOf(Highest(Before(call.at)))
              /\ call.stage = "rename" => HasLink(call.at) /\ Chained(call.at)
    /\ report = "ok" => Linked

LEMMA BeforeAndAfter ==
    ASSUME NEW f \in Present
    PROVE  /\ Before(f) \subseteq Files /\ After(f) \subseteq Files /\ f \in Files
           /\ After(f) = {} => Present = Before(f) \cup {f}
           /\ After(f) # {} =>
                /\ Lowest(After(f)) \in Present
                /\ Before(Lowest(After(f))) = Before(f) \cup {f}
                /\ Highest(Before(f) \cup {f}) = f
           /\ Before(f) = {} => f = Lowest(Present)
           /\ Before(f) # {} => Highest(Before(f)) \in Before(f)
<1> USE FileFacts
<1>1. Before(f) \subseteq Files /\ After(f) \subseteq Files /\ Present \subseteq Files
    BY DEF Before, After, Present
<1>2. f \in Files /\ f \in Nat /\ Present \subseteq Nat
    BY <1>1
<1>3. After(f) = {} => Present = Before(f) \cup {f}
  <2>1. \A g \in Present : g \in Nat /\ f \in Nat
    BY <1>2
  <2>2. \A g \in Present : g < f \/ f < g \/ g = f
    BY <2>1
  <2> QED BY <2>2 DEF After, Before
<1>4. ASSUME After(f) # {}
      PROVE  /\ Lowest(After(f)) \in Present
             /\ Before(Lowest(After(f))) = Before(f) \cup {f}
             /\ Highest(Before(f) \cup {f}) = f
  <2>1. PICK low \in After(f) : low = Lowest(After(f)) /\ \A g \in After(f) : low <= g
    BY <1>1, <1>4, LowestIs
  <2>2. low \in Present /\ f < low
    BY <2>1 DEF After
  <2>3. Before(low) = Before(f) \cup {f}
    <3>1. \A g \in Present : g < low => g < f \/ g = f
      <4> TAKE g \in Present
      <4>1. g \in Nat /\ low \in Nat /\ f \in Nat
        BY <1>2, <2>2
      <4>2. f < g => low <= g
        BY <2>1 DEF After
      <4> QED BY <4>1, <4>2
    <3>2. \A g \in Present : g < f => g < low
      BY <1>2, <2>2
    <3> QED BY <2>2, <3>1, <3>2 DEF Before
  <2>4. /\ Before(f) \cup {f} \in SUBSET Files /\ f \in Before(f) \cup {f}
        /\ \A g \in Before(f) \cup {f} : g <= f
    BY <1>1, <1>2 DEF Before
  <2>5. Highest(Before(f) \cup {f}) = f
    BY <2>4, HighestIs
  <2> QED BY <2>1, <2>2, <2>3, <2>5
<1>5. ASSUME Before(f) = {}
      PROVE  f = Lowest(Present)
  <2>1. \A g \in Present : f <= g
    BY <1>2, <1>5 DEF Before
  <2> QED BY <1>1, <2>1, LowestIs
<1>6. Before(f) # {} => Highest(Before(f)) \in Before(f)
    BY <1>1, HighestIs
<1> QED BY <1>1, <1>3, <1>4, <1>5, <1>6

\* A file stays whole while it and the files before it stay as they are.
LEMMA WholeKept ==
    ASSUME NEW f \in Files,
           \A g \in Files : g <= f =>
               text'[g] = text[g] /\ (g \in Segments => name'[g] = name[g])
    PROVE  /\ Named(f) => Named(f)'
           /\ HasLink(f) => HasLink(f)'
           /\ Chained(f) => Chained(f)'
           /\ Before(f)' = Before(f) /\ LinkOf(f)' = LinkOf(f)
<1> USE FileFacts
<1>1. Before(f)' = Before(f) /\ f <= f /\ text'[f] = text[f]
  <2>1. f <= f /\ \A g \in Files : g < f => g <= f
    OBVIOUS
  <2> QED BY <2>1 DEF Before, Present
<1>2. \A g \in Files : g <= f => NameOf(g)' = NameOf(g)
    BY DEF NameOf
<1>3. Named(f) => Named(f)'
    BY <1>1 DEF Named
<1>4. Chained(f) => Chained(f)'
    BY <1>1 DEF Chained
<1>5. HasLink(f) => HasLink(f)'
  <2>1. CASE Before(f) = {}
    BY <1>1, <2>1 DEF HasLink
  <2>2. CASE Before(f) # {}
    <3>1. PICK g : g = Highest(Before(f))
      OBVIOUS
    <3>2. Highest(Before(f)') = g
      BY <1>1, <3>1
    <3>3. g \in Files /\ g <= f
      <4>1. Before(f) \in SUBSET Files /\ \A h \in Before(f) : h <= f
        BY DEF Before, Present
      <4> QED BY <2>2, <3>1, <4>1, HighestIs
    <3>4. text'[g] = text[g] /\ NameOf(g)' = NameOf(g)
      BY <1>2, <3>3
    <3>5. HasLink(f) => text[f][1].kind = "marker" /\
            text[f][1].link = [segment |-> g, name |-> NameOf(g), digest |-> DigestOf(text[g])]
      BY <2>2, <3>1 DEF HasLink
    <3>6. text'[f][1].kind = "marker" /\
            text'[f][1].link = [segment |-> g, name |-> NameOf(g)', digest |-> DigestOf(text'[g])]
          => HasLink(f)'
      BY <1>1, <2>2, <3>2 DEF HasLink
    <3> QED BY <1>1, <3>4, <3>5, <3>6
  <2> QED BY <2>1, <2>2
<1>6. LinkOf(f)' = LinkOf(f)
    BY <1>1, <1>2 DEF LinkOf
<1> QED BY <1>1, <1>3, <1>4, <1>5, <1>6

\* The repair goes on to the next file, or ends.
LEMMA NextRelinked ==
    ASSUME TypeInv, NEW f \in Present, NEW link \in Links, NEW errors \in BOOLEAN,
           RepairNext(f, link, errors), call # Idle, report = "none",
           Present' = Present, ~ SequenceIssue', ~ OrphanMarker',
           ~ errors => link = LinkOf(f)' /\ \A g \in Before(f) \cup {f} : Whole(g)'
    PROVE  RepairInv'
<1>1. f \in Files
    BY BeforeAndAfter
<1>2. CASE After(f) = {}
  <2>1. call' = Idle /\ report' = IF errors THEN "failed" ELSE "ok"
    BY <1>1, <1>2, NextCall
  <2>2. Present = Before(f) \cup {f}
    BY <1>2, BeforeAndAfter
  <2>3. ~ errors => Linked'
    BY <2>2 DEF Linked, Whole
  <2> QED BY <2>1, <2>3, IdleTyped DEF RepairInv
<1>3. CASE After(f) # {}
  <2>1. PICK low : low = Lowest(After(f))
    OBVIOUS
  <2>2. /\ report' = "none" /\ call'.stage = "repair" /\ call'.at = low
        /\ call'.link = link /\ call'.errors = errors
    BY <1>1, <1>3, <2>1, NextCall
  <2>3. Before(low) = Before(f) \cup {f} /\ Highest(Before(f) \cup {f}) = f
    BY <1>3, <2>1, BeforeAndAfter
  <2>4. Before(low)' = Before(low)
    BY DEF Before
  <2>5. Before(call.at)' = Before(f) \cup {f}
    BY <2>2, <2>3, <2>4
  <2>6. ASSUME ~ errors
        PROVE  /\ \A g \in Before(call.at)' : Whole(g)'
               /\ (call.link = LinkOf(Highest(Before(call.at))))'
    <3>1. Highest(Before(call.at))' = f
      BY <2>3, <2>5
    <3>2. LinkOf(Highest(Before(call.at)))' = LinkOf(f)'
      BY <3>1
    <3> QED BY <2>2, <2>5, <2>6, <3>2
  <2> QED BY <2>2, <2>6 DEF RepairInv
<1> QED BY <1>2, <1>3

LEMMA RelinkElsewhere ==
    ASSUME call'.stage \notin {"repair", "rename"}, report' # "ok"
    PROVE  RepairInv'
BY DEF RepairInv

LEMMA RelinkSame ==
    ASSUME RepairInv, UNCHANGED <<text, name, call, report>>
    PROVE  RepairInv'
<1>1. Present' = Present
    BY DEF Present
<1>2. SequenceIssue' = SequenceIssue /\ OrphanMarker' = OrphanMarker
    BY <1>1 DEF SequenceIssue, OrphanMarker
<1>3. \A f : Before(f)' = Before(f)
    BY <1>1 DEF Before
<1>4. \A f : NameOf(f)' = NameOf(f)
    BY DEF NameOf
<1>5. \A f : LinkOf(f)' = LinkOf(f)
    BY <1>4 DEF LinkOf
<1>6. \A f : Named(f)' = Named(f) /\ Chained(f)' = Chained(f)
    BY DEF Named, Chained
<1>7. \A f : HasLink(f)' = HasLink(f)
    BY <1>3, <1>4 DEF HasLink
<1>8. \A f : Whole(f)' = Whole(f)
    BY <1>6, <1>7 DEF Whole
<1>9. Linked' = Linked
    BY <1>1, <1>2, <1>6, <1>7 DEF Linked
<1>10. LinkExpected' = LinkExpected
    BY <1>3 DEF LinkExpected
<1> QED BY <1>2, <1>3, <1>5, <1>6, <1>7, <1>8, <1>9, <1>10 DEF RepairInv

LEMMA RepairBeginRelinks ==
    ASSUME Basic, RepairInv, RepairBegin
    PROVE  RepairInv'
<1>1. CASE report' = "failed" /\ call' = call
    BY <1>1, IdleTyped, RelinkElsewhere DEF RepairBegin
<1>2. CASE /\ ~ SequenceIssue /\ ~ OrphanMarker /\ report' = "none"
           /\ call' = [Idle EXCEPT !.stage = "repair", !.at = Lowest(Present)]
  <2>1. PICK at : at = Lowest(Present)
    OBVIOUS
  <2>2. call'.stage = "repair" /\ call'.at = at
    BY <1>2, <2>1 DEF Idle
  <2>3. Present' = Present /\ text' = text /\ name' = name
    BY DEF Present, RepairBegin
  <2>4. ~ SequenceIssue' /\ ~ OrphanMarker'
    BY <1>2, <2>3 DEF SequenceIssue, OrphanMarker
  <2>5. Before(call.at)' = {}
    <3>1. Present \in SUBSET Files /\ Present # {}
      BY DEF Present, RepairBegin
    <3>2. at \in Present /\ \A g \in Present : at <= g
      BY <2>1, <3>1, LowestIs
    <3>3. \A g \in Present : ~ (g < at)
      BY <3>1, <3>2, FileFacts
    <3> QED BY <2>2, <2>3, <3>3 DEF Before
  <2> QED BY <1>2, <2>2, <2>4, <2>5 DEF RepairInv, LinkExpected
<1> QED BY <1>1, <1>2 DEF RepairBegin

LEMMA RepairSkipRelinks ==
    ASSUME Basic, RepairInv, RepairSkip
    PROVE  RepairInv'
<1>1. /\ UNCHANGED <<text, name>>
      /\ call.stage = "repair" /\ RepairNext(call.at, call.link, TRUE)
    BY DEF RepairSkip
<1>2. call.at \in Present /\ call # Idle /\ call.link \in Links /\ TypeInv /\ report = "none"
    BY <1>1, IdleTyped DEF Basic, TypeInv, StageInv, Calls
<1>3. Present' = Present
    BY <1>1 DEF Present
<1>4. ~ SequenceIssue' /\ ~ OrphanMarker'
    BY <1>1, <1>3 DEF RepairInv, SequenceIssue, OrphanMarker
<1> QED BY <1>1, <1>2, <1>3, <1>4, NextRelinked

LEMMA RepairFileRelinks ==
    ASSUME Basic, RepairInv, RepairFile
    PROVE  RepairInv'
<1> USE FileFacts
<1>1. PICK f, link, lines : /\ f = call.at /\ link = IF LinkExpected THEN call.link ELSE NoLink
                            /\ lines = Rewritten(text[f], link)
    OBVIOUS
<1>2. /\ f \in Files /\ f \in Present /\ TypeInv /\ call # Idle /\ report = "none"
      /\ text[f] \in Seq(Lines) /\ Len(text[f]) \in Nat \ {0}
      /\ lines \in Seq(Lines) /\ lines # <<>> /\ Len(lines) = Len(text[f])
      /\ lines[1].link = link
      /\ \A i \in 1..Len(lines) : lines[i].kind = text[f][i].kind
      /\ \A i \in 1..Len(lines) : lines[i].kind = "junk" \/ lines[i].prev = ShaAbove(lines, i)
      /\ text'[f] = lines
      /\ \A g \in Files : g # f => text'[g] = text[g]
      /\ Present' = Present /\ name' = name
      /\ LinkTo(f, lines) \in Links
      /\ \/ /\ f # Current /\ name[f] # DigestOf(lines)
            /\ call' = [call EXCEPT !.stage = "rename"] /\ report' = "none"
         \/ /\ f = Current \/ name[f] = DigestOf(lines)
            /\ RepairNext(f, LinkTo(f, lines), call.errors)
    BY <1>1, FileRepaired DEF Chain
<1>3. /\ call.stage = "repair" /\ ~ MarkerMissing /\ ~ SequenceIssue /\ ~ OrphanMarker
      /\ ~ call.errors =>
           /\ \A g \in Before(f) : Whole(g)
           /\ LinkExpected => call.link = LinkOf(Highest(Before(f)))
    BY <1>1 DEF RepairFile, RepairInv
<1>4. /\ Before(f) \subseteq Files /\ Present \subseteq Files
      /\ Before(f) # {} => Highest(Before(f)) \in Before(f)
      /\ Before(f) = {} => f = Lowest(Present)
    BY <1>2, BeforeAndAfter DEF Present
<1>5. \A g \in Before(f) : g \in Files /\ g < f /\ g # f /\ \A h \in Files : h <= g => h # f
    BY <1>2, <1>4 DEF Before
<1>6. \A g \in Present : text'[g][1].kind = text[g][1].kind
    BY <1>2, <1>4
<1>7. ~ SequenceIssue' /\ ~ OrphanMarker'
  <2>1. SequenceIssue' = SequenceIssue
    BY <1>2 DEF SequenceIssue
  <2>2. Present # {} => Lowest(Present) \in Present
    BY <1>4, LowestIs
  <2>3. OrphanMarker' => OrphanMarker
    BY <1>2, <1>6, <2>2 DEF OrphanMarker
  <2> QED BY <1>3, <2>1, <2>3
<1>8. \A g \in Before(f) : (Whole(g) => Whole(g)') /\ LinkOf(g)' = LinkOf(g)
  <2> TAKE g \in Before(f)
  <2>1. g \in Files /\ \A h \in Files : h <= g => text'[h] = text[h]
    BY <1>2, <1>5
  <2> QED BY <1>2, <2>1, WholeKept DEF Whole
<1>9. ~ call.errors => \A g \in Before(f) : Whole(g)'
    BY <1>3, <1>8
<1>10. Before(f)' = Before(f)
    BY <1>2 DEF Before
<1>11. Chained(f)'
  <2>1. DOMAIN lines = 1..Len(lines)
    BY <1>2, LenProperties
  <2> QED BY <1>2, <2>1 DEF Chained
<1>12. ~ call.errors => HasLink(f)'
  <2>1. CASE Before(f) = {}
    <3>1. text[f][1].kind # "marker"
      BY <1>2, <1>3, <1>4, <2>1 DEF OrphanMarker
    <3> QED BY <1>2, <1>6, <1>10, <2>1, <3>1 DEF HasLink
  <2>2. CASE Before(f) # {}
    <3>1. LinkExpected
      BY <1>1, <2>2 DEF LinkExpected
    <3>2. text[f][1].kind = "marker" /\ link = call.link
      BY <1>1, <1>3, <3>1 DEF MarkerMissing
    <3>3. PICK g \in Before(f) : g = Highest(Before(f))
      BY <1>4, <2>2
    <3>4. ~ call.errors => link = LinkOf(g)'
      BY <1>3, <1>8, <3>1, <3>2, <3>3
    <3>5. Highest(Before(f)') = g
      BY <1>10, <3>3
    <3>6. text'[f][1].kind = "marker" /\ text'[f][1].link = link
      BY <1>2, <1>6, <3>2
    <3> QED BY <1>10, <2>2, <3>4, <3>5, <3>6 DEF HasLink, LinkOf
  <2> QED BY <2>1, <2>2
<1>13. CASE f # Current /\ call' = [call EXCEPT !.stage = "rename"] /\ report' = "none"
  <2>1. /\ call'.stage = "rename" /\ call'.at = f /\ call'.errors = call.errors
        /\ call'.link = call.link
    BY <1>1, <1>2, <1>13 DEF TypeInv, Calls
  <2>2. Before(call.at)' = Before(f)
    BY <1>10, <2>1
  <2>3. HasLink(call.at)' = HasLink(f)' /\ Chained(call.at)' = Chained(f)'
    BY <2>1
  <2>4. ~ call.errors /\ LinkExpected' => call'.link = LinkOf(Highest(Before(call.at)))'
    <3>1. SUFFICES ASSUME ~ call.errors, LinkExpected'
                   PROVE  call'.link = LinkOf(Highest(Before(call.at)))'
      OBVIOUS
    <3>2. Before(f) # {} /\ LinkExpected
      BY <1>1, <2>2, <3>1 DEF LinkExpected
    <3>3. PICK g \in Before(f) : g = Highest(Before(f))
      BY <1>4, <3>2
    <3>4. Highest(Before(call.at))' = g
      BY <2>2, <3>3
    <3>5. LinkOf(Highest(Before(call.at)))' = LinkOf(g)'
      BY <3>4
    <3> QED BY <1>3, <1>8, <2>1, <3>1, <3>2, <3>3, <3>5
  <2> QED BY <1>7, <1>9, <1>11, <1>12, <1>13, <2>1, <2>2, <2>3, <2>4 DEF RepairInv
<1>14. CASE /\ f = Current \/ name[f] = DigestOf(lines)
            /\ RepairNext(f, LinkTo(f, lines), call.errors)
  <2>1. Named(f)'
    BY <1>2, <1>14 DEF Named
  <2>2. LinkTo(f, lines) = LinkOf(f)'
    BY <1>2, <1>14 DEF LinkTo, LinkOf, NameOf
  <2>3. ~ call.errors => \A g \in Before(f) \cup {f} : Whole(g)'
    BY <1>9, <1>11, <1>12, <2>1 DEF Whole
  <2>4. call.errors \in BOOLEAN
    BY <1>2 DEF TypeInv, Calls
  <2> QED BY <1>2, <1>7, <1>14, <2>2, <2>3, <2>4, NextRelinked
<1> QED BY <1>2, <1>13, <1>14

LEMMA RepairRenameRelinks ==
    ASSUME Basic, RepairInv, RepairRename
    PROVE  RepairInv'
<1> USE FileFacts
<1>1. PICK f : f = call.at
    OBVIOUS
<1>2. /\ UNCHANGED <<text, torn, serial, acked, aborts, tears, damages>>
      /\ name' = [name EXCEPT ![f] = DigestOf(text[f])]
      /\ call.stage = "rename" /\ RepairNext(f, LinkTo(f, text[f]), call.errors)
    BY <1>1 DEF RepairRename, counters
<1>3. f \in Present /\ call # Idle /\ TypeInv /\ f \in Segments /\ f \in Files
      /\ call.errors \in BOOLEAN /\ report = "none" /\ text[f] \in Seq(Lines)
    BY <1>1, <1>2, IdleTyped, FileFacts DEF Basic, TypeInv, StageInv, Calls, Present
<1>4. LinkTo(f, text[f]) \in Links
    BY <1>3, LinkTyped
<1>5. Present' = Present
    BY <1>2 DEF Present
<1>6. name'[f] = DigestOf(text[f]) /\ \A g \in Segments : g # f => name'[g] = name[g]
    BY <1>2, <1>3 DEF TypeInv
<1>7. /\ ~ SequenceIssue /\ ~ OrphanMarker
      /\ ~ call.errors => /\ \A g \in Before(f) : Whole(g)
                          /\ HasLink(f) /\ Chained(f)
    BY <1>1, <1>2 DEF RepairInv
<1>8. ~ SequenceIssue' /\ ~ OrphanMarker'
    BY <1>2, <1>5, <1>7 DEF SequenceIssue, OrphanMarker
<1>9. \A g \in Before(f) : g \in Files /\ g < f /\ \A h \in Files : h <= g => h # f
    BY <1>3 DEF Before, Present
<1>10. ~ call.errors => \A g \in Before(f) : Whole(g)'
  <2> SUFFICES ASSUME ~ call.errors, NEW g \in Before(f) PROVE Whole(g)'
    OBVIOUS
  <2>1. /\ g \in Files
        /\ \A h \in Files : h <= g => text'[h] = text[h] /\ (h \in Segments => name'[h] = name[h])
    BY <1>2, <1>6, <1>9
  <2>2. Whole(g) => Whole(g)'
    BY <1>5, <2>1, WholeKept DEF Whole
  <2> QED BY <1>7, <2>2
<1>11. Named(f)'
    BY <1>2, <1>6 DEF Named
<1>12. Chained(f) => Chained(f)'
    BY <1>2 DEF Chained
<1>13. HasLink(f) => HasLink(f)'
  <2>1. Before(f)' = Before(f)
    BY <1>5 DEF Before
  <2>2. CASE Before(f) = {}
    BY <1>2, <2>1, <2>2 DEF HasLink
  <2>3. CASE Before(f) # {}
    <3>1. PICK g \in Before(f) : g = Highest(Before(f))
      BY <1>3, <2>3, BeforeAndAfter
    <3>2. g \in Files /\ g # f
      BY <1>3, <1>9
    <3>3. NameOf(g)' = NameOf(g)
      BY <1>6, <3>2 DEF NameOf
    <3>4. Highest(Before(f)') = g
      BY <2>1, <3>1
    <3> QED BY <1>2, <2>1, <2>3, <3>1, <3>3, <3>4 DEF HasLink
  <2> QED BY <2>2, <2>3
<1>14. ~ call.errors => \A g \in Before(f) \cup {f} : Whole(g)'
    BY <1>7, <1>10, <1>11, <1>12, <1>13 DEF Whole
<1>15. LinkTo(f, text[f]) = LinkOf(f)'
    BY <1>2, <1>3, <1>6 DEF LinkTo, LinkOf, NameOf
<1> QED BY <1>2, <1>3, <1>4, <1>5, <1>8, <1>14, <1>15, NextRelinked

LEMMA StepRelinks ==
    ASSUME Basic, RepairInv, [Next]_vars
    PROVE  RepairInv'
<1>1. CASE UNCHANGED vars \/ RebuildIndex
  <2>1. CASE UNCHANGED vars
    BY <2>1, RelinkSame DEF vars
  <2>2. CASE RebuildIndex
    BY <2>2, IdleTyped, RelinkElsewhere DEF RebuildIndex
  <2> QED BY <1>1, <2>1, <2>2
<1>2. CASE \E size \in Sizes : AppendBegin(size)
  <2>1. PICK size \in Sizes : AppendBegin(size)
    BY <1>2
  <2>2. report' = "none" /\ call'.stage \in {"seal", "append"}
    BY <2>1 DEF AppendBegin, Idle
  <2> QED BY <2>2, RelinkElsewhere
<1>3. CASE Seal \/ Replace \/ AppendWrite
  <2>1. call # Idle /\ report' = report
    BY <1>3, IdleTyped DEF Seal, Replace, AppendWrite
  <2>2. report' # "ok"
    BY <2>1 DEF Basic, StageInv
  <2>3. call'.stage \in {"replace", "append", "row", "rebuild"}
    BY <1>3 DEF Seal, Replace, AppendWrite, Basic, TypeInv, Calls
  <2> QED BY <2>2, <2>3, RelinkElsewhere
<1>4. CASE IndexRow \/ IndexAfterRotation \/ Abort
         \/ (\E kind \in Written : AppendTorn(kind))
  <2>1. call # Idle /\ report' = report /\ call' = Idle
    BY <1>4, IdleTyped DEF IndexRow, IndexAfterRotation, Abort, AppendTorn
  <2>2. report' # "ok"
    BY <2>1 DEF Basic, StageInv
  <2> QED BY <2>1, <2>2, IdleTyped, RelinkElsewhere
<1>5. CASE DamageAny \/ TailCut
  <2>1. call' = Idle /\ report' = "none"
    BY <1>5 DEF DamageAny, Damage, TailCut
  <2> QED BY <2>1, IdleTyped, RelinkElsewhere
<1> QED BY <1>1, <1>2, <1>3, <1>4, <1>5, RepairBeginRelinks, RepairSkipRelinks,
       RepairFileRelinks, RepairRenameRelinks DEF Next, Written

\* A repair that reports ok leaves the log linked and chained.
THEOREM RepairIsSound == Spec => []RepairRelinks
<1>1. Init => RepairInv
    BY IdleTyped DEF Init, RepairInv
<1>2. Basic /\ RepairInv /\ [Next]_vars => RepairInv'
    BY StepRelinks
<1>3. RepairInv => RepairRelinks
    BY DEF RepairInv, RepairRelinks
<1> QED BY <1>1, <1>2, <1>3, BasicInvariant, PTL DEF Spec

-----------------------------------------------------------------------------
(* What append_audit returned for stays readable *)

\* Only the end of the current file can be mangled, and nobody is at work then.
TailInv == \A f \in Files : \A i \in 1..Len(text[f]) :
    text[f][i].kind = "mangled" => f = Current /\ torn /\ i = Len(text[f]) /\ call = Idle

LEMMA TailLegible ==
    ASSUME Basic, TailInv, ~ torn \/ call # Idle \/ ~ Unreadable(Current)
    PROVE  \A f \in Files : Legible(text[f])
<1>1. ~ Unreadable(Current) => Legible(text[Current])
    BY UnreadableIs, FileFacts DEF Basic
<1> QED BY <1>1 DEF TailInv, Legible

LEMMA LegibleTail ==
    ASSUME \A f \in Files : Legible(text'[f])
    PROVE  TailInv'
BY DEF TailInv, Legible

LEMMA WriteTail ==
    ASSUME Basic, TailInv, AppendWrite \/ (\E kind \in Written : AppendTorn(kind))
    PROVE  TailInv'
<1> USE FileFacts
<1>1. \A f \in Files : Legible(text[f])
  <2>1. call # Idle
    BY IdleTyped DEF AppendWrite, AppendTorn
  <2> QED BY <2>1, TailLegible
<1>2. PICK kind \in Written :
        /\ text' = [text EXCEPT ![Current] = Appended(Record(kind))]
        /\ kind = "mangled" => torn' /\ call' = Idle
    BY DEF AppendWrite, AppendTorn, Written
<1>3. PICK old \in Seq(Lines), new \in Seq(Lines) :
        /\ old = text[Current] /\ new = Appended(Record(kind)) /\ Len(new) \in Nat \ {0}
        /\ \A i \in 1..(Len(new) - 1) : i \in 1..Len(old) /\ new[i] = old[i]
        /\ torn /\ kind # "mangled" /\ Legible(old) => new[Len(new)].kind = "junk"
        /\ ~ torn => new[Len(new)].kind = kind
  <2>1. TypeInv /\ StageInv /\ text[Current] \in Seq(Lines)
    BY DEF Basic, TypeInv
  <2> QED BY <2>1, AppendedIs, SMTT(60)
<1>4. text'[Current] = new /\ \A g \in Files : g # Current => text'[g] = text[g]
    BY <1>2, <1>3 DEF Basic, TypeInv
<1>5. \A i \in 1..Len(new) : new[i].kind = "mangled" => i = Len(new) /\ kind = "mangled"
  <2> TAKE i \in 1..Len(new)
  <2>1. CASE i = Len(new)
    BY <1>1, <1>3, <2>1 DEF Basic, TypeInv
  <2>2. CASE i # Len(new)
    <3>1. i \in 1..(Len(new) - 1)
      BY <1>3, <2>2
    <3> QED BY <1>1, <1>3, <3>1 DEF Legible
  <2> QED BY <2>1, <2>2
<1> QED BY <1>1, <1>2, <1>4, <1>5 DEF TailInv, Legible

LEMMA RotateTail ==
    ASSUME Basic, TailInv, Seal \/ Replace \/ RepairFile
    PROVE  TailInv'
<1> USE FileFacts
<1>1. \A f \in Files : Legible(text[f])
  <2>1. call # Idle
    BY IdleTyped DEF Seal, Replace, RepairFile
  <2> QED BY <2>1, TailLegible
<1>2. CASE Seal
  <2>1. text' = text \/ \E s \in Segments : text' = [text EXCEPT ![s] = text[Current]]
    BY <1>2 DEF Seal
  <2> QED BY <1>1, <2>1, LegibleTail DEF Basic, TypeInv
<1>3. CASE Replace
  <2>1. PICK line : line = Line("marker", 1, 0, LinkTo(call.at, text[Current]))
    OBVIOUS
  <2>3. text' = [text EXCEPT ![Current] = <<line>>] /\ line.kind = "marker"
    BY <1>3, <2>1 DEF Replace, Line
  <2>2. Legible(<<line>>)
    BY <2>3 DEF Legible
  <2> QED BY <1>1, <2>2, <2>3, LegibleTail DEF Basic, TypeInv
<1>4. CASE RepairFile
  <2>1. PICK f, link, lines :
             /\ f = call.at /\ link = IF LinkExpected THEN call.link ELSE NoLink
             /\ lines = Rewritten(text[f], link)
    OBVIOUS
  <2>2. /\ f \in Files /\ Len(lines) = Len(text[f])
        /\ \A i \in 1..Len(lines) : lines[i].kind = text[f][i].kind
        /\ text'[f] = lines /\ \A g \in Files : g # f => text'[g] = text[g]
    BY <1>4, <2>1, FileRepaired DEF Chain
  <2>3. Legible(lines)
    BY <1>1, <2>2 DEF Legible
  <2> QED BY <1>1, <2>2, <2>3, LegibleTail
<1> QED BY <1>2, <1>3, <1>4

LEMMA CutTail ==
    ASSUME Basic, TailInv, TailCut
    PROVE  /\ TailInv'
           /\ \A f \in Files : \A i \in 1..Len(text[f]) : text[f][i].kind # "mangled" =>
                i \in 1..Len(text'[f]) /\ text'[f][i] = text[f][i]
<1> USE FileFacts
<1>1. PICK old \in Seq(Lines) :
        /\ old = text[Current] /\ old # <<>> /\ text'[Current] = Front(old)
        /\ \A g \in Files : g # Current => text'[g] = text[g]
    BY TailCutBasic
<1>2. /\ Len(Front(old)) = Len(old) - 1 /\ Len(old) \in Nat
      /\ \A i \in 1..(Len(old) - 1) : Front(old)[i] = old[i]
    BY <1>1, FrontIs, LenProperties
<1>3. ~ Legible(old)
    BY <1>1, UnreadableIs DEF TailCut, Basic
<1>4. PICK n \in 1..Len(old) : old[n].kind = "mangled" /\ n = Len(old)
    BY <1>1, <1>3 DEF Legible, TailInv
<1>5. \A f \in Files : Legible(text'[f])
  <2> TAKE f \in Files
  <2>1. CASE f = Current
    BY <1>1, <1>2, <2>1 DEF TailInv, Legible
  <2>2. CASE f # Current
    BY <1>1, <2>2 DEF TailInv, Legible
  <2> QED BY <2>1, <2>2
<1>6. ASSUME NEW f \in Files, NEW i \in 1..Len(text[f]), text[f][i].kind # "mangled"
      PROVE  i \in 1..Len(text'[f]) /\ text'[f][i] = text[f][i]
    BY <1>1, <1>2, <1>4, <1>6
<1> QED BY <1>5, <1>6, LegibleTail

LEMMA StepTail ==
    ASSUME Basic, TailInv, [Next]_vars
    PROVE  TailInv'
<1>1. CASE UNCHANGED vars \/ RebuildIndex
    BY <1>1 DEF vars, RebuildIndex, TailInv
<1>2. CASE \/ \E size \in Sizes : AppendBegin(size)
           \/ IndexRow \/ IndexAfterRotation \/ RepairSkip \/ RepairRename \/ Abort
  <2>1. text' = text /\ (call # Idle \/ ~ Unreadable(Current))
    BY <1>2, IdleTyped DEF AppendBegin, IndexRow, IndexAfterRotation, RepairSkip, RepairRename,
       Abort
  <2> QED BY <2>1, TailLegible, LegibleTail
<1>3. CASE RepairBegin
  <2>1. UNCHANGED <<text, torn>>
    BY <1>3 DEF RepairBegin
  <2>2. CASE call' = call
    BY <2>1, <2>2 DEF TailInv
  <2>3. CASE \A f \in Present : ~ Unreadable(f)
    <3>1. \A f \in Files : Legible(text[f])
      BY <2>3, UnreadableIs, EmptySeq DEF Present, Legible, Basic
    <3> QED BY <2>1, <3>1, LegibleTail
  <2> QED BY <1>3, <2>2, <2>3 DEF RepairBegin
<1>4. CASE DamageAny
  <2>1. PICK f \in Present : \E lines \in Seq(Lines) :
            (Legible(text[f]) => Legible(lines)) /\ Damage(f, lines)
    BY <1>4, DamagedIs
  <2>2. PICK lines \in Seq(Lines) : (Legible(text[f]) => Legible(lines)) /\ Damage(f, lines)
    BY <2>1
  <2>3. ~ torn /\ text' = [text EXCEPT ![f] = lines] /\ f \in Files
    BY <2>2 DEF Damage, Present
  <2>4. \A g \in Files : Legible(text[g])
    BY <2>3, TailLegible
  <2> QED BY <2>2, <2>3, <2>4, LegibleTail DEF Basic, TypeInv
<1> QED BY <1>1, <1>2, <1>3, <1>4, WriteTail, RotateTail, CutTail DEF Next, Written

LEMMA TailInvariant == Spec => []TailInv
<1>1. Init => TailInv
    BY EmptySeq DEF Init, TailInv
<1> QED BY <1>1, StepTail, BasicInvariant, PTL DEF Spec

Read == UNION {Intact(f) : f \in Files}

\* The events that have to be readable: also the one a call is about to return for.
Due == acked \cup (IF call.stage \in {"row", "rebuild"} THEN {call.id} ELSE {})

Missing == Due \ Read

\* A torn line is nobody's yet, and can be lost once.
AckInv == damages = 0 =>
    /\ torn => Last(text[Current]).kind \in Broken \/ Last(text[Current]).id \notin acked
    /\ Cardinality(Missing) + (IF torn THEN 1 ELSE 0) <= tears

LEMMA MissingFinite ==
    ASSUME Basic
    PROVE  IsFiniteSet(Missing) /\ Cardinality(Missing) \in Nat
<1>1. serial \in Nat /\ 1 \in Int /\ serial \in Int
    BY DEF Basic, TypeInv
<1>2. IsFiniteSet(1..serial)
    BY <1>1, FS_Interval
<1>3. Missing \subseteq 1..serial
    BY DEF Missing, Due, Basic, TypeInv, StageInv
<1>4. IsFiniteSet(Missing)
    BY <1>2, <1>3, FS_Subset
<1> QED BY <1>4, FS_CardinalityType

\* A line that parses is read; and all that is read is in such a line.
LEMMA ReadLine ==
    ASSUME NEW f \in Files, NEW i \in DOMAIN text[f], text[f][i].kind \notin Broken
    PROVE  text[f][i].id \in Read
<1>1. text[f][i].id \in Intact(f)
    BY DEF Intact
<1> QED BY <1>1, Zenon DEF Read

LEMMA ReadFrom ==
    ASSUME NEW x \in Read
    PROVE  \E f \in Files : \E i \in DOMAIN text[f] : text[f][i].kind \notin Broken /\ text[f][i].id = x
<1>1. PICK f \in Files : x \in Intact(f)
    BY Zenon DEF Read
<1>2. PICK i \in {j \in DOMAIN text[f] : text[f][j].kind \notin Broken} : x = text[f][i].id
    BY <1>1 DEF Intact
<1> QED BY <1>2

LEMMA ReadLater ==
    ASSUME NEW f \in Files, NEW i \in DOMAIN text'[f], text'[f][i].kind \notin Broken
    PROVE  text'[f][i].id \in Read'
<1>1. text'[f][i].id \in Intact(f)'
    BY DEF Intact
<1> QED BY <1>1, Zenon DEF Read

LEMMA MissingLess ==
    ASSUME Basic, Missing' \subseteq Missing
    PROVE  /\ Cardinality(Missing) \in Nat /\ Cardinality(Missing)' \in Nat
           /\ Cardinality(Missing)' <= Cardinality(Missing)
<1>1. IsFiniteSet(Missing) /\ Cardinality(Missing) \in Nat
    BY MissingFinite
<1>2. PICK new : new = Missing'
    OBVIOUS
<1>3. new \subseteq Missing
    BY <1>2
<1>4. IsFiniteSet(new) /\ Cardinality(new) <= Cardinality(Missing)
    BY <1>1, <1>3, FS_Subset
<1>5. Cardinality(new) \in Nat
    BY <1>4, FS_CardinalityType
<1> QED BY <1>1, <1>2, <1>4, <1>5

LEMMA MissingOneMore ==
    ASSUME Basic, NEW x, Missing' \subseteq Missing \cup {x}
    PROVE  /\ Cardinality(Missing) \in Nat /\ Cardinality(Missing)' \in Nat
           /\ Cardinality(Missing)' <= Cardinality(Missing) + 1
<1>1. IsFiniteSet(Missing) /\ Cardinality(Missing) \in Nat
    BY MissingFinite
<1>2. PICK new, more : new = Missing' /\ more = Missing \cup {x}
    OBVIOUS
<1>3. /\ IsFiniteSet(more)
      /\ Cardinality(more) = IF x \in Missing THEN Cardinality(Missing) ELSE Cardinality(Missing) + 1
    BY <1>1, <1>2, FS_AddElement
<1>4. new \subseteq more
    BY <1>2
<1>5. IsFiniteSet(new) /\ Cardinality(new) <= Cardinality(more)
    BY <1>3, <1>4, FS_Subset
<1>6. Cardinality(new) \in Nat /\ Cardinality(more) \in Nat
    BY <1>3, <1>5, FS_CardinalityType
<1>7. Cardinality(more) <= Cardinality(Missing) + 1
    BY <1>1, <1>3
<1> QED BY <1>1, <1>2, <1>5, <1>6, <1>7

\* Steps that leave the files alone and make nothing new due.
LEMMA AckSame ==
    ASSUME Basic, AckInv, UNCHANGED <<text, torn, tears, damages>>, Due' \subseteq Due,
           acked' = acked \/ ~ torn
    PROVE  AckInv'
<1>1. Read' = Read
  <2>1. \A f \in Files : Intact(f)' = Intact(f)
    BY DEF Intact
  <2> QED BY <2>1 DEF Read
<1>2. Missing' \subseteq Missing
    BY <1>1 DEF Missing
<1>3. /\ Cardinality(Missing) \in Nat /\ Cardinality(Missing)' \in Nat
      /\ Cardinality(Missing)' <= Cardinality(Missing)
    BY <1>2, MissingLess
<1> HIDE DEF Missing
<1> QED BY <1>3 DEF AckInv, Basic, TypeInv

\* Steps after which every line that parsed still does, somewhere.
LEMMA AckKept ==
    ASSUME Basic, AckInv, Read \subseteq Read', Due' \subseteq Due \cup (Read' \ Read),
           UNCHANGED <<tears, damages>>, acked' = acked,
           torn' => torn /\ Last(text'[Current]).kind = Last(text[Current]).kind
                         /\ Last(text'[Current]).id = Last(text[Current]).id,
           torn' \in BOOLEAN
    PROVE  AckInv'
<1>1. Missing' \subseteq Missing
    BY DEF Missing
<1>2. /\ Cardinality(Missing) \in Nat /\ Cardinality(Missing)' \in Nat
      /\ Cardinality(Missing)' <= Cardinality(Missing)
    BY <1>1, MissingLess
<1> QED BY <1>2 DEF AckInv, Basic, TypeInv

LEMMA SegmentIsNew ==
    ASSUME NEW s \in Segments, s = NextSegment
    PROVE  /\ text[s] = <<>> /\ s \notin Present
           /\ \A g \in Present \cap Segments : g < s
           /\ s = 1 \/ s - 1 \in Present
<1> USE FileFacts
<1>1. s \notin Present => text[s] = <<>>
    BY DEF Present
<1>2. CASE Present \cap Segments = {}
    BY <1>1, <1>2 DEF NextSegment
<1>3. CASE Present \cap Segments # {}
  <2>1. Present \cap Segments \in SUBSET Files
    BY DEF Present
  <2>2. PICK h \in Present \cap Segments : /\ h = Highest(Present \cap Segments)
                                          /\ \A g \in Present \cap Segments : g <= h
    BY <1>3, <2>1, HighestIs
  <2>3. s = h + 1 /\ h \in Nat
    BY <1>3, <2>2 DEF NextSegment
  <2>4. \A g \in Present \cap Segments : g \in Nat /\ g < s
    BY <2>2, <2>3
  <2>5. s \notin Present
    BY <2>4
  <2>6. s - 1 = h
    BY <2>3
  <2> QED BY <1>1, <2>4, <2>5, <2>6
<1> QED BY <1>2, <1>3

LEMMA SealAcked ==
    ASSUME Basic, AckInv, Seal
    PROVE  AckInv'
<1> USE FileFacts
<1>1. UNCHANGED <<torn, tears, damages, acked>> /\ torn \in BOOLEAN
    BY DEF Seal, counters, Basic, TypeInv
<1>2. Due' = Due
  <2>1. call.stage = "seal" /\ call'.stage = "replace"
    BY DEF Seal, Basic, TypeInv, Calls
  <2> QED BY <1>1, <2>1 DEF Due
<1>3. CASE SameText # {}
  <2>1. text' = text
    BY <1>3 DEF Seal
  <2> QED BY <1>1, <1>2, <2>1, AckSame
<1>4. CASE SameText = {}
  <2>1. PICK s \in Segments : s = NextSegment /\ text' = [text EXCEPT ![s] = text[Current]]
    BY <1>4 DEF Seal
  <2>2. text[s] = <<>>
    BY <2>1, SegmentIsNew
  <2>3. text'[s] = text[Current] /\ \A g \in Files : g # s => text'[g] = text[g]
    BY <2>1 DEF Basic, TypeInv
  <2>4. Read \subseteq Read'
    <3> SUFFICES ASSUME NEW x \in Read PROVE x \in Read'
      OBVIOUS
    <3>0. PICK f \in Files : \E i \in DOMAIN text[f] : text[f][i].kind \notin Broken /\ text[f][i].id = x
      BY ReadFrom
    <3>1. PICK i \in DOMAIN text[f] : text[f][i].kind \notin Broken /\ text[f][i].id = x
      BY <3>0
    <3>2. f # s
      BY <2>2, <3>1
    <3>3. text'[f] = text[f]
      BY <2>3, <3>2
    <3> QED BY <3>1, <3>3, ReadLater
  <2> QED BY <1>1, <1>2, <2>3, <2>4, AckKept
<1> QED BY <1>3, <1>4

LEMMA ReplaceAcked ==
    ASSUME Basic, AckInv, Replace
    PROVE  AckInv'
<1> USE FileFacts
<1>1. UNCHANGED <<tears, damages, acked>> /\ torn' = FALSE
    BY DEF Replace, counters
<1>2. Due' = Due
  <2>1. call.stage = "replace" /\ call'.stage = "append"
    BY DEF Replace, Basic, TypeInv, Calls
  <2> QED BY <1>1, <2>1 DEF Due
<1>3. \A g \in Files : g # Current => text'[g] = text[g]
    BY DEF Replace, Basic, TypeInv
<1>4. PICK s \in Segments : s = call.at /\ text[s] = text[Current]
    BY DEF Basic, StageInv, Replace
<1>5. Read \subseteq Read'
  <2> SUFFICES ASSUME NEW x \in Read PROVE x \in Read'
    OBVIOUS
  <2>0. PICK f \in Files : \E i \in DOMAIN text[f] : text[f][i].kind \notin Broken /\ text[f][i].id = x
    BY ReadFrom
  <2>1. PICK i \in DOMAIN text[f] : text[f][i].kind \notin Broken /\ text[f][i].id = x
    BY <2>0
  <2>2. CASE f = Current
    <3>1. text'[s] = text[f] /\ s \in Files
      BY <1>3, <1>4, <2>2
    <3> QED BY <2>1, <3>1, ReadLater
  <2>3. CASE f # Current
    <3>1. text'[f] = text[f]
      BY <1>3, <2>3
    <3> QED BY <2>1, <3>1, ReadLater
  <2> QED BY <2>2, <2>3
<1> QED BY <1>1, <1>2, <1>5, AckKept

\* An append keeps every line but a torn one, and adds its own if there was none.
LEMMA AppendReads ==
    ASSUME Basic, NEW kind \in Written,
           text' = [text EXCEPT ![Current] = Appended(Record(kind))]
    PROVE  /\ ~ torn => Read \subseteq Read'
           /\ torn => \A x \in Read : x \in Read' \/
                        (Last(text[Current]).kind \notin Broken /\ x = Last(text[Current]).id)
           /\ ~ torn /\ kind = "event" => serial + 1 \in Read'
           /\ torn => Last(text'[Current]).kind \in Broken
           /\ ~ torn => Last(text'[Current]).id = serial + 1
<1> USE FileFacts
<1>1. TypeInv /\ StageInv /\ text \in [Files -> Seq(Lines)]
    BY DEF Basic, TypeInv
<1>2. PICK old \in Seq(Lines), new \in Seq(Lines) :
        /\ old = text[Current] /\ new = Appended(Record(kind)) /\ Len(new) \in Nat \ {0}
        /\ Len(old) \in Nat
        /\ Len(new) = IF torn THEN Len(old) ELSE Len(old) + 1
        /\ \A i \in 1..(Len(new) - 1) : i \in 1..Len(old) /\ new[i] = old[i]
        /\ torn => new[Len(new)].kind \in Broken /\ Len(old) # 0
        /\ ~ torn => new[Len(new)].kind = kind /\ new[Len(new)].id = serial + 1
    BY <1>1, AppendedIs
<1>3. text'[Current] = new /\ \A g \in Files : g # Current => text'[g] = text[g]
    BY <1>1, <1>2
<1>4. /\ DOMAIN new = 1..Len(new) /\ DOMAIN old = 1..Len(old)
      /\ Last(new) = new[Len(new)] /\ Last(old) = old[Len(old)]
    BY LenProperties DEF Last
<1>5. \A f \in Files : f # Current => \A i \in DOMAIN text[f] :
         text[f][i].kind \notin Broken => text[f][i].id \in Read'
  <2> SUFFICES ASSUME NEW f \in Files, f # Current, NEW i \in DOMAIN text[f],
                      text[f][i].kind \notin Broken
               PROVE  text[f][i].id \in Read'
    OBVIOUS
  <2>1. text'[f] = text[f]
    BY <1>3
  <2> QED BY <2>1, ReadLater
<1>6. \A i \in 1..(Len(new) - 1) : old[i].kind \notin Broken => old[i].id \in Read'
  <2> SUFFICES ASSUME NEW i \in 1..(Len(new) - 1), old[i].kind \notin Broken
               PROVE  old[i].id \in Read'
    OBVIOUS
  <2>1. i \in 1..Len(new) /\ new[i] = old[i]
    BY <1>2
  <2> QED BY <1>3, <1>4, <2>1, ReadLater
<1>7. ~ torn => Read \subseteq Read'
  <2> SUFFICES ASSUME ~ torn, NEW x \in Read PROVE x \in Read'
    OBVIOUS
  <2>0. PICK f \in Files : \E i \in DOMAIN text[f] : text[f][i].kind \notin Broken /\ text[f][i].id = x
    BY ReadFrom
  <2>1. PICK i \in DOMAIN text[f] : text[f][i].kind \notin Broken /\ text[f][i].id = x
    BY <2>0
  <2>2. CASE f = Current
    <3>1. i \in 1..Len(old) /\ Len(new) - 1 = Len(old)
      BY <1>2, <1>4, <2>1, <2>2
    <3> QED BY <1>2, <1>6, <2>1, <2>2, <3>1
  <2> QED BY <1>5, <2>1, <2>2
<1>8. torn => \A x \in Read : x \in Read' \/ (Last(old).kind \notin Broken /\ x = Last(old).id)
  <2> SUFFICES ASSUME torn, NEW x \in Read
               PROVE  x \in Read' \/ (Last(old).kind \notin Broken /\ x = Last(old).id)
    OBVIOUS
  <2>0. PICK f \in Files : \E i \in DOMAIN text[f] : text[f][i].kind \notin Broken /\ text[f][i].id = x
    BY ReadFrom
  <2>1. PICK i \in DOMAIN text[f] : text[f][i].kind \notin Broken /\ text[f][i].id = x
    BY <2>0
  <2>2. CASE f = Current
    <3>1. i \in 1..Len(old) /\ Len(new) = Len(old)
      BY <1>2, <1>4, <2>1, <2>2
    <3>2. i = Len(old) \/ i \in 1..(Len(new) - 1)
      BY <1>2, <3>1
    <3> QED BY <1>2, <1>4, <1>6, <2>1, <2>2, <3>2
  <2> QED BY <1>5, <2>1, <2>2
<1>9. ~ torn /\ kind = "event" => serial + 1 \in Read'
  <2> SUFFICES ASSUME ~ torn, kind = "event" PROVE serial + 1 \in Read'
    OBVIOUS
  <2>1. PICK n : n = Len(new) /\ n \in DOMAIN text'[Current]
    BY <1>2, <1>3, <1>4
  <2>2. text'[Current][n].kind = "event" /\ text'[Current][n].id = serial + 1
    BY <1>2, <1>3, <2>1
  <2> QED BY <2>1, <2>2, ReadLater DEF Broken
<1> QED BY <1>2, <1>3, <1>4, <1>7, <1>8, <1>9

LEMMA AppendWriteAcked ==
    ASSUME Basic, AckInv, AppendWrite
    PROVE  AckInv'
<1>1. /\ text' = [text EXCEPT ![Current] = Appended(Record("event"))] /\ torn' = FALSE
      /\ acked' = acked /\ tears' = tears /\ damages' = damages /\ call.stage = "append"
    BY DEF AppendWrite, counters
<1>2. call'.id = serial + 1 /\ call'.stage \in {"row", "rebuild"}
    BY DEF AppendWrite, Basic, TypeInv, Calls
<1>3. Due = acked /\ Due' = acked \cup {serial + 1}
    BY <1>1, <1>2 DEF Due
<1>4. CASE ~ torn
  <2>1. Read \subseteq Read' /\ serial + 1 \in Read'
    BY <1>1, <1>4, AppendReads DEF Written
  <2>2. Missing' \subseteq Missing
    BY <1>3, <2>1 DEF Missing
  <2>3. /\ Cardinality(Missing) \in Nat /\ Cardinality(Missing)' \in Nat
        /\ Cardinality(Missing)' <= Cardinality(Missing)
    BY <2>2, MissingLess
  <2> QED BY <1>1, <1>4, <2>3 DEF AckInv, Basic, TypeInv
<1>5. CASE torn
  <2>1. ASSUME damages = 0
        PROVE  Cardinality(Missing)' \in Nat /\ Cardinality(Missing)' <= tears'
    <3>1. /\ Last(text[Current]).kind \in Broken \/ Last(text[Current]).id \notin acked
          /\ Cardinality(Missing) + 1 <= tears
      BY <1>5, <2>1 DEF AckInv
    <3>2. \A x \in Read : x \in Read' \/ x \notin acked
      BY <1>1, <1>5, <3>1, AppendReads DEF Written
    <3>3. Missing' \subseteq Missing \cup {serial + 1}
      BY <1>3, <3>2 DEF Missing
    <3>4. /\ Cardinality(Missing) \in Nat /\ Cardinality(Missing)' \in Nat
          /\ Cardinality(Missing)' <= Cardinality(Missing) + 1
      BY <3>3, MissingOneMore
    <3> QED BY <1>1, <3>1, <3>4 DEF Basic, TypeInv
  <2> QED BY <1>1, <2>1 DEF AckInv
<1> QED BY <1>4, <1>5 DEF Basic, TypeInv

LEMMA AppendTornAcked ==
    ASSUME Basic, AckInv, NEW kind \in Written, AppendTorn(kind)
    PROVE  AckInv'
<1>1. /\ text' = [text EXCEPT ![Current] = Appended(Record(kind))] /\ torn' = TRUE
      /\ acked' = acked /\ tears' = tears + 1 /\ damages' = damages /\ call' = Idle
      /\ call.stage = "append"
    BY DEF AppendTorn
<1>2. Due = acked /\ Due' = acked
    BY <1>1, IdleTyped DEF Due
<1>3. Last(text'[Current]).kind \in Broken \/ Last(text'[Current]).id \notin acked
  <2>1. serial + 1 \notin acked
    BY DEF Basic, TypeInv
  <2> QED BY <1>1, <2>1, AppendReads DEF Basic, TypeInv
<1>4. ASSUME damages = 0
      PROVE  Cardinality(Missing)' + 1 <= tears'
  <2>1. torn => Last(text[Current]).kind \in Broken \/ Last(text[Current]).id \notin acked
    BY <1>4 DEF AckInv
  <2>2. Cardinality(Missing) + (IF torn THEN 1 ELSE 0) <= tears
    BY <1>4 DEF AckInv
  <2>3. \A x \in Read : x \in Read' \/ x \notin acked
    BY <1>1, <2>1, AppendReads DEF Basic, TypeInv
  <2>4. Missing' \subseteq Missing
    BY <1>2, <2>3 DEF Missing
  <2>5. /\ Cardinality(Missing) \in Nat /\ Cardinality(Missing)' \in Nat
        /\ Cardinality(Missing)' <= Cardinality(Missing)
    BY <2>4, MissingLess
  <2>6. PICK old, new : /\ old = Cardinality(Missing) /\ new = Cardinality(Missing)'
                        /\ old \in Nat /\ new \in Nat /\ new <= old
    BY <2>5
  <2>7. old + (IF torn THEN 1 ELSE 0) <= tears /\ tears \in Nat
    BY <2>2, <2>6 DEF Basic, TypeInv
  <2>8. old <= tears
    BY <2>6, <2>7
  <2>9. new + 1 <= tears + 1
    BY <2>6, <2>7, <2>8
  <2> QED BY <1>1, <2>6, <2>9
<1> QED BY <1>1, <1>3, <1>4 DEF AckInv

LEMMA RepairFileAcked ==
    ASSUME Basic, AckInv, RepairFile
    PROVE  AckInv'
<1> USE FileFacts
<1>1. PICK f, link, lines : /\ f = call.at /\ link = IF LinkExpected THEN call.link ELSE NoLink
                            /\ lines = Rewritten(text[f], link)
    OBVIOUS
<1>2. /\ f \in Files /\ TypeInv /\ call # Idle /\ report = "none"
      /\ text[f] \in Seq(Lines) /\ lines \in Seq(Lines) /\ Len(lines) = Len(text[f])
      /\ Len(lines) \in Nat \ {0}
      /\ \A i \in 1..Len(lines) : lines[i].kind = text[f][i].kind /\ lines[i].id = text[f][i].id
      /\ text'[f] = lines /\ \A g \in Files : g # f => text'[g] = text[g]
      /\ UNCHANGED <<torn, acked, tears, damages>>
      /\ LinkTo(f, lines) \in Links
      /\ \/ call' = [call EXCEPT !.stage = "rename"]
         \/ RepairNext(f, LinkTo(f, lines), call.errors)
    BY <1>1, FileRepaired DEF Chain
<1>3. call'.stage \in {"rename", "repair", "idle"}
  <2>1. call.errors \in BOOLEAN /\ call \in Calls
    BY <1>2 DEF TypeInv, Calls
  <2>2. CASE call' = [call EXCEPT !.stage = "rename"]
    BY <2>1, <2>2 DEF Calls
  <2>3. CASE RepairNext(f, LinkTo(f, lines), call.errors)
    BY <1>2, <2>1, <2>3, NextCall, IdleTyped
  <2> QED BY <1>2, <2>2, <2>3
<1>4. Due' \subseteq Due
    BY <1>2, <1>3 DEF Due
<1>5. DOMAIN lines = 1..Len(lines) /\ DOMAIN text[f] = 1..Len(lines)
    BY <1>2, LenProperties
<1>6. Read \subseteq Read'
  <2> SUFFICES ASSUME NEW x \in Read PROVE x \in Read'
    OBVIOUS
  <2>0. PICK g \in Files : \E i \in DOMAIN text[g] : text[g][i].kind \notin Broken /\ text[g][i].id = x
    BY ReadFrom
  <2>1. PICK i \in DOMAIN text[g] : text[g][i].kind \notin Broken /\ text[g][i].id = x
    BY <2>0
  <2>2. i \in DOMAIN text'[g] /\ text'[g][i].kind \notin Broken /\ text'[g][i].id = x
    BY <1>2, <1>5, <2>1
  <2> QED BY <2>2, ReadLater
<1>7. /\ Last(text'[Current]).kind = Last(text[Current]).kind
      /\ Last(text'[Current]).id = Last(text[Current]).id
  <2>1. Len(lines) \in 1..Len(lines)
    BY <1>2
  <2> QED BY <1>2, <2>1 DEF Last
<1>8. torn' \in BOOLEAN /\ (torn' => torn)
    BY <1>2 DEF TypeInv
<1> QED BY <1>2, <1>4, <1>6, <1>7, <1>8, AckKept

LEMMA TailCutAcked ==
    ASSUME Basic, TailInv, AckInv, TailCut
    PROVE  AckInv'
<1>1. UNCHANGED <<tears, damages, acked, call>> /\ torn' = FALSE
    BY DEF TailCut, counters
<1>2. Due' = Due
    BY <1>1 DEF Due
<1>3. /\ \A f \in Files : \A i \in 1..Len(text[f]) : text[f][i].kind # "mangled" =>
           i \in 1..Len(text'[f]) /\ text'[f][i] = text[f][i]
      /\ \A f \in Files : DOMAIN text[f] = 1..Len(text[f]) /\ DOMAIN text'[f] = 1..Len(text'[f])
    BY CutTail, TailCutBasic, LenProperties DEF Basic, TypeInv
<1>4. Read \subseteq Read'
  <2> SUFFICES ASSUME NEW x \in Read PROVE x \in Read'
    OBVIOUS
  <2>1. PICK f \in Files : \E i \in DOMAIN text[f] : text[f][i].kind \notin Broken /\ text[f][i].id = x
    BY ReadFrom
  <2>2. PICK i \in DOMAIN text[f] : text[f][i].kind \notin Broken /\ text[f][i].id = x
    BY <2>1
  <2>3. text[f][i].kind # "mangled" /\ i \in 1..Len(text[f])
    BY <1>3, <2>2 DEF Broken
  <2>4. i \in DOMAIN text'[f] /\ text'[f][i] = text[f][i]
    BY <1>3, <2>3
  <2>5. text'[f][i].kind \notin Broken /\ text'[f][i].id = x
    BY <2>2, <2>4
  <2> QED BY <2>4, <2>5, ReadLater
<1> QED BY <1>1, <1>2, <1>4, AckKept

\* The steps that leave the files alone.
LEMMA OtherAcked ==
    ASSUME Basic, AckInv,
           \/ \E size \in Sizes : AppendBegin(size)
           \/ IndexRow \/ IndexAfterRotation \/ RebuildIndex
           \/ RepairBegin \/ RepairSkip \/ RepairRename \/ Abort \/ UNCHANGED vars
    PROVE  AckInv'
<1>1. UNCHANGED <<text, torn, tears, damages>>
    BY DEF AppendBegin, IndexRow, IndexAfterRotation, RebuildIndex, RepairBegin, RepairSkip,
       RepairRename, Abort, vars, counters
<1>2. CASE IndexRow \/ IndexAfterRotation
  <2>1. ~ torn /\ call' = Idle /\ call.stage \in {"row", "rebuild"}
        /\ acked' = acked \cup {call.id}
    BY <1>2 DEF IndexRow, IndexAfterRotation, Basic, StageInv
  <2>2. Due' \subseteq Due
    BY <2>1, IdleTyped DEF Due
  <2> QED BY <1>1, <2>1, <2>2, AckSame
<1>3. CASE RebuildIndex \/ UNCHANGED vars
  <2>1. UNCHANGED <<acked, call>>
    BY <1>3 DEF RebuildIndex, vars
  <2>2. Due' = Due
    BY <2>1 DEF Due
  <2> QED BY <1>1, <2>1, <2>2, AckSame
<1>4. CASE (\E size \in Sizes : AppendBegin(size)) \/ RepairBegin \/ RepairSkip \/ RepairRename
             \/ Abort
  <2>1. acked' = acked
    BY <1>4 DEF AppendBegin, RepairBegin, RepairSkip, RepairRename, Abort
  <2>2. call'.stage \notin {"row", "rebuild"}
    <3>1. CASE \E size \in Sizes : AppendBegin(size)
      BY <3>1 DEF AppendBegin, Idle
    <3>2. CASE RepairBegin
      BY <3>2, IdleTyped DEF RepairBegin, Idle
    <3>3. CASE RepairSkip
      BY <3>3, IdleTyped DEF RepairSkip, RepairNext, Basic, TypeInv, Calls
    <3>4. CASE RepairRename
      BY <3>4, IdleTyped DEF RepairRename, RepairNext, Basic, TypeInv, Calls
    <3>5. CASE Abort
      BY <3>5, IdleTyped DEF Abort
    <3> QED BY <1>4, <3>1, <3>2, <3>3, <3>4, <3>5
  <2>3. Due' \subseteq Due
    BY <2>1, <2>2 DEF Due
  <2> QED BY <1>1, <2>1, <2>3, AckSame
<1> QED BY <1>2, <1>3, <1>4

LEMMA StepAcked ==
    ASSUME Basic, TailInv, AckInv, [Next]_vars
    PROVE  AckInv'
<1>1. CASE DamageAny
  <2>1. damages' = damages + 1 /\ damages \in Nat
    BY <1>1 DEF DamageAny, Damage, Basic, TypeInv
  <2> QED BY <2>1 DEF AckInv
<1>2. CASE ~ DamageAny
    BY <1>2, SealAcked, ReplaceAcked, AppendWriteAcked, AppendTornAcked, RepairFileAcked,
       TailCutAcked, OtherAcked DEF Next, Written
<1> QED BY <1>1, <1>2

\* An acknowledged event stays in the log, but for one per torn append, and no file becomes
\* undecodable but the current one, while its torn tail is there.
THEOREM AckedStaysReadable == Spec => []AckedReadable
<1>1. Init => AckInv
  <2> SUFFICES ASSUME Init PROVE AckInv
    OBVIOUS
  <2>1. Missing = {} /\ tears = 0 /\ torn = FALSE
    BY IdleTyped DEF Init, Missing, Due
  <2> QED BY <2>1, FS_EmptySet DEF AckInv
<1>2. Basic /\ TailInv /\ AckInv /\ [Next]_vars => AckInv'
    BY StepAcked
<1>3. Basic /\ TailInv => \A f \in Files : Unreadable(f) => f = Current /\ torn
    BY UnreadableIs DEF Basic, TailInv, Legible
<1>4. Basic /\ TailInv /\ AckInv => AckedReadable
  <2> SUFFICES ASSUME Basic, AckInv, damages = 0
               PROVE  Cardinality(acked \ Read) <= tears
    BY <1>3 DEF AckedReadable, Read
  <2>1. IsFiniteSet(Missing) /\ Cardinality(Missing) \in Nat
    BY MissingFinite
  <2>2. acked \ Read \subseteq Missing
    BY DEF Missing, Due
  <2>3. IsFiniteSet(acked \ Read) /\ Cardinality(acked \ Read) <= Cardinality(Missing)
    BY <2>1, <2>2, FS_Subset
  <2>4. Cardinality(acked \ Read) \in Nat
    BY <2>3, FS_CardinalityType
  <2>5. Cardinality(Missing) + (IF torn THEN 1 ELSE 0) <= tears
    BY DEF AckInv
  <2> QED BY <2>1, <2>3, <2>4, <2>5 DEF Basic, TypeInv
<1> QED BY <1>1, <1>2, <1>4, BasicInvariant, TailInvariant, PTL DEF Spec

-----------------------------------------------------------------------------
(* What the writers leave behind while nobody dies and nobody touches the files *)

Untouched == aborts = 0 /\ damages = 0

\* Every line is JSON, and only markers have a link.
CleanInv == \A f \in Files : \A i \in 1..Len(text[f]) :
    /\ text[f][i].kind \notin Broken
    /\ text[f][i].kind = "marker" \/ text[f][i].link = NoLink

LEMMA CleanParsed ==
    ASSUME Basic, CleanInv
    PROVE  \A f \in Files : ~ Unreadable(f) /\ Parsed(f) = 1..Len(text[f])
<1> TAKE f \in Files
<1>1. DOMAIN text[f] = 1..Len(text[f])
    BY LenProperties DEF Basic, TypeInv
<1>2. \A i \in 1..Len(text[f]) : text[f][i].kind # "junk" /\ text[f][i].kind # "mangled"
    BY DEF CleanInv, Broken
<1>3. ~ Unreadable(f)
    BY <1>1, <1>2 DEF Unreadable
<1> QED BY <1>1, <1>2, <1>3 DEF Parsed

\* No id occurs twice, but in the segment a rotation has written and the file it has yet
\* to replace.
OnceInv ==
    /\ \A f, g \in Files : \A i \in 1..Len(text[f]) : \A j \in 1..Len(text[g]) :
         text[f][i].id = text[g][j].id => i = j
    /\ \A f, g \in Files : \A i \in 1..Len(text[f]) : \A j \in 1..Len(text[g]) :
         text[f][i].id = text[g][j].id /\ f # g => call.stage = "replace"
    /\ \A f, g \in Files : \A i \in 1..Len(text[f]) : \A j \in 1..Len(text[g]) :
         text[f][i].id = text[g][j].id /\ f # g => f \in {call.at, Current}

WholeInv == \A f \in Present : Whole(f) \/ (f = Current /\ call.stage = "replace")

NumberedInv ==
    /\ ~ SequenceIssue
    /\ Present # {} => Current \in Present
    /\ call.stage = "replace" => call.at = Highest(Present \cap Segments)

Sound ==
    /\ ~ torn /\ ~ call.errors /\ call.stage # "rename"
    /\ CleanInv /\ OnceInv /\ WholeInv /\ NumberedInv

WriterInv == Untouched => Sound

\* Steps that leave the files and a rotation alone.
LEMMA SoundSame ==
    ASSUME Sound, UNCHANGED <<text, name, torn>>, ~ call'.errors, call'.stage # "rename",
           call'.stage = "replace" <=> call.stage = "replace",
           call.stage = "replace" => call' = call
    PROVE  Sound'
<1>1. Present' = Present
    BY DEF Present
<1>2. \A f \in Files : Whole(f)' = Whole(f)
  <2> TAKE f \in Files
  <2>1. Before(f)' = Before(f)
    BY <1>1 DEF Before
  <2>2. \A g : NameOf(g)' = NameOf(g)
    BY DEF NameOf
  <2>3. HasLink(f)' = HasLink(f)
    BY <2>1, <2>2 DEF HasLink
  <2>4. Named(f)' = Named(f) /\ Chained(f)' = Chained(f)
    BY DEF Named, Chained
  <2> QED BY <2>3, <2>4 DEF Whole
<1>3. Present \subseteq Files
    BY DEF Present
<1>4. WholeInv'
    BY <1>1, <1>2, <1>3 DEF Sound, WholeInv
<1>5. NumberedInv'
    BY <1>1 DEF Sound, NumberedInv, SequenceIssue
<1>6. CleanInv'
    BY DEF Sound, CleanInv
<1>7. OnceInv'
  <2>1. OnceInv
    BY DEF Sound
  <2>2. call.stage = "replace" => call'.stage = "replace" /\ call'.at = call.at
    OBVIOUS
  <2>3. \A f, g \in Files : \A i \in 1..Len(text'[f]) : \A j \in 1..Len(text'[g]) :
           text'[f][i].id = text'[g][j].id => i = j
    BY <2>1 DEF OnceInv
  <2>4. \A f, g \in Files : \A i \in 1..Len(text'[f]) : \A j \in 1..Len(text'[g]) :
           text'[f][i].id = text'[g][j].id /\ f # g => call'.stage = "replace"
    BY <2>1, <2>2 DEF OnceInv
  <2>5. \A f, g \in Files : \A i \in 1..Len(text'[f]) : \A j \in 1..Len(text'[g]) :
           text'[f][i].id = text'[g][j].id /\ f # g => f \in {call'.at, Current}
    BY <2>1, <2>2 DEF OnceInv
  <2> QED BY <2>3, <2>4, <2>5, Zenon DEF OnceInv
<1> QED BY <1>4, <1>5, <1>6, <1>7 DEF Sound

LEMMA OtherSound ==
    ASSUME Basic, Sound,
           \/ \E size \in Sizes : AppendBegin(size)
           \/ IndexRow \/ IndexAfterRotation \/ RebuildIndex \/ RepairBegin \/ UNCHANGED vars
    PROVE  Sound'
<1>1. UNCHANGED <<text, name, torn>>
    BY DEF AppendBegin, IndexRow, IndexAfterRotation, RebuildIndex, RepairBegin, vars
<1>2. CASE RebuildIndex \/ UNCHANGED vars
  <2>1. call' = call
    BY <1>2 DEF RebuildIndex, vars
  <2> QED BY <1>1, <2>1, SoundSame DEF Sound
<1>3. CASE IndexRow \/ IndexAfterRotation
  <2>1. call' = Idle /\ call.stage \in {"row", "rebuild"}
    BY <1>3 DEF IndexRow, IndexAfterRotation
  <2> QED BY <1>1, <2>1, IdleTyped, SoundSame
<1>4. CASE (\E size \in Sizes : AppendBegin(size)) \/ RepairBegin
  <2>1. call = Idle /\ ~ call'.errors /\ call'.stage \in {"idle", "seal", "append", "repair"}
    <3>1. CASE \E size \in Sizes : AppendBegin(size)
      BY <3>1, IdleTyped DEF AppendBegin, Idle
    <3>2. CASE RepairBegin
      BY <3>2, IdleTyped DEF RepairBegin, Idle
    <3> QED BY <1>4, <3>1, <3>2
  <2> QED BY <1>1, <2>1, IdleTyped, SoundSame
<1> QED BY <1>2, <1>3, <1>4

\* A repair finds nothing to do.
LEMMA RepairSound ==
    ASSUME Basic, RepairInv, Sound, RepairSkip \/ RepairFile \/ RepairRename
    PROVE  Sound' /\ UNCHANGED <<text, name, index>>
<1>1. call.stage = "repair" /\ ~ call.errors
    BY DEF RepairSkip, RepairFile, RepairRename, Sound
<1>2. PICK f : f = call.at /\ f \in Present /\ f \in Files
    BY <1>1 DEF Basic, StageInv, Present
<1>3. Whole(f)
    BY <1>1, <1>2 DEF Sound, WholeInv
<1>4. LinkExpected => text[f][1].kind = "marker" /\ text[f][1].link = call.link
  <2>1. ASSUME LinkExpected
        PROVE  text[f][1].kind = "marker" /\ text[f][1].link = call.link
    <3>1. call.link = LinkOf(Highest(Before(f))) /\ Before(f) # {}
      BY <1>1, <1>2, <2>1 DEF RepairInv, LinkExpected
    <3> QED BY <1>3, <3>1 DEF Whole, HasLink, LinkOf
  <2> QED BY <2>1
<1>5. ~ LinkExpected => text[f][1].kind # "marker"
    BY <1>2, <1>3 DEF Whole, HasLink, LinkExpected
<1>6. RepairFile
    BY <1>1, <1>2, <1>4 DEF RepairSkip, RepairRename, MarkerMissing
<1>7. PICK link, lines : /\ link = (IF LinkExpected THEN call.link ELSE NoLink)
                         /\ lines = Rewritten(text[f], link)
    OBVIOUS
<1>8. /\ TypeInv /\ call # Idle /\ report = "none"
      /\ Chain(text[f], link, lines) /\ text[f] \in Seq(Lines)
      /\ text' = [text EXCEPT ![f] = lines]
      /\ UNCHANGED <<name, torn, index, aborts, damages>>
      /\ LinkTo(f, lines) \in Links
      /\ \/ f # Current /\ name[f] # DigestOf(lines)
         \/ RepairNext(f, LinkTo(f, lines), call.errors)
    BY <1>2, <1>6, <1>7, FileRepaired
<1>9. Len(text[f]) \in Nat \ {0} /\ 1 \in 1..Len(text[f]) /\ DOMAIN text[f] = 1..Len(text[f])
      /\ Len(lines) = Len(text[f])
    BY <1>8, LenProperties DEF Chain
<1>10. text[f][1].link = link
    BY <1>2, <1>4, <1>5, <1>7, <1>9 DEF Sound, CleanInv
<1>11. \A i \in 1..Len(text[f]) :
          text[f][i].kind = "junk" \/ text[f][i].prev = ShaAbove(text[f], i)
    BY <1>3, <1>9 DEF Whole, Chained
<1>12. lines = text[f]
    BY <1>8, <1>10, <1>11 DEF Chain
<1>13. text' = text
    BY <1>2, <1>8, <1>12 DEF TypeInv
<1>14. f # Current => name[f] = DigestOf(lines)
    BY <1>2, <1>3, <1>12, FileFacts DEF Whole, Named
<1>15. RepairNext(f, LinkTo(f, lines), call.errors)
    BY <1>8, <1>14
<1>16. call.errors \in BOOLEAN
    BY <1>8 DEF TypeInv, Calls
<1>17. ~ call'.errors /\ call'.stage \in {"idle", "repair"}
    BY <1>1, <1>2, <1>8, <1>15, <1>16, NextCall, IdleTyped
<1> QED BY <1>1, <1>8, <1>13, <1>17, SoundSame

LEMMA SealSound ==
    ASSUME Basic, Sound, Seal
    PROVE  Sound'
<1> USE FileFacts
<1>1. /\ call.stage = "seal" /\ Current \in Present /\ text[Current] \in Seq(Lines)
      /\ text[Current] # <<>> /\ Len(text[Current]) \in Nat \ {0}
      /\ 1 \in 1..Len(text[Current])
    BY EmptySeq DEF Seal, Basic, StageInv, TypeInv, Present
<1>2. SameText = {}
  <2> SUFFICES ASSUME NEW s \in SameText PROVE FALSE
    OBVIOUS
  <2>1. s \in Segments /\ s \in Files /\ text[s] = text[Current] /\ s # Current
    BY DEF SameText
  <2> QED BY <1>1, <2>1 DEF Sound, OnceInv
<1>3. PICK s \in Segments : s = NextSegment
    BY <1>2 DEF Seal
<1>4. /\ text' = [text EXCEPT ![s] = text[Current]]
      /\ name' = [name EXCEPT ![s] = DigestOf(text[Current])]
      /\ call' = [call EXCEPT !.stage = "replace", !.at = s]
      /\ torn' = torn
    BY <1>2, <1>3 DEF Seal
<1>5. s \in 0..Current /\ s \in Files /\ s # Current
    OBVIOUS
<1>6. call'.stage = "replace" /\ call'.at = s /\ call'.errors = call.errors
    BY <1>4, <1>5 DEF Basic, TypeInv, Calls
<1>7. /\ text'[s] = text[Current] /\ \A g \in Files : g # s => text'[g] = text[g]
      /\ name'[s] = DigestOf(text[Current]) /\ \A g \in Segments : g # s => name'[g] = name[g]
    BY <1>4, <1>5 DEF Basic, TypeInv
<1>8. /\ text[s] = <<>> /\ s \notin Present
      /\ \A g \in Present \cap Segments : g < s
      /\ s = 1 \/ s - 1 \in Present
    BY <1>3, SegmentIsNew
<1>9. Present' = Present \cup {s}
    BY <1>1, <1>5, <1>7, <1>8 DEF Present
<1>10. NumberedInv'
  <2>1. ~ SequenceIssue'
    BY <1>8, <1>9 DEF Sound, NumberedInv, SequenceIssue
  <2>2. s = Highest(Present \cap Segments)'
    <3>1. PICK S : S = (Present \cap Segments)' /\ S = (Present \cap Segments) \cup {s}
      BY <1>9
    <3>2. \A g \in Present \cap Segments : g \in Nat /\ s \in Nat /\ g <= s /\ s <= s
      <4> TAKE g \in Present \cap Segments
      <4>1. g < s /\ g \in Nat /\ s \in Nat
        BY <1>8
      <4> QED BY <4>1
    <3>3. s <= s
      BY <1>5
    <3>4. S \in SUBSET Files /\ s \in S /\ \A g \in S : g <= s
      BY <1>5, <3>1, <3>2, <3>3
    <3> QED BY <3>1, <3>4, HighestIs
  <2> QED BY <1>1, <1>6, <1>9, <2>1, <2>2 DEF NumberedInv
<1>11. CleanInv'
    BY <1>7 DEF Sound, CleanInv
<1>12. OnceInv'
  <2>1. ASSUME NEW f \in Files, NEW g \in Files, NEW i \in 1..Len(text'[f]),
               NEW j \in 1..Len(text'[g]), text'[f][i].id = text'[g][j].id
        PROVE  i = j /\ (f # g => f \in {s, Current})
    <3> DEFINE was(h) == IF h = s THEN Current ELSE h
    <3>1. /\ was(f) \in Files /\ was(g) \in Files
          /\ text'[f] = text[was(f)] /\ text'[g] = text[was(g)]
      BY <1>7
    <3>2. OnceInv /\ call.stage # "replace"
      BY <1>1 DEF Sound
    <3>3. /\ i \in 1..Len(text[was(f)]) /\ j \in 1..Len(text[was(g)])
          /\ text[was(f)][i].id = text[was(g)][j].id
      BY <2>1, <3>1
    <3> HIDE DEF was
    <3>4. i = j /\ (was(f) # was(g) => call.stage = "replace")
      BY <3>1, <3>2, <3>3 DEF OnceInv
    <3>5. i = j /\ was(f) = was(g)
      BY <3>2, <3>4
    <3> USE DEF was
    <3> QED BY <3>5
  <2>2. \A f, g \in Files : \A i \in 1..Len(text'[f]) : \A j \in 1..Len(text'[g]) :
           text'[f][i].id = text'[g][j].id => i = j
    <3> SUFFICES ASSUME NEW f \in Files, NEW g \in Files, NEW i \in 1..Len(text'[f]),
                        NEW j \in 1..Len(text'[g]), text'[f][i].id = text'[g][j].id
                 PROVE  i = j
      OBVIOUS
    <3>1. i = j /\ (f # g => f \in {s, Current})
      BY <2>1
    <3> QED BY <3>1
  <2>3. \A f, g \in Files : \A i \in 1..Len(text'[f]) : \A j \in 1..Len(text'[g]) :
           text'[f][i].id = text'[g][j].id /\ f # g => call'.stage = "replace"
    BY <1>6
  <2>4. \A f, g \in Files : \A i \in 1..Len(text'[f]) : \A j \in 1..Len(text'[g]) :
           text'[f][i].id = text'[g][j].id /\ f # g => f \in {call'.at, Current}
    <3> SUFFICES ASSUME NEW f \in Files, NEW g \in Files, NEW i \in 1..Len(text'[f]),
                        NEW j \in 1..Len(text'[g]), text'[f][i].id = text'[g][j].id, f # g
                 PROVE  f \in {call'.at, Current}
      OBVIOUS
    <3>1. i = j /\ (f # g => f \in {s, Current})
      BY <2>1
    <3> QED BY <1>6, <3>1
  <2> QED BY <2>2, <2>3, <2>4, Zenon DEF OnceInv
<1>13. WholeInv'
  <2> SUFFICES ASSUME NEW f \in Present', f # Current PROVE Whole(f)'
    BY <1>6 DEF WholeInv
  <2>1. CASE f # s
    <3>1. f \in Present \cap Segments /\ f \in Files /\ f < s
      BY <1>8, <1>9, <2>1 DEF Present
    <3>2. \A g \in Files : g <= f => g # s
      BY <3>1
    <3>3. \A g \in Files : g <= f => text'[g] = text[g] /\ (g \in Segments => name'[g] = name[g])
      BY <1>7, <3>2
    <3>4. Whole(f)
      BY <1>1, <3>1 DEF Sound, WholeInv
    <3> QED BY <3>1, <3>3, <3>4, WholeKept DEF Whole
  <2>2. CASE f = s
    <3>1. Whole(Current)
      BY <1>1 DEF Sound, WholeInv
    <3>2. Named(s)'
      BY <1>7 DEF Named
    <3>3. Chained(s)'
      BY <1>7, <3>1 DEF Whole, Chained
    <3>4. Before(s)' = Before(Current) /\ s \notin Before(Current)
      <4>1. Before(Current) = Present \cap Segments
        BY DEF Before, Present, Current, Files, Segments
      <4>2. Before(s)' = {g \in Present \cup {s} : g < s}
        BY <1>9 DEF Before
      <4>3. \A g \in Present : g \in Segments \/ g = Current
        BY DEF Present
      <4>4. Current \in Nat /\ s \in Nat /\ s <= Current /\ s # Current
        BY <1>5
      <4>5. ~ (Current < s) /\ ~ (s < s)
        BY <4>4
      <4> QED BY <1>8, <4>1, <4>2, <4>3, <4>5
    <3>5. HasLink(s)'
      <4>1. CASE Before(Current) = {}
        BY <1>7, <3>1, <3>4, <4>1 DEF Whole, HasLink
      <4>2. CASE Before(Current) # {}
        <5>1. PICK g \in Before(Current) : g = Highest(Before(Current))
          BY <1>1, <4>2, BeforeAndAfter
        <5>2. g # s /\ g \in Files
          BY <3>4, <5>1 DEF Before, Present
        <5>3. NameOf(g)' = NameOf(g) /\ text'[g] = text[g]
          BY <1>7, <5>2 DEF NameOf
        <5>4. Highest(Before(s)') = g
          BY <3>4, <5>1
        <5> QED BY <1>7, <3>1, <3>4, <4>2, <5>1, <5>3, <5>4 DEF Whole, HasLink
      <4> QED BY <4>1, <4>2
    <3> QED BY <2>2, <3>2, <3>3, <3>5 DEF Whole
  <2> QED BY <2>1, <2>2
<1> QED BY <1>4, <1>6, <1>10, <1>11, <1>12, <1>13 DEF Sound

LEMMA ReplaceSound ==
    ASSUME Basic, Sound, Replace
    PROVE  Sound'
<1> USE FileFacts
<1>1. PICK s \in Segments : s = call.at /\ text[s] = text[Current] /\ name[s] = DigestOf(text[s])
    BY DEF Basic, StageInv, Replace
<1>2. /\ call.stage = "replace" /\ text[Current] # <<>> /\ text[Current] \in Seq(Lines)
      /\ s \in Files /\ s # Current /\ TypeInv /\ serial \in Nat
    BY DEF Basic, StageInv, TypeInv, Replace
<1>3. LinkTo(s, text[Current]) \in Links
    BY <1>2, LinkTyped
<1>4. PICK line \in Lines :
          /\ line = Line("marker", 1, 0, LinkTo(s, text[Current]))
          /\ line.kind = "marker" /\ line.prev = 0 /\ line.id = serial + 1
          /\ line.link = LinkTo(s, text[Current])
    BY <1>2, <1>3, LineTyped DEF Kinds
<1>5. text' = [text EXCEPT ![Current] = <<line>>] /\ torn' = FALSE /\ name' = name
      /\ call' = [call EXCEPT !.stage = "append"]
    BY <1>1, <1>4 DEF Replace
<1>6. call'.stage = "append" /\ call'.errors = call.errors
    BY <1>2, <1>5 DEF TypeInv, Calls
<1>7. /\ text'[Current] = <<line>> /\ \A g \in Files : g # Current => text'[g] = text[g]
    BY <1>2, <1>5 DEF TypeInv
<1>8. Present' = Present /\ s \in Present /\ Current \in Present
  <2>1. <<line>> # <<>> /\ text'[Current] = <<line>>
    BY <1>7
  <2>2. \A f \in Files : text'[f] # <<>> <=> text[f] # <<>>
    BY <1>2, <1>7, <2>1
  <2>3. text[s] # <<>>
    BY <1>1, <1>2
  <2> QED BY <1>2, <2>2, <2>3 DEF Present
<1>9. NumberedInv'
    BY <1>6, <1>8 DEF Sound, NumberedInv, SequenceIssue
<1>10. Len(<<line>>) = 1 /\ <<line>>[1] = line /\ DOMAIN <<line>> = 1..1
    OBVIOUS
<1>11. CleanInv'
    BY <1>4, <1>7, <1>10 DEF Sound, CleanInv, Broken
<1>12. OnceInv'
  <2> SUFFICES ASSUME NEW f \in Files, NEW g \in Files, NEW i \in 1..Len(text'[f]),
                      NEW j \in 1..Len(text'[g]), text'[f][i].id = text'[g][j].id
               PROVE  i = j /\ f = g
    BY DEF OnceInv
  <2>1. \A h \in Files : h # Current => \A k \in 1..Len(text'[h]) : text'[h][k].id # serial + 1
    <3> SUFFICES ASSUME NEW h \in Files, h # Current, NEW k \in 1..Len(text'[h])
                 PROVE  text'[h][k].id # serial + 1
      OBVIOUS
    <3>1. text'[h] = text[h] /\ Drawn(text[h], serial)
      BY <1>2, <1>7 DEF TypeInv
    <3>2. text'[h][k].id \in 0..serial
      BY <3>1 DEF Drawn
    <3> QED BY <1>2, <3>2
  <2>2. \A k \in 1..Len(text'[Current]) : k = 1 /\ text'[Current][k].id = serial + 1
    BY <1>4, <1>7, <1>10
  <2>3. CASE f = Current \/ g = Current
    BY <2>1, <2>2, <2>3
  <2>4. CASE f # Current /\ g # Current
    <3>1. text'[f] = text[f] /\ text'[g] = text[g]
      BY <1>7, <2>4
    <3>2. i \in 1..Len(text[f]) /\ j \in 1..Len(text[g]) /\ text[f][i].id = text[g][j].id
      BY <3>1
    <3>3. OnceInv
      BY DEF Sound
    <3>4. i = j /\ (f # g => f \in {s, Current} /\ g \in {s, Current})
      BY <1>1, <3>2, <3>3 DEF OnceInv
    <3> QED BY <2>4, <3>4
  <2> QED BY <2>3, <2>4
<1>13. WholeInv'
  <2> SUFFICES ASSUME NEW f \in Present PROVE Whole(f)'
    BY <1>8 DEF WholeInv
  <2>1. CASE f # Current
    <3>1. f \in Files /\ f < Current
      BY <2>1 DEF Present, Files, Current
    <3>2. \A g \in Files : g <= f => g # Current
      BY <3>1
    <3>3. \A g \in Files : g <= f => text'[g] = text[g] /\ (g \in Segments => name'[g] = name[g])
      BY <1>5, <1>7, <3>2
    <3>4. Whole(f)
      BY <2>1 DEF Sound, WholeInv
    <3> QED BY <3>1, <3>3, <3>4, WholeKept DEF Whole
  <2>2. CASE f = Current
    <3>1. Named(Current)'
      BY DEF Named
    <3>2. Chained(Current)'
      BY <1>4, <1>7, <1>10 DEF Chained, ShaAbove
    <3>3. Before(Current)' = Present \cap Segments
      BY <1>8 DEF Before, Present, Current, Files, Segments
    <3>4. Highest(Before(Current)') = s /\ Before(Current)' # {}
      BY <1>1, <1>2, <1>8, <3>3 DEF Sound, NumberedInv
    <3>5. LinkTo(s, text[Current]) = [segment |-> s, name |-> NameOf(s)', digest |-> DigestOf(text'[s])]
      BY <1>1, <1>2, <1>5, <1>7 DEF LinkTo, NameOf
    <3>6. HasLink(Current)'
      BY <1>4, <1>7, <1>10, <3>4, <3>5 DEF HasLink
    <3> QED BY <2>2, <3>1, <3>2, <3>6 DEF Whole
  <2> QED BY <2>1, <2>2
<1> QED BY <1>5, <1>6, <1>9, <1>11, <1>12, <1>13 DEF Sound

LEMMA AppendWriteSound ==
    ASSUME Basic, Sound, AppendWrite
    PROVE  Sound'
<1> USE FileFacts
<1>1. TypeInv /\ StageInv /\ ~ torn /\ text \in [Files -> Seq(Lines)] /\ serial \in Nat
      /\ call.stage = "append"
    BY DEF Basic, Sound, TypeInv, AppendWrite
<1>2. PICK old \in Seq(Lines), new \in Seq(Lines), record \in Lines :
        /\ old = text[Current] /\ new = Appended(Record("event")) /\ new # <<>>
        /\ Len(old) \in Nat /\ Len(new) = Len(old) + 1
        /\ \A i \in 1..(Len(new) - 1) : i \in 1..Len(old) /\ new[i] = old[i]
        /\ new[Len(new)] = record
        /\ record.kind = "event" /\ record.id = serial + 1
        /\ record.link = NoLink /\ record.prev = LastSha(old)
    BY <1>1, AppendedIs DEF Written
<1>3. text'[Current] = new /\ \A g \in Files : g # Current => text'[g] = text[g]
    BY <1>1, <1>2 DEF AppendWrite
<1>4. UNCHANGED name /\ torn' = FALSE /\ call'.stage \in {"row", "rebuild"}
      /\ call'.errors = call.errors
    BY <1>1 DEF AppendWrite, TypeInv, Calls
<1>5. \A i \in 1..Len(new) : \/ i \in 1..Len(old) /\ new[i] = old[i]
                             \/ i = Len(new) /\ new[i] = record
  <2> TAKE i \in 1..Len(new)
  <2>1. i = Len(new) \/ i \in 1..(Len(new) - 1)
    BY <1>2
  <2> QED BY <1>2, <2>1
<1>6. old = <<>> => Present = {}
    BY <1>2 DEF Sound, NumberedInv, Present
<1>7. Present' = Present \cup {Current}
    BY <1>2, <1>3 DEF Present
<1>8. NumberedInv'
  <2>1. ~ SequenceIssue'
    BY <1>7 DEF Sound, NumberedInv, SequenceIssue
  <2> QED BY <1>4, <1>7, <2>1 DEF NumberedInv
<1>9. CleanInv'
  <2> SUFFICES ASSUME NEW f \in Files, NEW i \in 1..Len(text'[f])
               PROVE  /\ text'[f][i].kind \notin Broken
                      /\ text'[f][i].kind = "marker" \/ text'[f][i].link = NoLink
    BY DEF CleanInv
  <2>1. CASE f = Current
    BY <1>2, <1>3, <1>5, <2>1, SMTT(30) DEF Sound, CleanInv, Broken
  <2>2. CASE f # Current
    BY <1>3, <2>2 DEF Sound, CleanInv
  <2> QED BY <2>1, <2>2
<1>10. OnceInv'
  <2> SUFFICES ASSUME NEW f \in Files, NEW g \in Files, NEW i \in 1..Len(text'[f]),
                      NEW j \in 1..Len(text'[g]), text'[f][i].id = text'[g][j].id
               PROVE  i = j /\ f = g
    BY DEF OnceInv
  <2> DEFINE isNew(h, k) == h = Current /\ k = Len(new)
  <2>1. \A h \in Files : \A k \in 1..Len(text'[h]) :
           \/ isNew(h, k) /\ text'[h][k].id = serial + 1
           \/ ~ isNew(h, k) /\ k \in 1..Len(text[h]) /\ text'[h][k] = text[h][k]
    BY <1>2, <1>3, <1>5
  <2>2. \A h \in Files : \A k \in 1..Len(text[h]) : text[h][k].id # serial + 1
    <3> SUFFICES ASSUME NEW h \in Files, NEW k \in 1..Len(text[h])
                 PROVE  text[h][k].id # serial + 1
      OBVIOUS
    <3>1. Drawn(text[h], serial)
      BY <1>1 DEF TypeInv
    <3>2. text[h][k].id \in 0..serial
      BY <3>1 DEF Drawn
    <3> QED BY <1>1, <3>2
  <2>3. CASE isNew(f, i) \/ isNew(g, j)
    <3>1. isNew(f, i) => isNew(g, j)
      <4>1. isNew(f, i) => text'[f][i].id = serial + 1
        BY <2>1
      <4>2. ~ isNew(g, j) => text'[g][j].id # serial + 1
        BY <2>1, <2>2
      <4> QED BY <4>1, <4>2
    <3>2. isNew(g, j) => isNew(f, i)
      <4>1. isNew(g, j) => text'[g][j].id = serial + 1
        BY <2>1
      <4>2. ~ isNew(f, i) => text'[f][i].id # serial + 1
        BY <2>1, <2>2
      <4> QED BY <4>1, <4>2
    <3> QED BY <2>3, <3>1, <3>2
  <2>4. CASE ~ isNew(f, i) /\ ~ isNew(g, j)
    <3>1. /\ i \in 1..Len(text[f]) /\ text'[f][i] = text[f][i]
          /\ j \in 1..Len(text[g]) /\ text'[g][j] = text[g][j]
      BY <2>1, <2>4
    <3>2. text[f][i].id = text[g][j].id
      BY <3>1
    <3>3. OnceInv /\ call.stage # "replace"
      BY <1>1 DEF Sound
    <3>4. i = j /\ (f # g => call.stage = "replace")
      BY <3>1, <3>2, <3>3 DEF OnceInv
    <3> QED BY <3>3, <3>4
  <2> QED BY <2>3, <2>4
<1>11. WholeInv'
  <2> SUFFICES ASSUME NEW f \in Present' PROVE Whole(f)'
    BY DEF WholeInv
  <2>1. CASE f # Current
    <3>1. f \in Present /\ f \in Files /\ f < Current
      BY <1>7, <2>1 DEF Present, Files, Current
    <3>2. \A g \in Files : g <= f => g # Current
      BY <3>1
    <3>3. \A g \in Files : g <= f => text'[g] = text[g] /\ (g \in Segments => name'[g] = name[g])
      BY <1>3, <1>4, <3>2
    <3>4. Whole(f)
      BY <2>1, <3>1 DEF Sound, WholeInv
    <3> QED BY <3>1, <3>3, <3>4, WholeKept DEF Whole
  <2>2. CASE f = Current
    <3>1. Named(Current)'
      BY DEF Named
    <3>2. DOMAIN old = 1..Len(old) /\ DOMAIN new = 1..Len(new)
      BY LenProperties
    <3>3. old # <<>> => Current \in Present /\ Whole(Current)
      BY <1>1, <1>2 DEF Sound, WholeInv, Present
    <3>4. Chained(Current)'
      <4> SUFFICES ASSUME NEW i \in 1..Len(new)
                   PROVE  new[i].kind = "junk" \/ new[i].prev = ShaAbove(new, i)
        BY <1>3, <3>2 DEF Chained
      <4>1. CASE i \in 1..Len(old) /\ new[i] = old[i]
        <5>1. old # <<>>
          BY <4>1, EmptySeq
        <5>2. old[i].kind = "junk" \/ old[i].prev = ShaAbove(old, i)
          BY <1>2, <3>2, <3>3, <4>1, <5>1 DEF Whole, Chained
        <5>3. ShaAbove(new, i) = ShaAbove(old, i)
          <6>1. i # 1 => i - 1 \in 1..(Len(new) - 1)
            BY <1>2, <4>1
          <6> QED BY <1>2, <6>1 DEF ShaAbove
        <5> QED BY <4>1, <5>2, <5>3
      <4>2. CASE i = Len(new) /\ new[i] = record
        <5>1. CASE old = <<>>
          <6>1. Len(old) = 0
            BY <5>1, EmptySeq
          <6>2. i = 1 /\ LastSha(old) = 0
            BY <1>2, <4>2, <5>1, <6>1 DEF LastSha
          <6> QED BY <1>2, <4>2, <6>2 DEF ShaAbove
        <5>2. CASE old # <<>>
          <6>1. Len(old) \in Nat \ {0}
            BY <5>2, EmptySeq
          <6>2. i # 1 /\ i - 1 = Len(old) /\ Len(old) \in 1..(Len(new) - 1)
            BY <1>2, <4>2, <6>1
          <6>3. new[i - 1] = old[Len(old)]
            BY <1>2, <6>2
          <6>4. LastSha(old) = old[Len(old)].sha
            BY <5>2 DEF LastSha, Last
          <6> QED BY <1>2, <4>2, <6>2, <6>3, <6>4 DEF ShaAbove
        <5> QED BY <5>1, <5>2
      <4> QED BY <1>5, <4>1, <4>2
    <3>5. Before(Current)' = Before(Current)
      BY <1>7 DEF Before
    <3>6. HasLink(Current)'
      <4>1. CASE old = <<>>
        <5>1. Len(old) = 0
          BY <4>1, EmptySeq
        <5>2. new[1] = record
          BY <1>2, <5>1
        <5>3. Before(Current) = {}
          BY <1>6, <4>1 DEF Before
        <5> QED BY <1>2, <1>3, <3>5, <5>2, <5>3 DEF HasLink
      <4>2. CASE old # <<>>
        <5>1. Len(old) \in Nat \ {0}
          BY <4>2, EmptySeq
        <5>2. 1 \in 1..(Len(new) - 1)
          BY <1>2, <5>1
        <5>3. new[1] = old[1]
          BY <1>2, <5>2
        <5>4. HasLink(Current)
          BY <3>3, <4>2 DEF Whole
        <5>5. CASE Before(Current) = {}
          BY <1>2, <1>3, <3>5, <5>3, <5>4, <5>5 DEF HasLink
        <5>6. CASE Before(Current) # {}
          <6>1. PICK g \in Before(Current) : g = Highest(Before(Current))
            BY <3>3, <4>2, <5>6, BeforeAndAfter
          <6>2. g # Current /\ g \in Files
            BY <6>1 DEF Before, Present
          <6>3. NameOf(g)' = NameOf(g) /\ text'[g] = text[g]
            BY <1>3, <1>4, <6>2 DEF NameOf
          <6>4. Highest(Before(Current)') = g
            BY <3>5, <6>1
          <6> QED BY <1>2, <1>3, <3>5, <5>3, <5>4, <5>6, <6>1, <6>3, <6>4 DEF HasLink
        <5> QED BY <5>5, <5>6
      <4> QED BY <4>1, <4>2
    <3> QED BY <2>2, <3>1, <3>4, <3>6 DEF Whole
  <2> QED BY <2>1, <2>2
<1> QED BY <1>4, <1>8, <1>9, <1>10, <1>11 DEF Sound

LEMMA StepSound ==
    ASSUME Basic, RepairInv, WriterInv, [Next]_vars
    PROVE  WriterInv'
<1> SUFFICES ASSUME Untouched' PROVE Sound'
    BY DEF WriterInv
<1>1. Untouched /\ ~ Abort /\ ~ DamageAny /\ ~ TailCut /\ \A kind : ~ AppendTorn(kind)
  <2>1. aborts \in Nat /\ damages \in Nat
    BY DEF Basic, TypeInv
  <2>2. ~ Abort /\ \A kind : ~ AppendTorn(kind)
    BY <2>1 DEF Untouched, Abort, AppendTorn
  <2>3. ~ DamageAny
    BY <2>1 DEF Untouched, DamageAny, Damage
  <2>4. UNCHANGED <<aborts, damages>>
    BY <2>2, <2>3 DEF Next, AppendBegin, Seal, Replace, AppendWrite, IndexRow,
       IndexAfterRotation, RebuildIndex, RepairBegin, RepairSkip, RepairFile, RepairRename,
       TailCut, vars, counters
  <2>5. ~ Unreadable(Current)
    BY <2>4, CleanParsed, FileFacts DEF Untouched, WriterInv, Sound
  <2> QED BY <2>2, <2>3, <2>4, <2>5 DEF Untouched, TailCut
<1>2. Sound
    BY <1>1 DEF WriterInv
<1> QED BY <1>1, <1>2, OtherSound, RepairSound, SealSound, ReplaceSound, AppendWriteSound
       DEF Next

LEMMA WriterInvariant == Spec => []WriterInv
<1>1. Init => WriterInv
  <2> SUFFICES ASSUME Init PROVE Sound
    BY DEF WriterInv
  <2>1. Present = {} /\ \A f \in Files : Len(text[f]) = 0
    BY EmptySeq DEF Init, Present
  <2>2. CleanInv /\ OnceInv
    BY <2>1 DEF CleanInv, OnceInv
  <2>3. WholeInv /\ NumberedInv
    BY <2>1, IdleTyped DEF Init, WholeInv, NumberedInv, SequenceIssue
  <2> QED BY <2>2, <2>3, IdleTyped DEF Init, Sound
<1>2. Basic /\ RepairInv /\ WriterInv /\ [Next]_vars => WriterInv'
    BY StepSound
<1>3. Spec => [](Basic /\ RepairInv)
  <2>1. Init => RepairInv
    BY IdleTyped DEF Init, RepairInv
  <2>2. Basic /\ RepairInv /\ [Next]_vars => RepairInv'
    BY StepRelinks
  <2> QED BY <2>1, <2>2, BasicInvariant, PTL DEF Spec
<1> QED BY <1>1, <1>2, <1>3, PTL DEF Spec

\* A file of lines with different ids reads as many events as it has lines.
LEMMA AllReadable ==
    ASSUME Basic, CleanInv, OnceInv, NEW f \in Files
    PROVE  Cardinality(Readable(f)) = Len(text[f])
<1>1. text[f] \in Seq(Lines) /\ Len(text[f]) \in Nat /\ DOMAIN text[f] = 1..Len(text[f])
    BY LenProperties DEF Basic, TypeInv
<1> DEFINE id == [i \in 1..Len(text[f]) |-> text[f][i].id]
<1>2. Parsed(f) = 1..Len(text[f])
    BY CleanParsed
<1>3. Readable(f) = {id[i] : i \in 1..Len(text[f])}
    BY <1>2 DEF Readable
<1>4. \A i, j \in 1..Len(text[f]) : id[i] = id[j] => i = j
    BY DEF OnceInv
<1>5. id \in Bijection(1..Len(text[f]), Readable(f))
    BY <1>3, <1>4 DEF Bijection, Injection, Surjection, IsInjective
<1>6. ExistsBijection(1..Len(text[f]), Readable(f))
    BY <1>5, Zenon DEF ExistsBijection
<1> QED BY <1>1, <1>6, FS_CountingElements

\* While nobody died and nobody touched the files the doctor accepts the log.
THEOREM DoctorIsSatisfied == Spec => []WritersSatisfyDoctor
<1>1. Basic /\ WriterInv => WritersSatisfyDoctor
  <2> SUFFICES ASSUME Basic, WriterInv, Quiet, aborts = 0 PROVE DoctorAccepts
    BY DEF WritersSatisfyDoctor
  <2>1. Sound /\ call.stage = "idle"
    BY IdleTyped DEF WriterInv, Quiet, Untouched
  <2>2. Linked
    BY <2>1 DEF Sound, WholeInv, NumberedInv, Whole, Linked
  <2>3. ASSUME NEW f \in Present
        PROVE  /\ Cardinality(Readable(f)) = Len(text[f])
               /\ \A g \in Before(f) : Readable(f) \cap Readable(g) = {}
    <3>1. f \in Files
      BY DEF Present
    <3>2. Cardinality(Readable(f)) = Len(text[f])
      BY <2>1, <3>1, AllReadable DEF Sound
    <3>3. ASSUME NEW g \in Before(f)
          PROVE  Readable(f) \cap Readable(g) = {}
      <4>1. g \in Files /\ g # f
        BY <3>1, FileFacts DEF Before, Present
      <4>2. Parsed(f) = 1..Len(text[f]) /\ Parsed(g) = 1..Len(text[g])
        BY <2>1, <3>1, <4>1, CleanParsed DEF Sound
      <4> QED BY <2>1, <3>1, <4>1, <4>2 DEF Readable, Sound, OnceInv
    <3> QED BY <3>2, <3>3
  <2> QED BY <2>2, <2>3 DEF DoctorAccepts
<1> QED BY <1>1, BasicInvariant, WriterInvariant, PTL

-----------------------------------------------------------------------------
(* The index *)

LEMMA PlacesAre ==
    ASSUME Basic, CleanInv
    PROVE  /\ IsFiniteSet(Places) /\ Cardinality(Places) \in Nat
           /\ \A f, i : <<f, i>> \in Places <=> f \in Files /\ i \in 1..Len(text[f])
           /\ \A p \in Places : /\ p = <<p[1], p[2]>> /\ p[1] \in Files
                                /\ p[2] \in 1..Len(text[p[1]])
<1>1. \A f \in Files : /\ text[f] \in Seq(Lines) /\ Len(text[f]) \in Nat
                       /\ DOMAIN text[f] = 1..Len(text[f])
    BY LenProperties DEF Basic, TypeInv
<1>2. \A f \in Files : Parsed(f) = 1..Len(text[f])
    BY CleanParsed
<1>3. \A f \in Files : IsFiniteSet({f} \X Parsed(f))
  <2> TAKE f \in Files
  <2>1. IsFiniteSet(1..Len(text[f]))
    <3>1. 1 \in Int /\ Len(text[f]) \in Int
      BY <1>1
    <3> QED BY <3>1, FS_Interval
  <2>2. IsFiniteSet({f})
    BY FS_Singleton
  <2> QED BY <1>2, <2>1, <2>2, FS_Product
<1> DEFINE sets == {{f} \X Parsed(f) : f \in Files}
<1> DEFINE map == [f \in Files |-> {f} \X Parsed(f)]
<1>4. IsFiniteSet(sets)
  <2>1. map \in Surjection(Files, sets)
    BY DEF Surjection
  <2>2. IsFiniteSet(Files)
    <3>1. 1 \in Int /\ Current \in Int
      BY FileFacts
    <3> QED BY <3>1, FS_Interval DEF Files
  <2> HIDE DEF map, sets
  <2> QED BY <2>1, <2>2, FS_Surjection
<1>5. IsFiniteSet(Places)
  <2>1. \A T \in sets : IsFiniteSet(T)
    BY <1>3
  <2> HIDE DEF sets
  <2>2. IsFiniteSet(UNION sets)
    BY <1>4, <2>1, FS_UNION
  <2> QED BY <2>2 DEF Places, sets
<1>6. \A f, i : <<f, i>> \in Places <=> f \in Files /\ i \in 1..Len(text[f])
    BY <1>2 DEF Places
<1>7. \A p \in Places : /\ p = <<p[1], p[2]>> /\ p[1] \in Files
                        /\ p[2] \in 1..Len(text[p[1]])
    BY <1>2 DEF Places
<1> QED BY <1>5, <1>6, <1>7, FS_CardinalityType

\* The places are numbered without gaps.
LEMMA NthIsPlace ==
    ASSUME Basic, CleanInv, NEW n \in 1..Cardinality(Places)
    PROVE  Nth(n) \in Places
<1>1. IsFiniteSet(Places) /\ Cardinality(Places) \in Nat
    BY PlacesAre
<1> DEFINE N == Cardinality(Places)
<1> DEFINE rank == [p \in Places |-> Cardinality(UpTo(p))]
<1>2. \A p \in Places : /\ p[1] \in Nat /\ p[2] \in Nat /\ p = <<p[1], p[2]>>
                        /\ UpTo(p) \in SUBSET Places /\ p \in UpTo(p)
  <2> TAKE p \in Places
  <2>1. p[1] \in Files /\ p[2] \in 1..Len(text[p[1]]) /\ p = <<p[1], p[2]>>
    BY PlacesAre
  <2>2. text[p[1]] \in Seq(Lines)
    BY <2>1 DEF Basic, TypeInv
  <2>3. p[1] \in Nat /\ p[2] \in Nat
    BY <2>1, <2>2, LenProperties, FileFacts
  <2>4. UpTo(p) \in SUBSET Places /\ p \in UpTo(p)
    BY <2>3 DEF UpTo
  <2> QED BY <2>1, <2>3, <2>4
<1>3. \A p \in Places : IsFiniteSet(UpTo(p)) /\ rank[p] \in 1..N
  <2> TAKE p \in Places
  <2>1. IsFiniteSet(UpTo(p)) /\ Cardinality(UpTo(p)) <= N
    BY <1>1, <1>2, FS_Subset
  <2>2. Cardinality(UpTo(p)) \in Nat /\ Cardinality(UpTo(p)) # 0
    BY <1>2, <2>1, FS_CardinalityType, FS_EmptySet
  <2> QED BY <1>1, <2>1, <2>2
<1>4. \A p, q \in Places : p # q => rank[p] # rank[q]
  <2>1. ASSUME NEW p \in Places, NEW q \in Places,
               p[1] < q[1] \/ (p[1] = q[1] /\ p[2] < q[2])
        PROVE  rank[p] # rank[q]
    <3>1. \A r \in Places : r[1] \in Nat /\ r[2] \in Nat
      BY <1>2
    <3>2. UpTo(p) \subseteq UpTo(q)
      BY <2>1, <3>1 DEF UpTo
    <3>3. q \notin UpTo(p)
      BY <2>1, <3>1 DEF UpTo
    <3>4. UpTo(p) # UpTo(q)
      BY <1>2, <3>3
    <3>5. IsFiniteSet(UpTo(q)) /\ UpTo(p) \in SUBSET UpTo(q)
      BY <1>3, <3>2
    <3>6. Cardinality(UpTo(p)) # Cardinality(UpTo(q))
      BY <3>4, <3>5, FS_Subset
    <3> QED BY <3>6
  <2> SUFFICES ASSUME NEW p \in Places, NEW q \in Places, p # q
               PROVE  rank[p] # rank[q]
    OBVIOUS
  <2>2. \/ p[1] < q[1] \/ (p[1] = q[1] /\ p[2] < q[2])
        \/ q[1] < p[1] \/ (q[1] = p[1] /\ q[2] < p[2])
    BY <1>2
  <2>3. CASE p[1] < q[1] \/ (p[1] = q[1] /\ p[2] < q[2])
    BY <2>1, <2>3
  <2>4. CASE q[1] < p[1] \/ (q[1] = p[1] /\ q[2] < p[2])
    <3>1. rank[q] # rank[p]
      BY <2>1, <2>4
    <3> QED BY <3>1
  <2> QED BY <2>2, <2>3, <2>4
<1>5. rank \in Injection(Places, 1..N)
  <2>1. rank \in [Places -> 1..N]
    BY <1>3
  <2> HIDE DEF rank
  <2> QED BY <1>4, <2>1 DEF Injection, IsInjective
<1>6. IsFiniteSet(1..N) /\ Cardinality(1..N) = N
  <2>1. N \in Int /\ 1 \in Int /\ (IF 1 > N THEN 0 ELSE N - 1 + 1) = N
    BY <1>1
  <2> HIDE DEF N
  <2> QED BY <2>1, FS_Interval
<1>7. rank \in Surjection(Places, 1..N)
  <2> HIDE DEF rank
  <2>1. Cardinality(Places) = Cardinality(1..N)
    BY <1>6
  <2> HIDE DEF N
  <2> QED BY <1>5, <1>6, <2>1, FS_Injection
<1>8. PICK p \in Places : rank[p] = n
  <2> HIDE DEF rank
  <2> QED BY <1>7 DEF Surjection
<1>9. p \in {q \in Places : Cardinality(UpTo(q)) = n}
    BY <1>8
<1> QED BY <1>9 DEF Nth

LEMMA PairsOf ==
    ASSUME NEW S, NEW P
    PROVE  /\ \A f, i : <<f, i>> \in UNION {{g} \X P[g] : g \in S} <=> f \in S /\ i \in P[f]
           /\ \A p \in UNION {{g} \X P[g] : g \in S} : p = <<p[1], p[2]>>
OBVIOUS

LEMMA SameIndex ==
    ASSUME UNCHANGED <<text, name>>
    PROVE  FullIndex' = FullIndex
<1>1. \A f : Parsed(f)' = Parsed(f) /\ NameOf(f)' = NameOf(f)
    BY DEF Parsed, Unreadable, NameOf
<1>2. Places' = Places
    BY <1>1 DEF Places
<1>3. \A p : UpTo(p)' = UpTo(p)
    BY <1>2 DEF UpTo
<1>4. \A n : Nth(n)' = Nth(n)
    BY <1>2, <1>3 DEF Nth
<1>5. \A p : Row(p)' = Row(p)
    BY <1>1 DEF Row
<1> QED BY <1>2, <1>4, <1>5 DEF FullIndex

\* An appended record is the last one of the log.
LEMMA PlaceAdded ==
    ASSUME Basic, Sound, AppendWrite, NEW new, new = <<Current, Len(text[Current]) + 1>>
    PROVE  /\ Places' = Places \cup {new} /\ new \notin Places
           /\ \A p \in Places : UpTo(p)' = UpTo(p)
           /\ UpTo(new)' = Places'
           /\ \A p \in Places : Row(p)' = Row(p)
           /\ Row(new)' = <<call'.id, Current, <<>>>>
<1> USE FileFacts
<1>1. TypeInv /\ StageInv /\ ~ torn /\ text \in [Files -> Seq(Lines)] /\ serial \in Nat
      /\ call.stage = "append" /\ CleanInv
    BY DEF Basic, Sound, TypeInv, AppendWrite
<1>2. PICK old \in Seq(Lines), fresh \in Seq(Lines), record \in Lines :
        /\ old = text[Current] /\ fresh = Appended(Record("event"))
        /\ Len(old) \in Nat /\ Len(fresh) = Len(old) + 1
        /\ \A i \in 1..(Len(fresh) - 1) : fresh[i] = old[i]
        /\ fresh[Len(fresh)] = record
        /\ record.kind = "event" /\ record.id = serial + 1
    BY <1>1, AppendedIs DEF Written
<1>3. text'[Current] = fresh /\ \A g \in Files : g # Current => text'[g] = text[g]
    BY <1>1, <1>2 DEF AppendWrite
<1>4. name' = name /\ call'.id = serial + 1
    BY <1>1 DEF AppendWrite, TypeInv, Calls
<1>5. /\ \A f, i : <<f, i>> \in Places <=> f \in Files /\ i \in 1..Len(text[f])
      /\ \A p \in Places : /\ p = <<p[1], p[2]>> /\ p[1] \in Files
                           /\ p[2] \in 1..Len(text[p[1]])
    BY <1>1, PlacesAre
<1> DEFINE n == Len(old) + 1
<1>6. n \in Nat /\ new = <<Current, n>> /\ new[1] = Current /\ new[2] = n /\ n = Len(fresh)
    BY <1>2
<1>7. \A f \in Files : DOMAIN text[f] = 1..Len(text[f]) /\ Len(text[f]) \in Nat
    BY <1>1, LenProperties
<1>8. DOMAIN fresh = 1..n /\ DOMAIN old = 1..Len(old)
    BY <1>2, LenProperties
<1>9. \A f \in Files : f # Current => Parsed(f)' = Parsed(f)
    BY <1>3 DEF Parsed, Unreadable
<1>10. Parsed(Current) = 1..Len(old)
    BY <1>1, <1>2, CleanParsed
<1>11. Parsed(Current)' = 1..n
  <2>1. \A i \in 1..n : fresh[i].kind \notin Broken
    <3> TAKE i \in 1..n
    <3>1. CASE i = n
      BY <1>2, <1>6, <3>1 DEF Broken
    <3>2. CASE i # n
      <4>1. i \in 1..Len(old) /\ i \in 1..(Len(fresh) - 1)
        BY <1>2, <3>2
      <4>2. fresh[i] = old[i]
        BY <1>2, <4>1
      <4> QED BY <1>1, <1>2, <4>1, <4>2 DEF CleanInv
    <3> QED BY <3>1, <3>2
  <2>2. ~ Unreadable(Current)'
    BY <1>3, <1>8, <2>1 DEF Unreadable, Broken
  <2>3. Parsed(Current)' = {i \in DOMAIN fresh : fresh[i].kind # "junk"}
    BY <1>3, <2>2 DEF Parsed
  <2> QED BY <1>8, <2>1, <2>3 DEF Broken
<1>12. 1..n = 1..Len(old) \cup {n}
    BY <1>2
<1> HIDE DEF n
<1>13. Places' = Places \cup {new}
  <2>1. PICK P, Q : /\ P = [f \in Files |-> Parsed(f)]
                    /\ Q = [f \in Files |-> Parsed(f)']
    OBVIOUS
  <2>2. Places = UNION {{f} \X P[f] : f \in Files} /\ Places' = UNION {{f} \X Q[f] : f \in Files}
    BY <2>1 DEF Places
  <2>3. \A f, i : /\ <<f, i>> \in Places <=> f \in Files /\ i \in P[f]
                  /\ <<f, i>> \in Places' <=> f \in Files /\ i \in Q[f]
    BY <2>2, PairsOf, Zenon
  <2>4. \A p \in Places' : p = <<p[1], p[2]>>
    BY <2>2, PairsOf, Zenon
  <2>5. \A f, i : <<f, i>> \in Places' <=> <<f, i>> \in Places \/ <<f, i>> = new
    <3> TAKE f, i
    <3> DEFINE here == <<f, i>> \in Places
    <3> DEFINE after == <<f, i>> \in Places'
    <3> HIDE DEF here, after
    <3>0. (here <=> f \in Files /\ i \in P[f]) /\ (after <=> f \in Files /\ i \in Q[f])
      <4>1. (<<f, i>> \in Places <=> f \in Files /\ i \in P[f])
            /\ (<<f, i>> \in Places' <=> f \in Files /\ i \in Q[f])
        BY <2>3, Zenon
      <4> QED BY <4>1, Zenon DEF here, after
    <3>1. CASE f = Current
      <4>1. i \in Q[f] <=> i \in P[f] \/ i = n
        BY <1>10, <1>11, <1>12, <2>1, <3>1
      <4>2. <<f, i>> = new <=> i = n
        BY <1>6, <3>1
      <4>3. after <=> here \/ <<f, i>> = new
        BY <3>0, <3>1, <4>1, <4>2
      <4> QED BY <4>3 DEF here, after
    <3>2. CASE f # Current
      <4>1. <<f, i>> # new
        BY <1>6, <3>2
      <4>2. f \in Files => Q[f] = P[f]
        BY <1>9, <2>1, <3>2
      <4>3. after <=> here \/ <<f, i>> = new
        BY <3>0, <4>1, <4>2
      <4> QED BY <4>3 DEF here, after
    <3> QED BY <3>1, <3>2
  <2>6. \A p \in Places : p = <<p[1], p[2]>>
    BY <1>5
  <2>7. new = <<new[1], new[2]>>
    BY <1>6
  <2> QED BY <2>4, <2>5, <2>6, <2>7
<1>14. \A p \in Places : p[1] \in Nat /\ p[1] <= Current /\ p[2] \in Nat
                         /\ (p[1] = Current => p[2] <= Len(old) /\ p[2] < n)
  <2> TAKE p \in Places
  <2>1. p[1] \in Files /\ p[2] \in 1..Len(text[p[1]])
    BY <1>5
  <2>2. p[1] \in Nat /\ p[1] <= Current
    BY <2>1
  <2>3. Len(text[p[1]]) \in Nat
    BY <1>7, <2>1
  <2>4. p[2] \in Nat /\ p[2] <= Len(text[p[1]])
    BY <2>1, <2>3
  <2>5. p[1] = Current => p[2] <= Len(old)
    BY <1>2, <2>4
  <2>6. n = Len(old) + 1 /\ Len(old) \in Nat
    BY <1>2 DEF n
  <2> QED BY <2>2, <2>4, <2>5, <2>6
<1>15. new \notin Places
    BY <1>6, <1>14
<1>16. \A p \in Places : UpTo(p)' = UpTo(p)
  <2> TAKE p \in Places
  <2>1. ~ (new[1] < p[1] \/ (new[1] = p[1] /\ new[2] <= p[2]))
    BY <1>6, <1>14
  <2> QED BY <1>13, <2>1 DEF UpTo
<1>17. UpTo(new)' = Places'
  <2>1. \A q \in Places' : q[1] < new[1] \/ (q[1] = new[1] /\ q[2] <= new[2])
    BY <1>6, <1>13, <1>14
  <2>2. UpTo(new)' = {q \in Places' : q[1] < new[1] \/ (q[1] = new[1] /\ q[2] <= new[2])}
    BY DEF UpTo
  <2> QED BY <2>1, <2>2
<1>18. \A p \in Places : Row(p)' = Row(p)
  <2> TAKE p \in Places
  <2>1. text'[p[1]][p[2]] = text[p[1]][p[2]]
    <3>1. p[1] \in Files /\ p[2] \in 1..Len(text[p[1]])
      BY <1>5
    <3>2. CASE p[1] # Current
      BY <1>3, <3>1, <3>2
    <3>3. CASE p[1] = Current
      <4>1. p[2] \in 1..(Len(fresh) - 1)
        BY <1>2, <3>1, <3>3
      <4> QED BY <1>2, <1>3, <3>3, <4>1
    <3> QED BY <3>2, <3>3
  <2> QED BY <1>4, <2>1 DEF Row, NameOf
<1>19. Row(new)' = <<call'.id, Current, <<>>>>
  <2>1. text'[new[1]][new[2]].id = call'.id
    BY <1>2, <1>3, <1>4, <1>6
  <2> QED BY <1>6, <2>1 DEF Row, NameOf
<1> QED BY <1>13, <1>15, <1>16, <1>17, <1>18, <1>19

LEMMA IndexGrows ==
    ASSUME Basic, Sound, AppendWrite
    PROVE  FullIndex' = Append(FullIndex, <<call'.id, Current, <<>>>>)
<1>1. IsFiniteSet(Places) /\ Cardinality(Places) \in Nat
    BY PlacesAre DEF Sound
<1>2. PICK new : new = <<Current, Len(text[Current]) + 1>>
    OBVIOUS
<1>3. /\ Places' = Places \cup {new} /\ new \notin Places
      /\ \A p \in Places : UpTo(p)' = UpTo(p)
      /\ UpTo(new)' = Places'
      /\ \A p \in Places : Row(p)' = Row(p)
      /\ Row(new)' = <<call'.id, Current, <<>>>>
    BY <1>2, PlaceAdded
<1>4. PICK N \in Nat : N = Cardinality(Places)
    BY <1>1
<1>5. Cardinality(Places') = N + 1
    BY <1>1, <1>3, <1>4, FS_AddElement
<1>6. \A p \in Places : Cardinality(UpTo(p)) \in Nat /\ Cardinality(UpTo(p)) <= N
  <2> TAKE p \in Places
  <2>1. UpTo(p) \in SUBSET Places
    BY DEF UpTo
  <2>2. IsFiniteSet(UpTo(p)) /\ Cardinality(UpTo(p)) <= N
    BY <1>1, <1>4, <2>1, FS_Subset
  <2> QED BY <2>2, FS_CardinalityType
<1> DEFINE old(n) == {q \in Places : Cardinality(UpTo(q)) = n}
<1> DEFINE all(n) == {q \in Places' : Cardinality(UpTo(q)') = n}
<1>7. \A n \in 1..N : all(n) = old(n)
  <2> TAKE n \in 1..N
  <2>1. Cardinality(UpTo(new)') # n
    BY <1>3, <1>4, <1>5
  <2>2. \A q \in Places : Cardinality(UpTo(q)') = Cardinality(UpTo(q))
    BY <1>3
  <2> QED BY <1>3, <2>1, <2>2
<1>8. all(N + 1) = {new}
  <2>1. Cardinality(UpTo(new)') = N + 1
    BY <1>3, <1>5
  <2>2. \A q \in Places : Cardinality(UpTo(q)') # N + 1
    <3> TAKE q \in Places
    <3>1. Cardinality(UpTo(q)') = Cardinality(UpTo(q))
      BY <1>3
    <3> QED BY <1>4, <1>6, <3>1
  <2> QED BY <1>3, <2>1, <2>2
<1>9. \A n : Nth(n) = (CHOOSE p \in old(n) : TRUE) /\ Nth(n)' = (CHOOSE p \in all(n) : TRUE)
    BY DEF Nth
<1>10. \A n \in 1..N : Nth(n)' = Nth(n)
    BY <1>7, <1>9, Zenon
<1>11. Nth(N + 1)' = new
  <2>1. (CHOOSE p \in {new} : TRUE) = new
    OBVIOUS
  <2> QED BY <1>8, <1>9, <2>1, Zenon
<1>12. \A n \in 1..N : Nth(n) \in Places
    BY <1>4, NthIsPlace DEF Sound
<1> DEFINE row == Row(new)'
<1>13. FullIndex = [n \in 1..N |-> Row(Nth(n))]
    BY <1>4 DEF FullIndex
<1>14. FullIndex' = [n \in 1..(N + 1) |-> IF n = N + 1 THEN row ELSE Row(Nth(n))]
  <2>1. FullIndex' = [n \in 1..(N + 1) |-> Row(Nth(n))']
    BY <1>5 DEF FullIndex
  <2>2. \A n \in 1..N : Row(Nth(n))' = Row(Nth(n))
    <3> TAKE n \in 1..N
    <3>1. PICK p \in Places : p = Nth(n)
      BY <1>12
    <3>2. Nth(n)' = p
      BY <1>10, <3>1
    <3>3. Row(Nth(n))' = Row(p)'
      BY <3>2 DEF Row, NameOf
    <3>4. Row(Nth(n)) = Row(p)
      BY <3>1
    <3> QED BY <1>3, <3>3, <3>4
  <2>3. Row(Nth(N + 1))' = row
    BY <1>11 DEF Row, NameOf
  <2>4. \A n \in 1..(N + 1) : n = N + 1 \/ n \in 1..N
    BY <1>4
  <2>5. \A n \in 1..(N + 1) : Row(Nth(n))' = IF n = N + 1 THEN row ELSE Row(Nth(n))
    <3> TAKE n \in 1..(N + 1)
    <3>1. CASE n = N + 1
      BY <2>3, <3>1
    <3>2. CASE n # N + 1
      BY <2>2, <2>4, <3>2
    <3> QED BY <3>1, <3>2
  <2> QED BY <2>1, <2>5
<1>15. PICK a, r : /\ a = FullIndex /\ r = row
    OBVIOUS
<1>16. PICK S : S = {a[i] : i \in 1..N} \cup {r}
    OBVIOUS
<1>17. a \in Seq(S) /\ Len(a) = N /\ r \in S
  <2>1. a = [n \in 1..N |-> a[n]]
    BY <1>13, <1>15
  <2> QED BY <1>4, <1>16, <2>1
<1>18. FullIndex' = [n \in 1..(N + 1) |-> IF n = N + 1 THEN r ELSE a[n]]
  <2>1. \A n \in 1..N : a[n] = Row(Nth(n))
    BY <1>13, <1>15
  <2>2. \A n \in 1..(N + 1) : (IF n = N + 1 THEN row ELSE Row(Nth(n)))
                                = (IF n = N + 1 THEN r ELSE a[n])
    BY <1>4, <1>15, <2>1
  <2> QED BY <1>14, <2>2
<1>19. FullIndex' = Append(a, r)
  <2> HIDE DEF row
  <2>1. /\ Append(a, r) \in Seq(S) /\ Len(Append(a, r)) = N + 1
        /\ \A i \in 1..N : Append(a, r)[i] = a[i]
        /\ Append(a, r)[N + 1] = r
    BY <1>17, AppendProperties
  <2>2. DOMAIN Append(a, r) = 1..(N + 1)
    BY <2>1, LenProperties
  <2>3. Append(a, r) = [n \in 1..(N + 1) |-> Append(a, r)[n]]
    <3>1. Append(a, r) \in [1..(N + 1) -> S]
      BY <2>1, LenProperties
    <3> QED BY <3>1
  <2>4. \A n \in 1..(N + 1) : Append(a, r)[n] = IF n = N + 1 THEN r ELSE a[n]
    BY <1>4, <2>1
  <2> QED BY <1>18, <2>3, <2>4
<1> QED BY <1>3, <1>15, <1>19

\* What the index lacks while a call is under way.
IndexInv ==
    /\ call.stage \in {"seal", "replace"} => call.rotated
    /\ call.stage \in {"idle", "repair"} => index = FullIndex
    /\ call.stage = "append" /\ ~ call.rotated => index = FullIndex
    /\ call.stage = "row" => FullIndex = Append(index, <<call.id, Current, <<>>>>)

LEMMA StepIndexed ==
    ASSUME Basic, RepairInv, WriterInv, Untouched => IndexInv, [Next]_vars
    PROVE  Untouched' => IndexInv'
<1> SUFFICES ASSUME Untouched' PROVE IndexInv'
    OBVIOUS
<1>1. Untouched /\ ~ Abort /\ ~ DamageAny /\ ~ TailCut /\ \A kind : ~ AppendTorn(kind)
  <2>1. aborts \in Nat /\ damages \in Nat
    BY DEF Basic, TypeInv
  <2>2. ~ Abort /\ \A kind : ~ AppendTorn(kind)
    BY <2>1 DEF Untouched, Abort, AppendTorn
  <2>3. ~ DamageAny
    BY <2>1 DEF Untouched, DamageAny, Damage
  <2>4. UNCHANGED <<aborts, damages>>
    BY <2>2, <2>3 DEF Next, AppendBegin, Seal, Replace, AppendWrite, IndexRow,
       IndexAfterRotation, RebuildIndex, RepairBegin, RepairSkip, RepairFile, RepairRename,
       TailCut, vars, counters
  <2>5. ~ Unreadable(Current)
    BY <2>4, CleanParsed, FileFacts DEF Untouched, WriterInv, Sound
  <2> QED BY <2>2, <2>3, <2>4, <2>5 DEF Untouched, TailCut
<1>2. Sound /\ IndexInv /\ call \in Calls
    BY <1>1 DEF WriterInv, Basic, TypeInv
<1>3. CASE \E size \in Sizes : AppendBegin(size)
  <2>1. PICK full \in BOOLEAN :
          /\ call.stage = "idle" /\ UNCHANGED <<text, name, index>>
          /\ call'.stage = (IF full THEN "seal" ELSE "append") /\ call'.rotated = full
    <3>1. PICK size \in Sizes : AppendBegin(size)
      BY <1>3
    <3> QED BY <3>1, IdleTyped DEF AppendBegin, Idle
  <2> QED BY <1>2, <2>1, SameIndex DEF IndexInv
<1>4. CASE Seal
  <2>1. call.stage = "seal" /\ call'.stage = "replace" /\ call'.rotated = call.rotated
    BY <1>2, <1>4 DEF Seal, Calls
  <2> QED BY <1>2, <2>1 DEF IndexInv
<1>5. CASE Replace
  <2>1. call.stage = "replace" /\ call'.stage = "append" /\ call'.rotated = call.rotated
    BY <1>2, <1>5 DEF Replace, Calls
  <2> QED BY <1>2, <2>1 DEF IndexInv
<1>6. CASE AppendWrite
  <2>1. /\ call.stage = "append" /\ index' = index
        /\ call'.stage = IF call.rotated THEN "rebuild" ELSE "row"
    BY <1>2, <1>6 DEF AppendWrite, Calls
  <2>2. FullIndex' = Append(FullIndex, <<call'.id, Current, <<>>>>)
    BY <1>2, <1>6, IndexGrows
  <2>3. CASE call.rotated
    BY <2>1, <2>3 DEF IndexInv
  <2>4. CASE ~ call.rotated
    BY <1>2, <2>1, <2>2, <2>4 DEF IndexInv
  <2> QED BY <2>3, <2>4
<1>7. CASE IndexRow \/ IndexAfterRotation \/ RebuildIndex
  <2>1. /\ call'.stage = "idle" /\ UNCHANGED <<text, name>>
    BY <1>7, IdleTyped DEF IndexRow, IndexAfterRotation, RebuildIndex
  <2>2. index' = FullIndex
    BY <1>2, <1>7 DEF IndexInv, IndexRow, IndexAfterRotation, RebuildIndex
  <2> QED BY <2>1, <2>2, SameIndex DEF IndexInv
<1>8. CASE RepairBegin
  <2>1. call.stage = "idle" /\ call'.stage \in {"idle", "repair"}
        /\ UNCHANGED <<text, name, index>>
    BY <1>8, IdleTyped DEF RepairBegin, Idle
  <2> QED BY <1>2, <2>1, SameIndex DEF IndexInv
<1>9. CASE RepairSkip \/ RepairFile \/ RepairRename
  <2>1. Sound' /\ UNCHANGED <<text, name, index>>
    BY <1>2, <1>9, RepairSound
  <2>2. call.stage = "repair"
    BY <1>2, <1>9 DEF RepairSkip, RepairFile, RepairRename, Sound
  <2>3. call'.stage \in {"idle", "repair", "rename"}
    BY <1>2, <1>9, IdleTyped DEF RepairSkip, RepairFile, RepairRename, RepairNext, Calls
  <2>4. call'.stage # "rename"
    BY <2>1 DEF Sound
  <2> QED BY <1>2, <2>1, <2>2, <2>3, <2>4, SameIndex DEF IndexInv
<1>10. CASE UNCHANGED vars
  <2>1. UNCHANGED <<text, name, index, call>>
    BY <1>10 DEF vars
  <2> QED BY <1>2, <2>1, SameIndex DEF IndexInv
<1> QED BY <1>1, <1>3, <1>4, <1>5, <1>6, <1>7, <1>8, <1>9, <1>10 DEF Next

\* While nobody died and nobody touched the files the index lists the log.
THEOREM IndexStaysTrue == Spec => []IndexTrue
<1>1. Init => IndexInv
  <2> SUFFICES ASSUME Init PROVE IndexInv
    OBVIOUS
  <2>1. \A f \in Files : Parsed(f) = {}
    BY EmptySeq DEF Init, Parsed
  <2>2. Places = {}
    BY <2>1 DEF Places
  <2>3. Cardinality(Places) = 0 /\ 1..0 = {}
    BY <2>2, FS_EmptySet
  <2>4. FullIndex = <<>>
    BY <2>3 DEF FullIndex
  <2> QED BY <2>4, IdleTyped DEF Init, IndexInv
<1>2. Basic /\ RepairInv /\ WriterInv /\ (Untouched => IndexInv) /\ [Next]_vars
      => (Untouched => IndexInv)'
    BY StepIndexed
<1>3. Spec => [](Basic /\ RepairInv)
  <2>1. Init => RepairInv
    BY IdleTyped DEF Init, RepairInv
  <2>2. Basic /\ RepairInv /\ [Next]_vars => RepairInv'
    BY StepRelinks
  <2> QED BY <2>1, <2>2, BasicInvariant, PTL DEF Spec
<1>4. Basic /\ (Untouched => IndexInv) => IndexTrue
    BY IdleTyped DEF IndexTrue, Quiet, Untouched, IndexInv
<1> QED BY <1>1, <1>2, <1>3, <1>4, WriterInvariant, PTL DEF Spec
=============================================================================
