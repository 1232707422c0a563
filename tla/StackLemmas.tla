------------------------------ MODULE StackLemmas ------------------------------
(***************************************************************************)
(* What pushing, popping and updating the top do to a sequence used as a   *)
(* stack.                                                                  *)
(***************************************************************************)
EXTENDS Integers, SequencesExt, SequenceTheorems, TLAPS

\* Popping leaves the frames below as they are.
LEMMA FrontOfStack ==
    ASSUME NEW S, NEW s \in Seq(S), s # <<>>
    PROVE  /\ Front(s) \in Seq(S)
           /\ Len(s) \in Nat \ {0}
           /\ DOMAIN Front(s) = 1 .. Len(s) - 1
           /\ DOMAIN s = 1 .. Len(s)
           /\ \A i \in 1 .. Len(s) - 1 : Front(s)[i] = s[i]
           /\ Last(s) \in S
           /\ Last(s) = s[Len(s)]
<1>1. Len(s) \in Nat \ {0} /\ DOMAIN s = 1 .. Len(s)
  OBVIOUS
<1>2. \A i \in 1 .. Len(s) - 1 : s[i] \in S
  BY <1>1
<1>3. /\ SubSeq(s, 1, Len(s) - 1) \in Seq(S)
      /\ Len(SubSeq(s, 1, Len(s) - 1)) = IF 1 <= Len(s) - 1 THEN Len(s) - 1 - 1 + 1 ELSE 0
      /\ \A i \in 1 .. Len(s) - 1 - 1 + 1 : SubSeq(s, 1, Len(s) - 1)[i] = s[1 + i - 1]
  <2>1. Len(s) - 1 \in Int /\ 1 \in Int
    BY <1>1
  <2> QED
    BY <1>2, <2>1, SubSeqProperties
<1>4. Len(Front(s)) = Len(s) - 1
  BY <1>1, <1>3 DEF Front
<1>5. DOMAIN Front(s) = 1 .. Len(s) - 1
  BY <1>3, <1>4 DEF Front
<1>6. \A i \in 1 .. Len(s) - 1 : Front(s)[i] = s[i]
  BY <1>1, <1>3 DEF Front
<1>7. Last(s) = s[Len(s)] /\ Last(s) \in S
  BY <1>1 DEF Last
<1> QED
  BY <1>1, <1>3, <1>5, <1>6, <1>7 DEF Front

\* Pushing leaves the frames below as they are.
LEMMA PushOnStack ==
    ASSUME NEW S, NEW s \in Seq(S), NEW e \in S
    PROVE  /\ Append(s, e) \in Seq(S)
           /\ Len(s) \in Nat
           /\ DOMAIN Append(s, e) = 1 .. Len(s) + 1
           /\ Append(s, e)[Len(s) + 1] = e
           /\ \A i \in 1 .. Len(s) : Append(s, e)[i] = s[i]
  BY AppendProperties

\* Updating the top changes nothing else.
LEMMA TopUpdated ==
    ASSUME NEW S, NEW s \in Seq(S), s # <<>>, NEW e \in S
    PROVE  LET t == [s EXCEPT ![Len(s)] = e]
           IN  /\ t \in Seq(S)
               /\ t # <<>>
               /\ Len(t) = Len(s)
               /\ DOMAIN t = DOMAIN s
               /\ t[Len(s)] = e
               /\ \A i \in DOMAIN s : i # Len(s) => t[i] = s[i]
<1> DEFINE t == [s EXCEPT ![Len(s)] = e]
<1>1. Len(s) \in Nat \ {0} /\ DOMAIN s = 1 .. Len(s)
  OBVIOUS
<1>2. t \in [1 .. Len(s) -> S]
  BY <1>1
<1>3. t \in Seq(S) /\ Len(t) = Len(s)
  BY <1>1, <1>2
<1> QED
  BY <1>1, <1>2, <1>3

\* A stack of one frame.
LEMMA SingleFrame ==
    ASSUME NEW S, NEW e \in S
    PROVE  /\ <<e>> \in Seq(S) /\ <<e>> # <<>>
           /\ DOMAIN <<e>> = {1}
           /\ <<e>>[1] = e
  OBVIOUS

\* A stack of no frame.
LEMMA NoFrame ==
    ASSUME NEW S
    PROVE  <<>> \in Seq(S) /\ DOMAIN <<>> = {} /\ Len(<<>>) = 0
  OBVIOUS
===============================================================================
