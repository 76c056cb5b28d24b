----------------------------- MODULE WireProofs -----------------------------
(***************************************************************************)
(* Theorems about the framing, for any ids and payloads that fit a short,  *)
(* any limits and any number of frames, however TCP cuts them.             *)
(***************************************************************************)
EXTENDS Wire, SequenceTheorems, TLAPS

-----------------------------------------------------------------------------
(* A short comes out of its two bytes as it went in.                       *)
LEMMA DivMod ==
    ASSUME NEW b \in Nat, b > 0, NEW n \in Nat, n < b * b
    PROVE  /\ n \div b \in 0 .. b - 1 /\ n % b \in 0 .. b - 1
           /\ (n \div b) * b + (n % b) = n
  <1>1. n \div b \in Int /\ n % b \in 0 .. b - 1
    OBVIOUS
  <1>2. (n \div b) * b + (n % b) = n
    OBVIOUS
  <1>3. n \div b < b
    BY ONLY <1>1, <1>2, b \in Nat, n \in Nat, n < b * b, b > 0
  <1>4. n \div b >= 0
    OBVIOUS
  <1> QED
    BY <1>1, <1>2, <1>3, <1>4

LEMMA BaseFacts ==
    /\ Base \in Nat /\ Base > 0 /\ MaxShort \in Nat
    /\ Base * Base = 2 * MaxShort + 2
  <1>1. Base \in Nat /\ Base > 0 /\ Base % 2 = 0
    BY WireAssumption DEF WireAssumption
  <1>2. PICK h \in Nat : Base = 2 * h
    <2>1. Base \div 2 \in Nat /\ Base = 2 * (Base \div 2)
      BY <1>1
    <2> QED
      BY <2>1
  <1>3. h * h \in Nat /\ h * h >= 1 /\ Base * Base = 4 * (h * h)
    BY <1>1, <1>2
  <1>4. (Base * Base) \div 2 = 2 * (h * h)
    BY <1>3
  <1> QED
    BY <1>1, <1>3, <1>4 DEF MaxShort

LEMMA TwoBytes ==
    ASSUME NEW v \in Short
    PROVE  /\ Unsigned(v) \div Base \in Byte /\ Unsigned(v) % Base \in Byte
           /\ Signed((Unsigned(v) \div Base) * Base + (Unsigned(v) % Base)) = v
  <1> DEFINE B2 == Base * Base
             u == Unsigned(v)
  <1>1. B2 \in Nat /\ B2 = 2 * MaxShort + 2 /\ MaxShort \in Nat
    BY BaseFacts
  <1> HIDE DEF B2
  <1>2. u \in Nat /\ u < B2 /\ u = IF v < 0 THEN v + B2 ELSE v
    BY <1>1 DEF Short, Unsigned, B2
  <1>3. Signed(u) = v
    BY <1>1, <1>2 DEF Short, Signed, B2
  <1> HIDE DEF u
  <1>4. /\ u \div Base \in Byte /\ u % Base \in Byte
        /\ (u \div Base) * Base + (u % Base) = u
    BY <1>2, BaseFacts, DivMod DEF B2, Byte
  <1> QED
    BY <1>3, <1>4 DEF u

(* The frame SendNode makes: four bytes that ShortAt decodes to the id and *)
(* the length, and the data.                                               *)
LEMMA FrameBytes ==
    ASSUME NEW m \in [id : Ids, data : Payloads]
    PROVE  /\ SendNode(m) \in Seq(Byte)
           /\ Len(SendNode(m)) = HEAD_TOTAL_LEN + Len(m.data)
           /\ Signed(SendNode(m)[1] * Base + SendNode(m)[2]) = m.id
           /\ Signed(SendNode(m)[3] * Base + SendNode(m)[4]) = Len(m.data)
           /\ \A i \in 1 .. Len(m.data) : SendNode(m)[HEAD_TOTAL_LEN + i] = m.data[i]
           /\ m.id \in Short /\ Len(m.data) \in Short /\ m.data \in Seq(Byte)
  <1>1. m.id \in Short /\ m.data \in Seq(Byte) /\ Len(m.data) <= MaxShort
    BY WireAssumption, BaseFacts DEF WireAssumption, HEAD_TOTAL_LEN
  <1>2. Len(m.data) \in Short
    BY <1>1, BaseFacts DEF Short
  <1>3. PICK a \in Byte, b \in Byte :
            NetworkShort(m.id) = <<a, b>> /\ Signed(a * Base + b) = m.id
    BY <1>1, TwoBytes DEF NetworkShort
  <1>4. PICK c \in Byte, d \in Byte :
            NetworkShort(Len(m.data)) = <<c, d>> /\ Signed(c * Base + d) = Len(m.data)
    BY <1>2, TwoBytes DEF NetworkShort
  <1>5. SendNode(m) = (<<a, b>> \o <<c, d>>) \o m.data
    BY <1>3, <1>4 DEF SendNode
  <1> DEFINE f == (<<a, b>> \o <<c, d>>) \o m.data
             x == <<a, b>> \o <<c, d>>
  <1>6. /\ <<a, b>> \in Seq(Byte) /\ Len(<<a, b>>) = 2
        /\ <<c, d>> \in Seq(Byte) /\ Len(<<c, d>>) = 2
    OBVIOUS
  <1>7. /\ x \in Seq(Byte) /\ Len(x) = 4
        /\ x[1] = a /\ x[2] = b /\ x[3] = c /\ x[4] = d
        /\ f = x \o m.data
    BY <1>6, ConcatProperties
  <1> HIDE DEF x
  <1>8. /\ f \in Seq(Byte) /\ Len(f) = 4 + Len(m.data)
        /\ f[1] = a /\ f[2] = b /\ f[3] = c /\ f[4] = d
        /\ \A i \in 1 .. Len(m.data) : f[4 + i] = m.data[i]
    BY <1>1, <1>7, ConcatProperties
  <1> HIDE DEF f
  <1> QED
    BY <1>1, <1>2, <1>3, <1>4, <1>5, <1>8 DEF HEAD_TOTAL_LEN, f

LEMMA Concat ==
    ASSUME NEW s \in Seq(Byte), NEW t \in Seq(Byte)
    PROVE  /\ s \o t \in Seq(Byte) /\ Len(s \o t) = Len(s) + Len(t)
           /\ \A i \in 1 .. Len(s) : (s \o t)[i] = s[i]
           /\ \A i \in 1 .. Len(t) : (s \o t)[Len(s) + i] = t[i]
  OBVIOUS

-----------------------------------------------------------------------------
LEMMA InitIInv == Init => WireInv
  <1> SUFFICES ASSUME Init PROVE WireInv
    OBVIOUS
  <1>1. /\ <<>> \in Seq([id : Ids, data : Payloads]) /\ <<>> \in Seq(Byte)
        /\ <<>> \in Seq(Message) /\ <<0>> \in Seq(Nat)
    OBVIOUS
  <1>2. node \in MsgHead
    BY BaseFacts DEF Init, MsgHead, Short
  <1>3. TypeOK
    BY <1>1, <1>2 DEF Init, TypeOK
  <1>4. LogInv
    BY DEF Init, LogInv
  <1>5. PlaceInv
    BY DEF Init, PlaceInv, Due, HEAD_TOTAL_LEN
  <1> QED
    BY <1>3, <1>4, <1>5 DEF Init, WireInv, FramesRecovered, ClosedForCause

(* What the invariant says of the wire, in the terms the steps use.        *)
LEMMA WireFacts ==
    ASSUME WireInv
    PROVE  /\ sent \in Seq([id : Ids, data : Payloads]) /\ start \in Seq(Nat)
           /\ log \in Seq(Byte) /\ received \in Seq(Message)
           /\ Len(sent) \in Nat /\ Len(log) \in Nat /\ Len(received) \in Nat
           /\ Len(start) = Len(sent) + 1 /\ start[Len(sent) + 1] = Len(log)
           /\ \A k \in 1 .. Len(sent) : FrameAt(k)
           /\ \A k \in 1 .. Len(sent) + 1 : start[k] \in Nat
           /\ \A k \in 1 .. Len(sent) :
                 /\ sent[k].id \in Short /\ sent[k].data \in Seq(Byte)
                 /\ Len(sent[k].data) \in Nat /\ Len(sent[k].data) \in Short
           /\ Len(received) <= Len(sent)
           /\ Due \in 1 .. Len(sent) + 1
  <1>1. /\ sent \in Seq([id : Ids, data : Payloads]) /\ start \in Seq(Nat)
        /\ log \in Seq(Byte) /\ received \in Seq(Message)
    BY DEF WireInv, TypeOK
  <1>2. /\ Len(sent) \in Nat /\ Len(log) \in Nat /\ Len(received) \in Nat
    BY <1>1
  <1>3. /\ Len(start) = Len(sent) + 1 /\ start[Len(sent) + 1] = Len(log)
        /\ \A k \in 1 .. Len(sent) : FrameAt(k)
    BY DEF WireInv, LogInv
  <1>4. \A k \in 1 .. Len(sent) + 1 : start[k] \in Nat
    BY <1>1, <1>2, <1>3
  <1>5. \A k \in 1 .. Len(sent) :
           /\ sent[k].id \in Short /\ sent[k].data \in Seq(Byte)
           /\ Len(sent[k].data) \in Nat /\ Len(sent[k].data) \in Short
    <2> TAKE k \in 1 .. Len(sent)
    <2>1. sent[k] \in [id : Ids, data : Payloads]
      BY <1>1, ElementOfSeq
    <2>2. /\ sent[k].id \in Short /\ sent[k].data \in Seq(Byte)
          /\ Len(sent[k].data) \in Short
      BY ONLY <2>1, FrameBytes
    <2> QED
      BY <2>2
  <1>6. Len(received) <= Len(sent)
    BY DEF WireInv, FramesRecovered
  <1> QED
    BY <1>1, <1>2, <1>3, <1>4, <1>5, <1>6 DEF Due

(* A frame that is sent goes behind those that are there.                  *)
LEMMA SendIInv ==
    ASSUME WireInv, NEW m \in [id : Ids, data : Payloads], Send(m)
    PROVE  WireInv'
  <1> DEFINE f == SendNode(m)
  <1>n. PICK n \in Nat : n = Len(sent)
    BY WireFacts
  <1>1. /\ f \in Seq(Byte) /\ Len(f) = HEAD_TOTAL_LEN + Len(m.data)
        /\ Signed(f[1] * Base + f[2]) = m.id
        /\ Signed(f[3] * Base + f[4]) = Len(m.data)
        /\ \A i \in 1 .. Len(m.data) : f[HEAD_TOTAL_LEN + i] = m.data[i]
        /\ Len(m.data) \in Nat
    <2>1. m.data \in Seq(Byte)
      BY FrameBytes
    <2> QED
      BY <2>1, FrameBytes
  <1>2. /\ sent' = Append(sent, m) /\ log' = log \o f
        /\ start' = Append(start, Len(log) + Len(f))
        /\ UNCHANGED <<reader, gone, stage, base, got, node, received, cause>>
    BY DEF Send
  <1> HIDE DEF f
  <1>3. /\ sent \in Seq([id : Ids, data : Payloads]) /\ start \in Seq(Nat)
        /\ log \in Seq(Byte) /\ n \in Nat /\ Len(log) \in Nat /\ Len(received) \in Nat
        /\ Len(start) = n + 1 /\ start[n + 1] = Len(log)
        /\ \A k \in 1 .. n + 1 : start[k] \in Nat
        /\ Len(received) <= n /\ Due \in 1 .. n + 1
    BY WireFacts, <1>n
  <1>4. /\ sent' \in Seq([id : Ids, data : Payloads]) /\ Len(sent') = n + 1
        /\ \A k \in 1 .. n : sent'[k] = sent[k]
        /\ sent'[n + 1] = m
    BY <1>2, <1>3, <1>n, AppendProperties
  <1>5. /\ log' \in Seq(Byte) /\ Len(log') = Len(log) + Len(f)
        /\ \A i \in 1 .. Len(log) : log'[i] = log[i]
        /\ \A i \in 1 .. Len(f) : log'[Len(log) + i] = f[i]
    BY <1>1, <1>2, <1>3, Concat
  <1>6. /\ start' \in Seq(Nat) /\ Len(start') = n + 2
        /\ \A k \in 1 .. n + 1 : start'[k] = start[k]
        /\ start'[n + 2] = Len(log) + Len(f)
    <2>1. Len(log) + Len(f) \in Nat
      BY <1>1, <1>3 DEF HEAD_TOTAL_LEN
    <2> QED
      BY <1>2, <1>3, <2>1, AppendProperties
  <1>7. ASSUME NEW k \in 1 .. n PROVE FrameAt(k)'
    <2>1. FrameAt(k)
      BY WireFacts, <1>n
    <2>3. k \in 1 .. n + 1 /\ k + 1 \in 1 .. n + 1
      OBVIOUS
    <2>2. PICK a \in Nat, c \in Nat, l \in Nat :
             a = start[k] /\ c = Len(sent[k].data) /\ l = Len(log)
      <3>1. start[k] \in Nat /\ Len(sent[k].data) \in Nat /\ Len(log) \in Nat
        BY WireFacts, <1>n, <1>3, <2>3
      <3> QED
        BY <3>1
    <2>4. /\ sent'[k] = sent[k] /\ start'[k] = a /\ start'[k + 1] = start[k + 1]
          /\ start[k + 1] = a + HEAD_TOTAL_LEN + c /\ a + HEAD_TOTAL_LEN + c <= l
      BY <1>4, <1>6, <2>1, <2>2, <2>3 DEF FrameAt
    <2>5. \A i \in 1 .. HEAD_TOTAL_LEN + c : log'[a + i] = log[a + i]
      <3> TAKE i \in 1 .. HEAD_TOTAL_LEN + c
      <3>1. a + i \in 1 .. l
        BY ONLY <2>4, a \in Nat, c \in Nat, l \in Nat DEF HEAD_TOTAL_LEN
      <3> QED
        BY <1>5, <2>2, <3>1
    <2>6. /\ log'[a + 1] = log[a + 1] /\ log'[a + 1 + 1] = log[a + 1 + 1]
          /\ log'[a + 2 + 1] = log[a + 2 + 1] /\ log'[a + 2 + 1 + 1] = log[a + 2 + 1 + 1]
      <3>1. a + 1 + 1 = a + 2 /\ a + 2 + 1 = a + 3 /\ a + 2 + 1 + 1 = a + 4
        OBVIOUS
      <3>2. 1 \in 1 .. 4 + c /\ 2 \in 1 .. 4 + c /\ 3 \in 1 .. 4 + c /\ 4 \in 1 .. 4 + c
        OBVIOUS
      <3> QED
        BY <2>5, <3>1, <3>2 DEF HEAD_TOTAL_LEN
    <2>7. /\ Signed(log'[a + 1] * Base + log'[a + 1 + 1]) = sent[k].id
          /\ Signed(log'[a + 2 + 1] * Base + log'[a + 2 + 1 + 1]) = c
      <3>1. /\ Signed(log[a + 1] * Base + log[a + 1 + 1]) = sent[k].id
            /\ Signed(log[a + 2 + 1] * Base + log[a + 2 + 1 + 1]) = c
        BY <2>1, <2>2 DEF FrameAt, ShortAt, HEAD_ID_LENGTH
      <3> QED
        BY <2>6, <3>1
    <2>8. \A i \in 1 .. c : log'[a + HEAD_TOTAL_LEN + i] = sent[k].data[i]
      <3> TAKE i \in 1 .. c
      <3>1. HEAD_TOTAL_LEN + i \in 1 .. HEAD_TOTAL_LEN + c /\ a + (HEAD_TOTAL_LEN + i) = a + HEAD_TOTAL_LEN + i
        BY DEF HEAD_TOTAL_LEN
      <3>2. log'[a + HEAD_TOTAL_LEN + i] = log[a + HEAD_TOTAL_LEN + i]
        BY <2>5, <3>1
      <3>3. log[a + HEAD_TOTAL_LEN + i] = sent[k].data[i]
        BY <2>1, <2>2 DEF FrameAt
      <3> QED
        BY <3>2, <3>3
    <2>9. l <= Len(log') /\ Len(log') \in Nat
      BY <1>1, <1>5, <2>2 DEF HEAD_TOTAL_LEN
    <2>10. a + HEAD_TOTAL_LEN + c <= Len(log')
      BY <2>4, <2>9 DEF HEAD_TOTAL_LEN
    <2> QED
      BY <2>2, <2>4, <2>7, <2>8, <2>10 DEF FrameAt, ShortAt, HEAD_ID_LENGTH
  <1>8. FrameAt(n + 1)'
    <2>1. PICK l \in Nat, c \in Nat : l = Len(log) /\ c = Len(m.data)
      BY <1>1, <1>3
    <2>2. n + 1 \in 1 .. n + 1 /\ (n + 1) + 1 = n + 2
      OBVIOUS
    <2>3. /\ Len(f) = HEAD_TOTAL_LEN + c /\ l + Len(f) = l + HEAD_TOTAL_LEN + c
          /\ Len(log') = l + HEAD_TOTAL_LEN + c
          /\ l + HEAD_TOTAL_LEN + c <= Len(log')
      BY <1>1, <1>5, <2>1 DEF HEAD_TOTAL_LEN
    <2>4. start'[n + 1] = l /\ start'[n + 2] = l + HEAD_TOTAL_LEN + c /\ sent'[n + 1] = m
      BY <1>3, <1>4, <1>6, <2>1, <2>2, <2>3
    <2>5. /\ log'[l + 1] = f[1] /\ log'[l + 1 + 1] = f[2]
          /\ log'[l + 2 + 1] = f[3] /\ log'[l + 2 + 1 + 1] = f[4]
      <3>1. l + 1 + 1 = l + 2 /\ l + 2 + 1 = l + 3 /\ l + 2 + 1 + 1 = l + 4
        OBVIOUS
      <3>2. 1 \in 1 .. Len(f) /\ 2 \in 1 .. Len(f) /\ 3 \in 1 .. Len(f) /\ 4 \in 1 .. Len(f)
        BY <2>3 DEF HEAD_TOTAL_LEN
      <3> QED
        BY <1>5, <2>1, <3>1, <3>2
    <2>6. \A i \in 1 .. c : log'[l + HEAD_TOTAL_LEN + i] = m.data[i]
      <3> TAKE i \in 1 .. c
      <3>1. HEAD_TOTAL_LEN + i \in 1 .. Len(f) /\ l + (HEAD_TOTAL_LEN + i) = l + HEAD_TOTAL_LEN + i
        BY <2>3 DEF HEAD_TOTAL_LEN
      <3> QED
        BY <1>1, <1>5, <2>1, <3>1
    <2> QED
      BY <1>1, <2>1, <2>2, <2>3, <2>4, <2>5, <2>6 DEF FrameAt, ShortAt, HEAD_ID_LENGTH
  <1>9. LogInv'
    <2>1. \A k \in 1 .. n + 1 : k \in 1 .. n \/ k = n + 1
      BY <1>3
    <2>2. start[1] = 0 /\ 1 \in 1 .. n + 1
      BY <1>3 DEF WireInv, LogInv
    <2>3. start'[1] = 0
      BY <1>6, <2>2
    <2>4. Len(start') = Len(sent') + 1
      BY ONLY <1>4, <1>6, n \in Nat
    <2>5. Len(sent') + 1 = n + 2
      BY ONLY <1>4, n \in Nat
    <2>6. start'[Len(sent') + 1] = Len(log')
      BY ONLY <1>5, <1>6, <2>5
    <2>7. \A k \in 1 .. Len(sent') : FrameAt(k)'
      BY <1>4, <1>7, <1>8, <2>1
    <2> QED
      BY <2>3, <2>4, <2>6, <2>7 DEF LogInv
  <1>10. TypeOK'
    BY <1>2, <1>4, <1>5, <1>6 DEF WireInv, TypeOK
  <1>11. PlaceInv'
    <2>1. Due' = Due /\ start'[Due] = start[Due] /\ Len(log) <= Len(log') /\ Len(log') \in Nat
      <3>1. Due' = Due /\ start'[Due] = start[Due]
        BY <1>2, <1>3, <1>6 DEF Due
      <3> QED
        BY <1>1, <1>3, <1>5, <3>1 DEF HEAD_TOTAL_LEN
    <2>2. PlaceInv /\ got \in Nat
      BY DEF WireInv, TypeOK
    <2>3. got' <= Len(log')
      BY <1>2, <1>3, <2>1, <2>2 DEF PlaceInv
    <2>4. stage = "body" => Due \in 1 .. n
      BY <1>3, <2>2, <1>n DEF PlaceInv
    <2> QED
      BY <1>2, <1>3, <1>4, <2>1, <2>2, <2>3, <2>4 DEF PlaceInv
  <1>12. FramesRecovered'
    BY <1>2, <1>3, <1>4 DEF WireInv, FramesRecovered
  <1>13. ClosedForCause'
    <2>1. stage = "closed" /\ cause # "gone" => Len(received) + 1 \in 1 .. n
      <3>1. stage = "closed" /\ cause # "gone" => Len(received) < n
        BY <1>n DEF WireInv, ClosedForCause
      <3> QED
        BY <1>3, <3>1
    <2> QED
      BY <1>2, <1>3, <1>4, <2>1 DEF WireInv, ClosedForCause, Limited
  <1> QED
    BY <1>2, <1>9, <1>10, <1>11, <1>12, <1>13 DEF WireInv

(* The reader's steps leave the wire as it is.                             *)
LEMMA WireKept ==
    ASSUME WireInv, UNCHANGED sending
    PROVE  /\ LogInv' /\ UNCHANGED <<reader, sent, start, log>>
           /\ \A k \in 1 .. Len(sent) : FrameAt(k)' <=> FrameAt(k)
  <1>1. UNCHANGED <<reader, sent, start, log>>
    BY DEF sending
  <1> QED
    BY <1>1 DEF WireInv, LogInv, FrameAt, ShortAt

(* A message is passed on when all of its frame has been read.             *)
LEMMA PassOnIInv ==
    ASSUME WireInv, UNCHANGED <<sending, gone, cause>>, Due \in 1 .. Len(sent),
           NEW h \in MsgHead, NEW from \in Nat,
           h = [id |-> sent[Due].id, len |-> Len(sent[Due].data)],
           from = start[Due] + HEAD_TOTAL_LEN,
           PassOn(h, from), got' = from + h.len, node' \in MsgHead,
           stage # "closed"
    PROVE  WireInv'
  <1>1. PICK m \in [id : Ids, data : Payloads] : m = sent[Due]
    BY WireFacts, ElementOfSeq
  <1>2. /\ h.id = m.id /\ h.len = Len(m.data) /\ Len(m.data) \in Nat
        /\ m.data \in Seq(Byte) /\ m.id \in Short
    BY <1>1, FrameBytes
  <1>3. FrameAt(Due)
    BY WireFacts
  <1>4. [i \in 1 .. h.len |-> log[from + i]] = m.data
    <2>1. \A i \in 1 .. Len(m.data) : log[from + i] = m.data[i]
      BY <1>1, <1>3 DEF FrameAt
    <2>2. m.data = [i \in 1 .. Len(m.data) |-> m.data[i]]
      BY <1>2
    <2> QED
      BY <1>2, <2>1, <2>2
  <1>5. received' = Append(received, [id |-> m.id, data |-> m.data]) /\ stage' = "head"
        /\ base' = from + h.len
    BY <1>2, <1>4 DEF PassOn, NextHead
  <1>6. m = [id |-> m.id, data |-> m.data] /\ m \in Message
    BY <1>1, <1>2 DEF Message
  <1>7. received' = Append(received, m)
    BY <1>5, <1>6
  <1>8. /\ received' \in Seq(Message) /\ Len(received') = Due
        /\ \A k \in 1 .. Len(received) : received'[k] = received[k]
        /\ received'[Due] = m
    BY <1>6, <1>7, WireFacts, AppendProperties DEF Due
  <1>9. /\ LogInv' /\ UNCHANGED <<reader, sent, start, log>>
    BY WireKept
  <1>10. FramesRecovered'
    <2>1. \A k \in 1 .. Due : k \in 1 .. Len(received) \/ k = Due
      BY WireFacts DEF Due
    <2> QED
      BY <1>1, <1>8, <1>9, <2>1 DEF WireInv, FramesRecovered
  <1>11. PlaceInv'
    <2>1. PICK a \in Nat : a = start[Due]
      BY WireFacts
    <2>2. /\ start[Due + 1] = a + HEAD_TOTAL_LEN + Len(m.data)
          /\ start[Due + 1] <= Len(log)
      BY <1>1, <1>3, <2>1 DEF FrameAt
    <2>3. Due' = Due + 1
      BY <1>8 DEF Due
    <2>4. base' = start'[Due'] /\ got' = base' /\ base' \in Nat
      <3>1. PICK c \in Nat : c = Len(m.data)
        BY <1>2
      <3>2. from = a + HEAD_TOTAL_LEN /\ got' = from + c /\ base' = from + c
        BY <1>2, <1>5, <2>1, <3>1
      <3>3. start'[Due + 1] = a + HEAD_TOTAL_LEN + c
        BY <1>9, <2>2, <3>1
      <3>4. from + c \in Nat
        OBVIOUS
      <3> QED
        BY <2>3, <3>2, <3>3, <3>4
    <2> QED
      BY <1>5, <1>9, <2>2, <2>3, <2>4 DEF PlaceInv, HEAD_TOTAL_LEN
  <1>12. TypeOK'
    <2>1. got' \in Nat /\ base' \in Nat
      BY <1>2, <1>5
    <2> QED
      BY <1>5, <1>8, <1>9, <2>1 DEF WireInv, TypeOK
  <1>13. cause' = "none"
    BY DEF WireInv, TypeOK
  <1> QED
    BY <1>5, <1>9, <1>10, <1>11, <1>12, <1>13 DEF WireInv, ClosedForCause

LEMMA CloseIInv ==
    ASSUME WireInv, UNCHANGED <<sending>>, gone' \in BOOLEAN, got' \in Nat, got' <= Len(log),
           NEW why \in {"short", "refused", "gone"}, CloseFor(why),
           why # "gone" =>
              /\ reader # "client" /\ Len(received) < Len(sent)
              /\ Limited(sent[Due]) \/ (reader = "asyn" /\ why = "short")
    PROVE  WireInv'
  <1>1. /\ LogInv' /\ UNCHANGED <<reader, sent, start, log>>
    BY WireKept
  <1>2. /\ stage' = "closed" /\ cause' = why /\ UNCHANGED <<base, node, received>>
    BY DEF CloseFor
  <1>3. TypeOK'
    BY <1>1, <1>2 DEF WireInv, TypeOK
  <1>4. PlaceInv'
    BY <1>1, <1>2 DEF PlaceInv
  <1>5. FramesRecovered'
    BY <1>1, <1>2 DEF WireInv, FramesRecovered
  <1>6. ClosedForCause'
    BY <1>1, <1>2 DEF ClosedForCause, Limited, Due
  <1> QED
    BY <1>1, <1>2, <1>3, <1>4, <1>5, <1>6 DEF WireInv

LEMMA ReadHeadIInv ==
    ASSUME WireInv, ReadHead
    PROVE  WireInv'
  <1>1. PICK k \in 1 .. base + HEAD_TOTAL_LEN - got : got + k <= Len(log) /\ got' = got + k
    BY DEF ReadHead
  <1>2. /\ stage = "head" /\ UNCHANGED sending /\ gone' = gone
        /\ base \in Nat /\ got \in Nat /\ base = start[Due] /\ base <= got
        /\ Len(log) \in Nat /\ cause = "none" /\ node \in MsgHead
    BY WireFacts DEF ReadHead, WireInv, PlaceInv, TypeOK, HEAD_TOTAL_LEN
  <1>3. got' \in Nat /\ got' <= Len(log) /\ got' > base /\ got' <= base + HEAD_TOTAL_LEN
    BY <1>1, <1>2 DEF HEAD_TOTAL_LEN
  <1>4. Due \in 1 .. Len(sent) /\ Len(received) < Len(sent)
    <2>1. Due \in 1 .. Len(sent) + 1 /\ Due = Len(received) + 1
          /\ Len(received) \in Nat /\ Len(sent) \in Nat
      BY WireFacts DEF Due
    <2>2. Due # Len(sent) + 1
      BY <1>2, <1>3, WireFacts
    <2> QED
      BY <2>1, <2>2
  <1>5. /\ LogInv' /\ UNCHANGED <<reader, sent, start, log>>
    BY <1>2, WireKept
  <1>6. CASE got' = base + HEAD_TOTAL_LEN
    <2> DEFINE h == [id |-> ShortAt(base + 1), len |-> ShortAt(base + HEAD_ID_LENGTH + 1)]
    <2>1. /\ h = [id |-> sent[Due].id, len |-> Len(sent[Due].data)]
          /\ h \in MsgHead /\ h.len \in Nat
      <3>1. FrameAt(Due) /\ sent[Due].id \in Short /\ Len(sent[Due].data) \in Short
            /\ Len(sent[Due].data) \in Nat
        BY <1>4, WireFacts
      <3> QED
        BY <1>2, <3>1 DEF FrameAt, MsgHead
    <2>2. HeadRead
      BY <1>2, <1>6 DEF ReadHead
    <2>3. IF Refused(h) THEN CloseFor("refused")
          ELSE /\ node' = h
               /\ UNCHANGED cause
               /\ IF h.len = 0 THEN PassOn(h, base + HEAD_TOTAL_LEN)
                  ELSE stage' = "body" /\ base' = base + HEAD_TOTAL_LEN /\ UNCHANGED received
      BY <2>2 DEF HeadRead
    <2> HIDE DEF h
    <2>4. CASE Refused(h)
      <3>1. reader # "client" /\ Limited(sent[Due])
        BY <2>1, <2>4 DEF Refused, Limited
      <3>2. gone' \in BOOLEAN
        BY <1>2 DEF WireInv, TypeOK
      <3> QED
        BY <1>2, <1>3, <1>4, <2>3, <2>4, <3>1, <3>2, CloseIInv
    <2>5. CASE ~Refused(h) /\ h.len = 0
      <3>1. /\ PassOn(h, base + HEAD_TOTAL_LEN) /\ node' = h /\ cause' = cause
            /\ got' = base + HEAD_TOTAL_LEN + h.len
        BY <1>2, <1>6, <2>3, <2>5 DEF HEAD_TOTAL_LEN
      <3>2. base + HEAD_TOTAL_LEN \in Nat
        BY <1>2 DEF HEAD_TOTAL_LEN
      <3> QED
        BY <1>2, <1>4, <2>1, <3>1, <3>2, PassOnIInv
    <2>6. CASE ~Refused(h) /\ h.len # 0
      <3>1. /\ stage' = "body" /\ base' = base + HEAD_TOTAL_LEN /\ received' = received
            /\ node' = h /\ cause' = cause
        BY <2>3, <2>6
      <3>2. Due' = Due
        BY <3>1 DEF Due
      <3>3. got' \in base' .. base' + node'.len - 1
        <4>1. got' = base' /\ base' \in Nat /\ node'.len = h.len /\ h.len \in Nat /\ h.len # 0
          BY <1>2, <1>6, <2>1, <2>6, <3>1 DEF HEAD_TOTAL_LEN
        <4>2. PICK b \in Nat, l \in Nat : b = base' /\ l = node'.len /\ l # 0 /\ got' = b
          BY <4>1
        <4>3. b \in b .. b + l - 1
          BY <4>2
        <4> QED
          BY <4>2, <4>3
      <3>4. PlaceInv'
        BY <1>2, <1>3, <1>4, <1>5, <2>1, <3>1, <3>2, <3>3 DEF PlaceInv
      <3>5. base' \in Nat
        BY <1>2, <3>1 DEF HEAD_TOTAL_LEN
      <3>6. TypeOK'
        BY <1>2, <1>3, <1>5, <2>1, <3>1, <3>5 DEF WireInv, TypeOK
      <3> QED
        BY <1>2, <1>5, <3>1, <3>4, <3>6 DEF WireInv, FramesRecovered, ClosedForCause
    <2> QED
      BY <2>4, <2>5, <2>6
  <1>7. CASE got' # base + HEAD_TOTAL_LEN /\ reader = "asyn"
    <2>1. CloseFor("short") /\ gone' \in BOOLEAN
      BY <1>2, <1>7 DEF ReadHead, WireInv, TypeOK
    <2> QED
      BY <1>2, <1>3, <1>4, <1>7, <2>1, CloseIInv
  <1>8. CASE got' # base + HEAD_TOTAL_LEN /\ reader # "asyn"
    <2>1. UNCHANGED <<stage, base, node, received, cause>>
      BY <1>8 DEF ReadHead
    <2>2. got' \in base .. base + HEAD_TOTAL_LEN - 1
      BY <1>2, <1>3, <1>8 DEF HEAD_TOTAL_LEN
    <2>3. PlaceInv'
      BY <1>2, <1>3, <1>5, <2>1, <2>2 DEF PlaceInv, Due
    <2>4. TypeOK'
      BY <1>2, <1>3, <1>5, <2>1 DEF WireInv, TypeOK
    <2> QED
      BY <1>2, <1>5, <2>1, <2>3, <2>4 DEF WireInv, FramesRecovered, ClosedForCause
  <1> QED
    BY <1>6, <1>7, <1>8

LEMMA ReadBodyIInv ==
    ASSUME WireInv, ReadBody
    PROVE  WireInv'
  <1>1. PICK k \in 1 .. base + node.len - got : got + k <= Len(log) /\ got' = got + k
    BY DEF ReadBody
  <1>2. /\ stage = "body" /\ UNCHANGED <<sending, gone, node, cause>>
        /\ Due \in 1 .. Len(sent)
        /\ base \in Nat /\ got \in Nat /\ base = start[Due] + HEAD_TOTAL_LEN /\ base <= got
        /\ Len(log) \in Nat /\ cause = "none" /\ node \in MsgHead /\ node.len \in Int
        /\ node = [id |-> sent[Due].id, len |-> Len(sent[Due].data)]
    <2>1. /\ stage = "body" /\ UNCHANGED <<sending, gone, node, cause>>
      BY DEF ReadBody
    <2>2. /\ Due <= Len(sent) /\ base = start[Due] + HEAD_TOTAL_LEN /\ base <= got
          /\ node = [id |-> sent[Due].id, len |-> Len(sent[Due].data)]
          /\ base \in Nat /\ got \in Nat /\ node \in MsgHead /\ cause = "none"
      BY <2>1 DEF WireInv, PlaceInv, TypeOK
    <2>3. node.len \in Int
      BY <2>2, BaseFacts DEF MsgHead, Short
    <2> QED
      BY <2>1, <2>2, <2>3, WireFacts
  <1>3. got' \in Nat /\ got' <= Len(log) /\ got' >= base /\ got' <= base + node.len
    <2>1. PICK b \in Nat, g \in Nat, l \in Int : b = base /\ g = got /\ l = node.len
      BY <1>2
    <2>2. k \in 1 .. b + l - g /\ got' = g + k /\ b <= g /\ g + k <= Len(log)
      BY <1>1, <1>2, <2>1
    <2>3. g + k \in Nat /\ g + k >= b /\ g + k <= b + l
      BY <2>2
    <2> QED
      BY <2>1, <2>2, <2>3
  <1>4. CASE got' = base + node.len
    <2>1. PassOn(node, base) /\ node' \in MsgHead
      BY <1>2, <1>4 DEF ReadBody
    <2> QED
      BY <1>2, <1>4, <2>1, PassOnIInv
  <1>5. CASE got' # base + node.len
    <2>1. UNCHANGED <<stage, base, received>>
      BY <1>5 DEF ReadBody
    <2>2. got' \in base .. base + node.len - 1
      <3>1. PICK b \in Nat, g \in Nat, l \in Int : b = base /\ g = got' /\ l = node.len
        BY <1>2, <1>3
      <3>2. g >= b /\ g <= b + l /\ g # b + l
        BY <1>3, <1>5, <3>1
      <3>3. g \in b .. b + l - 1
        BY <3>2
      <3> QED
        BY <3>1, <3>3
    <2>3. /\ LogInv' /\ UNCHANGED <<reader, sent, start, log>>
      BY <1>2, WireKept
    <2>4. PlaceInv'
      BY <1>2, <1>3, <2>1, <2>2, <2>3 DEF PlaceInv, WireInv, Due
    <2>5. TypeOK'
      BY <1>2, <1>3, <2>1, <2>3 DEF WireInv, TypeOK
    <2> QED
      BY <1>2, <2>1, <2>3, <2>4, <2>5 DEF WireInv, FramesRecovered, ClosedForCause
  <1> QED
    BY <1>4, <1>5

LEMMA NextIInv == WireInv /\ [Next]_vars => WireInv'
  <1> SUFFICES ASSUME WireInv, [Next]_vars PROVE WireInv'
    OBVIOUS
  <1>1. ASSUME NEW i \in Ids, NEW p \in Payloads, Send([id |-> i, data |-> p]) PROVE WireInv'
    <2>1. [id |-> i, data |-> p] \in [id : Ids, data : Payloads]
      OBVIOUS
    <2> QED
      BY <1>1, <2>1, SendIInv
  <1>2. CASE Leave
    <2>1. /\ LogInv' /\ UNCHANGED <<reader, sent, start, log>>
      BY <1>2, WireKept DEF Leave
    <2>2. UNCHANGED <<stage, base, got, node, received, cause>> /\ gone' = TRUE
      BY <1>2 DEF Leave
    <2>3. TypeOK' /\ PlaceInv'
      BY <2>1, <2>2 DEF WireInv, TypeOK, PlaceInv, Due
    <2> QED
      BY <2>1, <2>2, <2>3 DEF WireInv, FramesRecovered, ClosedForCause, Limited
  <1>3. CASE ReadHead
    BY <1>3, ReadHeadIInv
  <1>4. CASE ReadBody
    BY <1>4, ReadBodyIInv
  <1>5. CASE ReadFails
    <2>1. CloseFor("gone") /\ UNCHANGED <<sending, gone, got>>
      BY <1>5 DEF ReadFails
    <2>2. gone' \in BOOLEAN /\ got' \in Nat /\ got' <= Len(log)
      BY <2>1 DEF WireInv, TypeOK, PlaceInv
    <2> QED
      BY <2>1, <2>2, CloseIInv
  <1>6. CASE UNCHANGED vars
    <2>1. UNCHANGED sending /\ UNCHANGED <<gone, stage, base, got, node, received, cause>>
      BY <1>6 DEF vars, sending
    <2>2. /\ LogInv' /\ UNCHANGED <<reader, sent, start, log>>
      BY <2>1, WireKept
    <2>3. TypeOK' /\ PlaceInv'
      BY <2>1, <2>2 DEF WireInv, TypeOK, PlaceInv, Due
    <2> QED
      BY <2>1, <2>2, <2>3 DEF WireInv, FramesRecovered, ClosedForCause, Limited
  <1> QED
    BY <1>1, <1>2, <1>3, <1>4, <1>5, <1>6 DEF Next, Read

-----------------------------------------------------------------------------
(* The bytes on the wire are frames, and each reader stands where the next *)
(* one or its data starts, whatever TCP delivers at a time.                *)
THEOREM InductiveInvariant == Spec => []WireInv
  BY InitIInv, NextIInv, PTL DEF Spec, Safety

(* The messages passed on are those sent, in order, ids and data intact.   *)
THEOREM Recovered == Spec => []FramesRecovered
  <1>1. WireInv => FramesRecovered
    BY DEF WireInv
  <1> QED
    BY <1>1, InductiveInvariant, PTL

(* coroutineServer closes a connection only for a message over the limits, *)
(* asynServer also for a head in pieces, syncClient for neither.           *)
THEOREM NotClosedForNothing == Spec => []ClosedForCause
  <1>1. WireInv => ClosedForCause
    BY DEF WireInv
  <1> QED
    BY <1>1, InductiveInvariant, PTL
=============================================================================
