---------------------------- MODULE SgReaderProofs ----------------------------
(***************************************************************************)
(* Theorems about SgReader, for any numbers of cards and any number of     *)
(* replies that the game leaves unread.                                    *)
(***************************************************************************)
EXTENDS SgReader, SequenceTheorems, TLAPS

(* Both files, and both numbers of the DLL, are there. *)
Tables ==
    /\ file \in [Kinds -> Luids \cup IDms \cup {NoFile, NotBcd, Short}]
    /\ id \in [Kinds -> Luids \cup IDms \cup {NotBcd, Blank}]

(* The first open starts the DLL; a poll goes on while the port is open, and
   has room for its answer.                                                *)
Started ==
    /\ inits = IF started THEN 1 ELSE 0
    /\ open => started /\ startHr = "S_OK"
    /\ pc # "idle" => open /\ Len(readable) < MaxUnread

(* The emulated cards are those of the latest poll that announced one. *)
NoPollSince(i) == \A k \in i + 1 .. Len(asked) : asked[k] # Poll

CardSetUp ==
    \A i \in 1 .. Len(asked) :
        NoPollSince(i) =>
           /\ readable[i].kind = "aime" => mifare = readable[i].card
           /\ readable[i].kind = "felica" => felica = readable[i].card

PortInv == TypeOK /\ Tables /\ Started /\ RepliesMatch /\ CardSetUp /\ ReadsFromPolledCard

(* What a poll comes to while nobody touches a file or the key: it would have
   to generate a number, or it announces what the files hold.              *)
Missing(k) == file[k] \in {NoFile, Short}

Generates ==
    /\ key /\ Missing("aime")
    /\ "aime" \in gen \/ ("felica" \in gen /\ Missing("felica"))

NoCard == [kind |-> "none", card |-> Blank]

Foreseen ==
    IF ~key THEN NoCard
    ELSE IF ~Missing("aime")
         THEN IF file["aime"] \in Luids THEN [kind |-> "aime", card |-> file["aime"]]
              ELSE NoCard
    ELSE IF Missing("felica") THEN NoCard
    ELSE [kind |-> "felica", card |-> file["felica"]]

(* How far a poll has come says what it found. *)
PollInv ==
    /\ pc \in {"aime", "aime_gen", "felica", "felica_gen"} => id = [k \in Kinds |-> Blank]
    /\ pc # "idle" /\ ~touched =>
          /\ pc \in {"aime", "aime_gen", "felica", "felica_gen"} => key
          /\ pc \in {"aime_gen", "felica", "felica_gen"} => Missing("aime")
          /\ pc = "aime_gen" => "aime" \in gen
          /\ pc \in {"felica", "felica_gen"} => "aime" \notin gen
          /\ pc = "felica_gen" => Missing("felica") /\ "felica" \in gen
          /\ pc = "answer" => ~Generates /\ Announced = Foreseen

(* The last answer is what the next poll will come to. *)
LastInv ==
    last # Nothing =>
       /\ pc # "idle" => ~touched
       /\ ~Generates /\ last = Foreseen

-----------------------------------------------------------------------------
(* The port *)

(* TypeOK in three parts *)
ControlType ==
    /\ started \in BOOLEAN /\ open \in BOOLEAN
    /\ startHr \in {"S_OK", "failed"}
    /\ pc \in {"idle", "sense", "aime", "aime_gen", "felica", "felica_gen",
               "answer", "failed"}
    /\ key \in BOOLEAN /\ touched \in BOOLEAN /\ inits \in Nat

CardsType ==
    /\ gen \in SUBSET Kinds
    /\ DOMAIN file = Kinds /\ DOMAIN id = Kinds
    /\ file.aime \in Luids \cup {NoFile, NotBcd, Short}
    /\ file.felica \in IDms \cup {NoFile, Short}
    /\ id.aime \in Luids \cup {NotBcd, Blank}
    /\ id.felica \in IDms \cup {Blank}

OutType ==
    /\ mifare \in Luids \cup {Partial, Blank}
    /\ felica \in IDms \cup {Blank}
    /\ readable \in Seq(Replies) /\ Len(readable) <= MaxUnread
    /\ asked \in Seq(Answered)
    /\ last \in Replies \cup {Nothing}

LEMMA Typed ==
  /\ TypeOK <=> ControlType /\ CardsType /\ OutType
  /\ TypeOK' <=> ControlType' /\ CardsType' /\ OutType'
BY DEF TypeOK, ControlType, CardsType, OutType

(* A frame that is due a reply gets one, behind the others. *)
Respond(f, r) ==
    /\ readable' = Append(readable, r)
    /\ asked' = Append(asked, f)

(* What both boards together make of a frame *)
LEMMA Transacts ==
    ASSUME readable \in Seq(Replies), NEW f \in Frames, NEW s, Transact(f, s)
    PROVE  /\ \A r \in Replies : f.addr = "nfc" /\ s = <<r>> => Respond(f, r)
           /\ f.addr = "led" /\ f.cmd # "SET_COLOR" /\ s = <<>> =>
                 Respond(f, IF f.cmd = "LED_INFO" THEN Reply("ok", Blank) ELSE Error)
           /\ ~Due(f) /\ s = <<>> => UNCHANGED <<readable, asked>>
<1>1. /\ Reply("ok", Blank) \in Replies /\ Error \in Replies
      /\ <<>> \in Seq(Replies) /\ readable \o <<>> = readable
  BY DEF Replies, Reply, Error
<1>2. ASSUME NEW r \in Replies
      PROVE  /\ readable \o <<r>> = Append(readable, r)
             /\ (readable \o <<r>>) \o <<>> = Append(readable, r)
  BY AppendIsConcat
<1>3. ASSUME NEW r \in Replies, f.addr = "nfc", s = <<r>> PROVE Respond(f, r)
  <2>1. LedReplies(f) = <<>> /\ Due(f)
    BY <1>3 DEF LedReplies, Due
  <2> QED
    BY <1>2, <1>3, <2>1 DEF Transact, Respond
<1>4. ASSUME f.addr = "led", f.cmd # "SET_COLOR", s = <<>>
      PROVE  Respond(f, IF f.cmd = "LED_INFO" THEN Reply("ok", Blank) ELSE Error)
  <2> DEFINE r == IF f.cmd = "LED_INFO" THEN Reply("ok", Blank) ELSE Error
  <2>1. LedReplies(f) = <<r>> /\ Due(f) /\ r \in Replies
    BY <1>1, <1>4 DEF LedReplies, Due
  <2> HIDE DEF r
  <2>2. readable' = readable \o <<r>> /\ asked' = Append(asked, f)
    BY <1>1, <1>4, <2>1 DEF Transact
  <2>3. Respond(f, r)
    BY <1>2, <2>1, <2>2 DEF Respond
  <2> QED
    BY <2>3 DEF r
<1>5. ASSUME ~Due(f), s = <<>> PROVE UNCHANGED <<readable, asked>>
  <2>1. LedReplies(f) = <<>>
    BY <1>5 DEF Due, LedReplies, Frames
  <2> QED
    BY <1>1, <1>5, <2>1 DEF Transact
<1> QED
  BY <1>3, <1>4, <1>5

(* A reply that fits its request goes behind the others. *)
LEMMA Responded ==
    ASSUME PortInv, Len(readable) < MaxUnread,
           NEW c \in Answered, NEW kind, NEW card, [kind |-> kind, card |-> card] \in Replies,
           Respond(c, [kind |-> kind, card |-> card]), kind \in Fitting(c),
           c # Poll => /\ UNCHANGED <<mifare, felica>>
                       /\ kind \notin Kinds
                       /\ kind = "block" => card = mifare
                       /\ kind = "encap" => card = felica,
           kind = "aime" => mifare' = card,
           kind = "felica" => felica' = card
    PROVE  /\ readable' \in Seq(Replies) /\ Len(readable') <= MaxUnread
           /\ asked' \in Seq(Answered)
           /\ RepliesMatch' /\ CardSetUp' /\ ReadsFromPolledCard'
<1> DEFINE n == Len(readable)
<1> DEFINE r == [kind |-> kind, card |-> card]
<1>1. /\ readable \in Seq(Replies) /\ asked \in Seq(Answered) /\ n \in Nat /\ Len(asked) = n
      /\ readable' = Append(readable, r) /\ asked' = Append(asked, c)
  BY DEF PortInv, TypeOK, RepliesMatch, Respond
<1>2. /\ readable' \in Seq(Replies) /\ asked' \in Seq(Answered)
      /\ Len(readable') = n + 1 /\ Len(asked') = n + 1
  BY <1>1
<1>3. /\ \A i \in 1 .. n : readable'[i] = readable[i] /\ asked'[i] = asked[i]
      /\ readable'[n + 1] = r /\ asked'[n + 1] = c
  BY <1>1
<1>4. n + 1 <= MaxUnread
  BY <1>1, MaxUnreadAssumption
<1>5. RepliesMatch'
  <2>1. \A i \in 1 .. n : readable'[i].kind \in Fitting(asked'[i])
    BY <1>1, <1>3 DEF PortInv, RepliesMatch
  <2>2. readable'[n + 1].kind \in Fitting(asked'[n + 1])
    BY <1>3
  <2> HIDE DEF n
  <2>3. \A i \in 1 .. n + 1 : i \in 1 .. n \/ i = n + 1
    BY <1>1
  <2> QED
    BY <1>2, <2>1, <2>2, <2>3 DEF RepliesMatch
<1>6. CardSetUp'
  <2> SUFFICES ASSUME NEW i \in 1 .. n + 1, NoPollSince(i)'
               PROVE  /\ readable'[i].kind = "aime" => mifare' = readable'[i].card
                      /\ readable'[i].kind = "felica" => felica' = readable'[i].card
    BY <1>2 DEF CardSetUp
  <2>1. CASE i = n + 1
    BY <1>3, <2>1
  <2>2. CASE i \in 1 .. n
    <3>1. c # Poll
      BY <1>1, <1>2, <1>3, <2>2 DEF NoPollSince
    <3>2. NoPollSince(i)
      BY <1>1, <1>2, <1>3, <2>2 DEF NoPollSince
    <3>3. /\ readable[i].kind = "aime" => mifare = readable[i].card
          /\ readable[i].kind = "felica" => felica = readable[i].card
      BY <1>1, <2>2, <3>2 DEF PortInv, CardSetUp
    <3>4. mifare' = mifare /\ felica' = felica
      BY <3>1
    <3> QED
      BY <1>3, <2>2, <3>3, <3>4
  <2> QED
    BY <1>1, <2>1, <2>2
<1>7. ReadsFromPolledCard'
  <2> SUFFICES ASSUME NEW i \in 1 .. n + 1, NEW j \in 1 .. n + 1, i < j,
                      \A k \in i + 1 .. j : asked'[k] # Poll
               PROVE  \/ readable'[i].kind \notin Kinds
                      \/ readable'[j].kind
                            # (IF readable'[i].kind = "aime" THEN "block" ELSE "encap")
                      \/ readable'[j].card = readable'[i].card
    BY <1>2 DEF ReadsFromPolledCard
  <2>1. i \in 1 .. n
    BY <1>1
  <2>2. CASE j \in 1 .. n
    <3>1. \A k \in i + 1 .. j : asked[k] # Poll
      BY <1>1, <1>3, <2>1, <2>2
    <3> QED
      BY <1>1, <1>3, <2>1, <2>2, <3>1 DEF PortInv, ReadsFromPolledCard
  <2>3. CASE j = n + 1
    <3>1. c # Poll
      BY <1>3, <2>1, <2>3
    <3>2. NoPollSince(i)
      BY <1>1, <1>3, <2>1, <2>3 DEF NoPollSince
    <3>3. /\ readable[i].kind = "aime" => mifare = readable[i].card
          /\ readable[i].kind = "felica" => felica = readable[i].card
      BY <1>1, <2>1, <3>2 DEF PortInv, CardSetUp
    <3>4. /\ readable'[i] = readable[i] /\ readable'[j] = r
          /\ kind \notin Kinds
          /\ kind = "block" => card = mifare
          /\ kind = "encap" => card = felica
      BY <1>3, <2>1, <2>3, <3>1
    <3> QED
      BY <3>3, <3>4 DEF Kinds
  <2> QED
    BY <1>1, <2>2, <2>3
<1> QED
  BY <1>2, <1>4, <1>5, <1>6, <1>7

LEMMA ReadStep ==
    ASSUME PortInv, Read
    PROVE  PortInv'
<1> DEFINE n == Len(readable)
<1>1. /\ readable \in Seq(Replies) /\ asked \in Seq(Answered) /\ n \in Nat /\ n >= 1
      /\ Len(asked) = n /\ readable' = Tail(readable) /\ asked' = Tail(asked)
  BY DEF PortInv, TypeOK, RepliesMatch, Read
<1>2. /\ readable' \in Seq(Replies) /\ asked' \in Seq(Answered)
      /\ Len(readable') = n - 1 /\ Len(asked') = n - 1
  BY <1>1
<1>3. \A i \in 1 .. n - 1 : /\ i + 1 \in 1 .. n
                            /\ readable'[i] = readable[i + 1] /\ asked'[i] = asked[i + 1]
  BY <1>1
<1>4. UNCHANGED <<portVars, pc, key, file, dllVars, nfcVars, ghosts>> /\ pc = "idle"
  BY DEF Read
<1>5. TypeOK'
  BY <1>1, <1>2, <1>4, MaxUnreadAssumption
     DEF PortInv, TypeOK, portVars, dllVars, nfcVars, ghosts
<1>6. Tables' /\ Started'
  BY <1>4 DEF PortInv, Tables, Started, portVars, dllVars, ghosts
<1>7. RepliesMatch'
  BY <1>1, <1>2, <1>3 DEF PortInv, RepliesMatch
<1>8. \A i \in 1 .. n - 1, j \in 1 .. n - 1 :
         (\A k \in i + 1 .. j : asked'[k] # Poll)
            => \A k \in i + 2 .. j + 1 : asked[k] # Poll
  <2> SUFFICES ASSUME NEW i \in 1 .. n - 1, NEW j \in 1 .. n - 1,
                      \A k \in i + 1 .. j : asked'[k] # Poll,
                      NEW k \in i + 2 .. j + 1
               PROVE  asked[k] # Poll
    OBVIOUS
  <2>1. k - 1 \in i + 1 .. j /\ k - 1 \in 1 .. n - 1 /\ (k - 1) + 1 = k
    BY <1>1
  <2>2. asked'[k - 1] # Poll /\ asked'[k - 1] = asked[k]
    BY <1>3, <2>1
  <2> QED
    BY <2>2
<1>9. CardSetUp'
  <2> SUFFICES ASSUME NEW i \in 1 .. n - 1, NoPollSince(i)'
               PROVE  /\ readable'[i].kind = "aime" => mifare' = readable'[i].card
                      /\ readable'[i].kind = "felica" => felica' = readable'[i].card
    BY <1>2 DEF CardSetUp
  <2>1. \A k \in i + 1 .. n - 1 : asked'[k] # Poll
    BY <1>2 DEF NoPollSince
  <2>2. \A k \in i + 2 .. n : asked[k] # Poll
    <3>1. n - 1 \in 1 .. n - 1 /\ (n - 1) + 1 = n
      BY <1>1
    <3> QED
      BY <1>8, <2>1, <3>1
  <2>3. NoPollSince(i + 1)
    BY <1>1, <2>2 DEF NoPollSince
  <2> QED
    BY <1>1, <1>3, <1>4, <2>3 DEF PortInv, CardSetUp, nfcVars
<1>10. ReadsFromPolledCard'
  <2> SUFFICES ASSUME NEW i \in 1 .. n - 1, NEW j \in 1 .. n - 1, i < j,
                      \A k \in i + 1 .. j : asked'[k] # Poll
               PROVE  \/ readable'[i].kind \notin Kinds
                      \/ readable'[j].kind
                            # (IF readable'[i].kind = "aime" THEN "block" ELSE "encap")
                      \/ readable'[j].card = readable'[i].card
    BY <1>2 DEF ReadsFromPolledCard
  <2>1. i + 1 \in 1 .. n /\ j + 1 \in 1 .. n /\ i + 1 < j + 1
    BY <1>1
  <2>2. \A k \in i + 2 .. j + 1 : asked[k] # Poll
    BY <1>8
  <2>3. ASSUME NEW a \in 1 .. n, NEW b \in 1 .. n, a < b,
               \A k \in a + 1 .. b : asked[k] # Poll
        PROVE  \/ readable[a].kind \notin Kinds
               \/ readable[b].kind # (IF readable[a].kind = "aime" THEN "block" ELSE "encap")
               \/ readable[b].card = readable[a].card
    BY <1>1, <2>3 DEF PortInv, ReadsFromPolledCard
  <2>4. \A k \in (i + 1) + 1 .. j + 1 : asked[k] # Poll
    BY <2>2
  <2>5. \/ readable[i + 1].kind \notin Kinds
        \/ readable[j + 1].kind # (IF readable[i + 1].kind = "aime" THEN "block" ELSE "encap")
        \/ readable[j + 1].card = readable[i + 1].card
    BY <2>1, <2>3, <2>4
  <2> QED
    BY <1>3, <2>5
<1> QED
  BY <1>5, <1>6, <1>7, <1>9, <1>10 DEF PortInv

(* What leaves the replies, and the cards they are of, as they are *)
LEMMA SilentKeeps ==
    ASSUME PortInv, UNCHANGED <<readable, asked, mifare, felica>>
    PROVE  RepliesMatch' /\ CardSetUp' /\ ReadsFromPolledCard'
BY DEF PortInv, RepliesMatch, CardSetUp, NoPollSince, ReadsFromPolledCard

LEMMA WriteStep ==
    ASSUME PortInv, Write
    PROVE  PortInv'
<1>1. UNCHANGED <<portVars, pc, key, file, dllVars, nfcVars, ghosts>>
  BY DEF Write
<1>2. UNCHANGED <<started, startHr, open, pc, key, file, gen, id, mifare, felica,
                  inits, last, touched>> /\ pc = "idle" /\ Len(readable) < MaxUnread
  BY <1>1 DEF Write, portVars, dllVars, nfcVars, ghosts
<1>3. Tables' /\ Started'
  BY <1>2 DEF PortInv, Tables, Started
<1>4. mifare \in Luids \cup {Partial, Blank} /\ felica \in IDms \cup {Blank}
  BY DEF PortInv, TypeOK
<1>5. ASSUME NEW f \in Answered \ {Poll}, NEW kind, NEW card,
             Respond(f, Reply(kind, card)), Reply(kind, card) \in Replies,
             kind \in Fitting(f), kind \notin Kinds,
             kind = "block" => card = mifare, kind = "encap" => card = felica
      PROVE  PortInv'
  <2>1. /\ readable' \in Seq(Replies) /\ Len(readable') <= MaxUnread
        /\ asked' \in Seq(Answered)
        /\ RepliesMatch' /\ CardSetUp' /\ ReadsFromPolledCard'
    BY <1>2, <1>5, Responded DEF Kinds, Reply
  <2>2. TypeOK'
    BY <1>2, <2>1 DEF PortInv, TypeOK
  <2> QED
    BY <1>3, <2>1, <2>2 DEF PortInv
<1>6. ASSUME UNCHANGED <<readable, asked>>
      PROVE  PortInv'
  <2>1. TypeOK'
    BY <1>2, <1>6 DEF PortInv, TypeOK
  <2> QED
    BY <1>2, <1>3, <1>6, <2>1, SilentKeeps DEF PortInv
<1>7. PICK f \in Frames \ {Poll} : \E s \in NfcReplies(f) : Transact(f, s)
  BY DEF Write
<1>8. PICK s \in NfcReplies(f) : Transact(f, s)
  BY <1>7
<1>9. readable \in Seq(Replies)
  BY DEF PortInv, TypeOK
<1>10. CASE f.addr = "nfc"
  <2>1. PICK r \in NfcAnswers(f.cmd) : s = <<r>>
    BY <1>8, <1>10 DEF NfcReplies
  <2>2. f \in Answered \ {Poll} /\ f.cmd # "POLL"
    <3>1. f = [addr |-> "nfc", cmd |-> f.cmd]
      BY <1>7, <1>10 DEF Frames
    <3> QED
      BY <1>7, <1>10, <3>1 DEF Answered, Due, Poll
  <2>3. \/ r = Error
        \/ f.cmd = "INFO" /\ r = Reply("ok", Blank)
        \/ f.cmd = "READ_BLOCK" /\ r = Reply("block", mifare)
        \/ f.cmd \in {"FELICA", "FELICA_POLL"} /\ r = Reply("encap", felica)
    BY <2>1 DEF NfcAnswers, FelicaTransact
  <2>4. CASE r = Error
    <3>1. Reply("error", Blank) \in Replies /\ "error" \notin Kinds
      BY DEF Reply, Replies, Kinds
    <3>2. CASE f.cmd # "INFO"
      <4>1. "error" \in Fitting(f)
        BY <1>10, <3>2 DEF Fitting
      <4>2. Respond(f, Reply("error", Blank))
        BY <1>8, <1>9, <1>10, <2>1, <2>4, <3>1, Transacts DEF Error
      <4> QED
        BY <1>5, <2>2, <3>1, <4>1, <4>2
    <3>3. f.cmd # "INFO"
      BY <2>1, <2>4 DEF NfcAnswers, Error, Reply
    <3> QED
      BY <3>2, <3>3
  <2>5. CASE f.cmd = "INFO" /\ r = Reply("ok", Blank)
    <3>1. Reply("ok", Blank) \in Replies /\ "ok" \notin Kinds /\ "ok" \in Fitting(f)
      BY <1>10, <2>5 DEF Reply, Replies, Kinds, Fitting
    <3> QED
      BY <1>5, <1>8, <1>9, <1>10, <2>1, <2>2, <2>5, <3>1, Transacts
  <2>6. CASE f.cmd = "READ_BLOCK" /\ r = Reply("block", mifare)
    <3>1. /\ Reply("block", mifare) \in Replies
          /\ "block" \notin Kinds /\ "block" \in Fitting(f)
      BY <1>4, <1>10, <2>6 DEF Reply, Replies, Kinds, Fitting
    <3> QED
      BY <1>5, <1>8, <1>9, <1>10, <2>1, <2>2, <2>6, <3>1, Transacts
  <2>7. CASE f.cmd \in {"FELICA", "FELICA_POLL"} /\ r = Reply("encap", felica)
    <3>1. /\ Reply("encap", felica) \in Replies
          /\ "encap" \notin Kinds /\ "encap" \in Fitting(f)
      BY <1>4, <1>10, <2>7 DEF Reply, Replies, Kinds, Fitting
    <3> QED
      BY <1>5, <1>8, <1>9, <1>10, <2>1, <2>2, <2>7, <3>1, Transacts
  <2> QED
    BY <2>3, <2>4, <2>5, <2>6, <2>7
<1>11. CASE f.addr = "led" /\ f.cmd # "SET_COLOR"
  <2>1. s = <<>> /\ f \in Answered \ {Poll}
    BY <1>7, <1>8, <1>11 DEF NfcReplies, Answered, Due, Poll
  <2>2. CASE f.cmd = "LED_INFO"
    <3>1. Reply("ok", Blank) \in Replies /\ "ok" \notin Kinds /\ "ok" \in Fitting(f)
      BY <1>11, <2>2 DEF Reply, Replies, Kinds, Fitting
    <3> QED
      BY <1>5, <1>8, <1>9, <1>11, <2>1, <2>2, <3>1, Transacts
  <2>3. CASE f.cmd # "LED_INFO"
    <3>1. Reply("error", Blank) \in Replies /\ "error" \notin Kinds /\ "error" \in Fitting(f)
      BY <1>11, <2>3 DEF Reply, Replies, Kinds, Fitting
    <3>2. Respond(f, Reply("error", Blank))
      BY <1>8, <1>9, <1>11, <2>1, <2>3, Transacts DEF Error
    <3> QED
      BY <1>5, <2>1, <3>1, <3>2
  <2> QED
    BY <2>2, <2>3
<1>12. CASE ~Due(f)
  <2>1. s = <<>>
    BY <1>8, <1>12 DEF NfcReplies, Due
  <2> QED
    BY <1>6, <1>8, <1>9, <1>12, <2>1, Transacts
<1> QED
  BY <1>10, <1>11, <1>12 DEF Due

LEMMA PortStep ==
    ASSUME PortInv, Open \/ Close \/ WritePoll \/ Player
    PROVE  PortInv'
<1> USE DEF portVars, dllVars, nfcVars, outVars, ghosts
<1>1. UNCHANGED <<readable, asked, mifare, felica>>
  BY DEF Open, Close, WritePoll, Player
<1>2. RepliesMatch' /\ CardSetUp' /\ ReadsFromPolledCard'
  BY <1>1, SilentKeeps
<1>3. CASE Open
  <2>1. UNCHANGED <<pc, key, file, gen, id, mifare, felica, readable, asked, last, touched>>
    BY <1>3 DEF Open
  <2>2. /\ inits' = 1 /\ started' = TRUE /\ startHr' \in {"S_OK", "failed"}
        /\ open' = (startHr' = "S_OK") /\ pc = "idle"
    BY <1>3 DEF PortInv, TypeOK, Started, Open
  <2>3. CardsType' /\ OutType' /\ Tables'
    BY <2>1, Typed DEF PortInv, CardsType, OutType, Tables
  <2>4. ControlType' /\ Started'
    BY <2>1, <2>2, Typed DEF PortInv, ControlType, Started
  <2> QED
    BY <1>2, <2>3, <2>4, Typed DEF PortInv
<1>4. CASE Close
  <2>1. UNCHANGED <<started, startHr, pc, key, file, gen, id, mifare, felica, readable, asked,
                    inits, last, touched>> /\ open' = FALSE /\ pc = "idle"
    BY <1>4 DEF Close
  <2>2. CardsType' /\ OutType' /\ Tables'
    BY <2>1, Typed DEF PortInv, CardsType, OutType, Tables
  <2>3. ControlType' /\ Started'
    BY <2>1, Typed DEF PortInv, ControlType, Started
  <2> QED
    BY <1>2, <2>2, <2>3, Typed DEF PortInv
<1>5. CASE WritePoll
  <2>1. /\ UNCHANGED <<started, startHr, open, key, file, gen, id, mifare, felica, readable,
                       asked, inits, last>>
        /\ pc' = "sense" /\ touched' = FALSE /\ open /\ Len(readable) < MaxUnread
    BY <1>5 DEF WritePoll
  <2>2. CardsType' /\ OutType' /\ Tables'
    BY <2>1, Typed DEF PortInv, CardsType, OutType, Tables
  <2>3. ControlType' /\ Started'
    BY <2>1, Typed DEF PortInv, ControlType, Started
  <2> QED
    BY <1>2, <2>2, <2>3, Typed DEF PortInv
<1>6. CASE Player
  <2>1. Tables' /\ Started'
    BY <1>6 DEF PortInv, Tables, Started, Player, Kinds
  <2>2. CardsType'
    BY <1>6, Typed DEF PortInv, CardsType, Tables, Player, Kinds
  <2>3. ControlType'
    BY <1>6, Typed DEF PortInv, ControlType, Player
  <2>4. OutType'
    BY <1>1, <1>6, Typed DEF PortInv, OutType, Player
  <2> QED
    BY <1>2, <2>1, <2>2, <2>3, <2>4, Typed DEF PortInv
<1> QED
  BY <1>3, <1>4, <1>5, <1>6

LEMMA NamesApart ==
  /\ Luids \cap {NoFile, NotBcd, Short, Partial, Blank} = {}
  /\ IDms \cap {NoFile, NotBcd, Short, Partial, Blank} = {}
BY NamesAssumption

(* A step of the poll inside the DLL *)
LEMMA DllStep ==
    ASSUME PortInv, NfcPoll
    PROVE  PortInv'
<1> USE DEF portVars, dllVars, nfcVars, outVars, ghosts
<1>1. UNCHANGED <<started, startHr, open, key, gen, mifare, felica, readable, asked,
                  inits, last, touched>>
  BY DEF NfcPoll, PollSense, ReadIdFile, Generate
<1>2. RepliesMatch' /\ CardSetUp' /\ ReadsFromPolledCard'
  BY <1>1, SilentKeeps
<1>3. /\ pc # "idle"
      /\ pc' \in {"sense", "aime", "aime_gen", "felica", "felica_gen", "answer", "failed"}
  BY DEF NfcPoll, PollSense, ReadIdFile, Generate
<1>4. OutType' /\ ControlType'
  BY <1>1, <1>3, Typed DEF PortInv, OutType, ControlType
<1>5. Started'
  BY <1>1, <1>3 DEF PortInv, Started
<1>6. CardsType' /\ Tables'
  <2> USE Typed DEF PortInv, CardsType, Tables, Kinds
  <2>1. CASE PollSense
    BY <2>1 DEF PollSense
  <2>2. CASE ReadIdFile("aime", IF "aime" \in gen THEN "aime_gen" ELSE "felica")
    BY <2>2 DEF ReadIdFile
  <2>3. CASE \E n \in Luids : Generate("aime", n, "aime_gen")
    BY <2>3 DEF Generate
  <2>4. CASE ReadIdFile("felica", IF "felica" \in gen THEN "felica_gen" ELSE "answer")
    BY <2>4 DEF ReadIdFile
  <2>5. CASE \E n \in IDms : Generate("felica", n, "felica_gen")
    BY <2>5 DEF Generate
  <2> QED
    BY <2>1, <2>2, <2>3, <2>4, <2>5 DEF NfcPoll
<1> QED
  BY <1>2, <1>4, <1>5, <1>6, Typed DEF PortInv

(* What is announced is a reply of its kind. *)
LEMMA AnnouncedTyped ==
    ASSUME PortInv
    PROVE  /\ Announced \in Replies
           /\ Announced.kind \in {"aime", "felica", "none"}
           /\ Announced = [kind |-> Announced.kind, card |-> Announced.card]
           /\ Announced.kind = "aime" => Announced.card = id.aime /\ id.aime \in Luids
                                         /\ id.felica = Blank
           /\ Announced.kind = "felica" => Announced.card = id.felica /\ id.felica # Blank
<1>1. id.felica \in IDms \cup {Blank} /\ id.aime \in Luids \cup {NotBcd, Blank}
  BY DEF PortInv, TypeOK
<1>2. CASE id.felica # Blank
  <2>1. Announced = [kind |-> "felica", card |-> id.felica]
    BY <1>2 DEF Announced, Reply
  <2> QED
    BY <1>1, <1>2, <2>1 DEF Replies
<1>3. CASE id.felica = Blank /\ id.aime \in Luids
  <2>1. Announced = [kind |-> "aime", card |-> id.aime]
    BY <1>3 DEF Announced, Reply
  <2> QED
    BY <1>3, <2>1 DEF Replies
<1>4. CASE id.felica = Blank /\ id.aime \notin Luids
  <2>1. Announced = [kind |-> "none", card |-> Blank]
    BY <1>4 DEF Announced, Reply
  <2> QED
    BY <2>1 DEF Replies
<1> QED
  BY <1>2, <1>3, <1>4

LEMMA AnswerStep ==
    ASSUME PortInv, Answer
    PROVE  PortInv'
<1> DEFINE a == Announced
<1>1. /\ UNCHANGED <<started, startHr, open, key, file, gen, id, inits, touched>>
      /\ pc = "answer" /\ pc' = "idle"
      /\ Transact(Poll, <<a>>)
      /\ last' = IF touched THEN Nothing ELSE a
      /\ id.felica # Blank => felica' = id.felica /\ mifare' = mifare
      /\ id.felica = Blank => /\ mifare' = IF id.aime # Blank THEN Populate(id.aime) ELSE mifare
                              /\ felica' = felica
  BY DEF Answer, portVars, dllVars
<1>2. Len(readable) < MaxUnread
  BY <1>1 DEF PortInv, Started
<1>3. /\ a.kind = "felica" => felica' = a.card
      /\ a.kind = "aime" => mifare' = a.card
  BY <1>1, AnnouncedTyped, NamesApart DEF Populate
<1>4. Poll \in Answered /\ a.kind \in Fitting(Poll)
  BY AnnouncedTyped DEF Answered, Frames, Commands, Due, Poll, Fitting
<1>5. a = [kind |-> a.kind, card |-> a.card] /\ a \in Replies
  BY AnnouncedTyped
<1> HIDE DEF a
<1>6. /\ readable' \in Seq(Replies) /\ Len(readable') <= MaxUnread
      /\ asked' \in Seq(Answered)
      /\ RepliesMatch' /\ CardSetUp' /\ ReadsFromPolledCard'
  <2>1. Respond(Poll, [kind |-> a.kind, card |-> a.card])
    BY <1>1, <1>4, <1>5, Transacts DEF PortInv, TypeOK, Poll, Answered
  <2> QED
    BY <1>2, <1>3, <1>4, <1>5, <2>1, Responded
<1>7. mifare' \in Luids \cup {Partial, Blank} /\ felica' \in IDms \cup {Blank}
  BY <1>1 DEF PortInv, TypeOK, Populate
<1>8. OutType'
  BY <1>1, <1>5, <1>6, <1>7 DEF OutType
<1>9. ControlType' /\ CardsType' /\ Tables' /\ Started'
  BY <1>1, Typed DEF PortInv, ControlType, CardsType, Tables, Started
<1> QED
  BY <1>6, <1>8, <1>9, Typed DEF PortInv

LEMMA FailStep ==
    ASSUME PortInv, PollFails
    PROVE  PortInv'
<1>1. /\ UNCHANGED <<started, startHr, open, key, file, gen, id, mifare, felica, inits, touched>>
      /\ pc = "failed" /\ pc' = "idle" /\ last' = Nothing
      /\ Transact(Poll, <<Error>>)
  BY DEF PollFails, portVars, dllVars, nfcVars
<1>2. Len(readable) < MaxUnread
  BY <1>1 DEF PortInv, Started
<1>3. /\ Poll \in Answered /\ "error" \in Fitting(Poll)
      /\ Error = [kind |-> "error", card |-> Blank] /\ Error \in Replies
  BY DEF Answered, Frames, Commands, Due, Poll, Fitting, Replies, Error, Reply
<1>4. /\ readable' \in Seq(Replies) /\ Len(readable') <= MaxUnread
      /\ asked' \in Seq(Answered)
      /\ RepliesMatch' /\ CardSetUp' /\ ReadsFromPolledCard'
  <2>1. Respond(Poll, [kind |-> "error", card |-> Blank])
    BY <1>1, <1>3, Transacts DEF PortInv, TypeOK, Poll, Answered
  <2> QED
    BY <1>1, <1>2, <1>3, <2>1, Responded
<1>5. OutType' /\ ControlType' /\ CardsType' /\ Tables' /\ Started'
  BY <1>1, <1>4, Typed DEF PortInv, OutType, ControlType, CardsType, Tables, Started
<1> QED
  BY <1>4, <1>5, Typed DEF PortInv

LEMMA NextPort == PortInv /\ [Next]_vars => PortInv'
<1> SUFFICES ASSUME PortInv, [Next]_vars PROVE PortInv'
  OBVIOUS
<1>1. CASE UNCHANGED vars
  <2> USE DEF vars, portVars, dllVars, nfcVars, outVars, ghosts
  <2>1. RepliesMatch' /\ CardSetUp' /\ ReadsFromPolledCard'
    BY <1>1, SilentKeeps
  <2>2. OutType' /\ ControlType' /\ CardsType' /\ Tables' /\ Started'
    BY <1>1, Typed DEF PortInv, OutType, ControlType, CardsType, Tables, Started
  <2> QED
    BY <2>1, <2>2, Typed DEF PortInv
<1>2. CASE Next
  BY <1>2, PortStep, ReadStep, WriteStep, DllStep, AnswerStep, FailStep DEF Next
<1> QED
  BY <1>1, <1>2

LEMMA InitPort == Init => PortInv
<1> SUFFICES ASSUME Init PROVE PortInv
  OBVIOUS
<1>1. /\ started = FALSE /\ startHr = "S_OK" /\ open = FALSE /\ pc = "idle"
      /\ gen \in SUBSET Kinds /\ key = FALSE /\ touched = FALSE
      /\ mifare = Blank /\ felica = Blank /\ inits = 0 /\ last = Nothing
      /\ readable = <<>> /\ asked = <<>>
  BY DEF Init
<1>2. /\ file \in [Kinds -> Luids \cup {NoFile}] /\ file.felica = NoFile
      /\ id = [k \in Kinds |-> Blank]
  BY DEF Init, Kinds
<1>3. Len(readable) = 0 /\ Len(asked) = 0 /\ readable \in Seq(Replies) /\ asked \in Seq(Answered)
  BY <1>1
<1>4. OutType
  BY <1>1, <1>3, MaxUnreadAssumption DEF OutType
<1>5. ControlType
  BY <1>1 DEF ControlType
<1>6. CardsType /\ Tables
  BY <1>1, <1>2 DEF CardsType, Tables, Kinds
<1>7. Started
  BY <1>1 DEF Started
<1>8. RepliesMatch /\ CardSetUp /\ ReadsFromPolledCard
  BY <1>3 DEF RepliesMatch, CardSetUp, ReadsFromPolledCard
<1> QED
  BY <1>4, <1>5, <1>6, <1>7, <1>8, Typed DEF PortInv

(* The inductive invariant of the port: beside the replies and the requests
   they answer, the emulated cards are the ones that were announced last.  *)
THEOREM PortInvariance == Spec => []PortInv
BY InitPort, NextPort, PTL DEF Spec

(* The DLL is started once and before anything is asked of it, and each
   request gets the one reply that fits it (sg_reader_handle_irp_locked).  *)
THEOREM PortAlwaysServed == Spec => []PortServed
<1>1. PortInv => PortServed
  BY DEF PortInv, PortServed, InitBeforeUse, Started
<1> QED
  BY <1>1, PortInvariance, PTL

(* The blocks that the game reads after a poll are those of the card that the
   poll announced (aime_card_populate, felica_transact).                   *)
THEOREM BlocksOfPolledCard == Spec => []ReadsFromPolledCard
<1>1. PortInv => ReadsFromPolledCard
  BY DEF PortInv
<1> QED
  BY <1>1, PortInvariance, PTL

-----------------------------------------------------------------------------
(* The poll *)

LEMMA NoBlank ==
    ASSUME PortInv
    PROVE  /\ file["aime"] \in Luids \cup {NoFile, NotBcd, Short}
           /\ file["felica"] \in IDms \cup {NoFile, Short}
           /\ file \in [Kinds -> Luids \cup IDms \cup {NoFile, NotBcd, Short}]
           /\ id \in [Kinds -> Luids \cup IDms \cup {NotBcd, Blank}]
BY DEF PortInv, TypeOK, Tables

(* What the poll begins with: no number yet *)
LEMMA NothingFound ==
    ASSUME id' = [k \in Kinds |-> Blank]
    PROVE  Announced' = NoCard
BY NamesApart DEF Announced, Reply, NoCard, Kinds

(* While no file and not the key are touched the poll comes to the same. *)
LEMMA SameForeseen ==
    ASSUME UNCHANGED <<file, key, gen>>
    PROVE  Foreseen' = Foreseen /\ (Generates' <=> Generates)
BY DEF Foreseen, Generates, Missing

LEMMA SenseFinds ==
    ASSUME PortInv, PollInv, LastInv, PollSense
    PROVE  PollInv' /\ LastInv' /\ last' = last
<1>1. /\ pc = "sense" /\ id' = [k \in Kinds |-> Blank]
      /\ pc' = IF key THEN "aime" ELSE "answer"
      /\ UNCHANGED <<file, key, gen, last, touched>>
  BY DEF PollSense, portVars, ghosts
<1>2. LastInv'
  BY <1>1, SameForeseen DEF LastInv
<1>3. pc' = "answer" => ~Generates' /\ Announced' = Foreseen'
  BY <1>1, NothingFound DEF Generates, Foreseen
<1>4. PollInv'
  BY <1>1, <1>3 DEF PollInv
<1> QED
  BY <1>1, <1>2, <1>4

LEMMA AimeFinds ==
    ASSUME PortInv, PollInv, LastInv,
           ReadIdFile("aime", IF "aime" \in gen THEN "aime_gen" ELSE "felica")
    PROVE  PollInv' /\ LastInv' /\ last' = last
<1>1. pc = "aime" /\ UNCHANGED <<file, key, gen, last, touched>>
  BY DEF ReadIdFile, ghosts
<1>2. LastInv'
  BY <1>1, SameForeseen DEF LastInv
<1>3. id = [k \in Kinds |-> Blank] /\ (~touched => key)
  BY <1>1 DEF PollInv
<1>4. CASE Missing("aime")
  <2>1. pc' = IF "aime" \in gen THEN "aime_gen" ELSE "felica"
    BY <1>4 DEF ReadIdFile, Missing
  <2>2. id' = id
    BY <1>4 DEF ReadIdFile, Missing
  <2> QED
    BY <1>1, <1>2, <1>3, <1>4, <2>1, <2>2 DEF PollInv, Missing
<1>5. CASE ~Missing("aime")
  <2>1. pc' = "answer" /\ id' = [id EXCEPT !["aime"] = file["aime"]]
    BY <1>5 DEF ReadIdFile, Missing
  <2>2. id'["aime"] = file["aime"] /\ id'["felica"] = Blank
    BY <1>3, <2>1 DEF Kinds
  <2>3. Announced' = IF file["aime"] \in Luids THEN [kind |-> "aime", card |-> file["aime"]]
                     ELSE NoCard
    BY <2>2 DEF Announced, Reply, NoCard
  <2>4. ~touched => ~Generates' /\ Announced' = Foreseen'
    BY <1>1, <1>3, <1>5, <2>3 DEF Generates, Foreseen, Missing
  <2> QED
    BY <1>1, <1>2, <2>1, <2>4 DEF PollInv
<1> QED
  BY <1>4, <1>5

LEMMA FelicaFinds ==
    ASSUME PortInv, PollInv, LastInv,
           ReadIdFile("felica", IF "felica" \in gen THEN "felica_gen" ELSE "answer")
    PROVE  PollInv' /\ LastInv' /\ last' = last
<1>1. pc = "felica" /\ UNCHANGED <<file, key, gen, last, touched>>
  BY DEF ReadIdFile, ghosts
<1>2. LastInv'
  BY <1>1, SameForeseen DEF LastInv
<1>3. /\ id = [k \in Kinds |-> Blank]
      /\ ~touched => key /\ Missing("aime") /\ "aime" \notin gen
  BY <1>1 DEF PollInv
<1>4. CASE Missing("felica")
  <2>1. pc' = IF "felica" \in gen THEN "felica_gen" ELSE "answer"
    BY <1>4 DEF ReadIdFile, Missing
  <2>2. id' = id
    BY <1>4 DEF ReadIdFile, Missing
  <2>3. Announced' = NoCard
    BY <1>3, <2>2, NothingFound
  <2>4. ~touched /\ "felica" \notin gen => ~Generates' /\ Announced' = Foreseen'
    BY <1>1, <1>3, <1>4, <2>3 DEF Generates, Foreseen, Missing
  <2> QED
    BY <1>1, <1>2, <1>3, <1>4, <2>1, <2>2, <2>4 DEF PollInv, Missing
<1>5. CASE ~Missing("felica")
  <2>1. pc' = "answer" /\ id' = [id EXCEPT !["felica"] = file["felica"]]
    BY <1>5 DEF ReadIdFile, Missing
  <2>2. id'["felica"] = file["felica"] /\ file["felica"] # Blank
    BY <1>3, <1>5, <2>1, NoBlank, NamesApart DEF Kinds, Missing
  <2>3. Announced' = [kind |-> "felica", card |-> file["felica"]]
    BY <2>2 DEF Announced, Reply
  <2>4. ~touched => ~Generates' /\ Announced' = Foreseen'
    BY <1>1, <1>3, <1>5, <2>3 DEF Generates, Foreseen, Missing
  <2> QED
    BY <1>1, <1>2, <2>1, <2>4 DEF PollInv
<1> QED
  BY <1>4, <1>5

(* Nobody has been told of a card that is only now generated. *)
LEMMA Generated ==
    ASSUME PortInv, PollInv, LastInv,
           \/ \E n \in Luids : Generate("aime", n, "aime_gen")
           \/ \E n \in IDms : Generate("felica", n, "felica_gen")
    PROVE  PollInv' /\ LastInv' /\ last' = last
<1>1. /\ pc \in {"aime_gen", "felica_gen"} /\ pc' \in {"answer", "failed"}
      /\ UNCHANGED <<key, gen, last, touched>>
  BY DEF Generate, ghosts
<1>2. ~touched => Generates
  BY <1>1 DEF PollInv, Generates
<1>3. last = Nothing
  BY <1>1, <1>2 DEF LastInv
<1>4. id = [k \in Kinds |-> Blank]
  BY <1>1 DEF PollInv
<1>5. pc' = "answer" /\ ~touched => ~Generates' /\ Announced' = Foreseen'
  <2>1. ASSUME NEW n \in Luids, Generate("aime", n, "aime_gen"), pc' = "answer", ~touched
        PROVE  ~Generates' /\ Announced' = Foreseen'
    <3>1. file' = [file EXCEPT !["aime"] = n] /\ id' = [id EXCEPT !["aime"] = n] /\ key
      BY <1>2, <2>1 DEF Generate, Generates
    <3>2. file'["aime"] = n /\ id'["aime"] = n /\ id'["felica"] = Blank
      BY <1>4, <3>1, NoBlank DEF Kinds
    <3>3. ~Missing("aime")'
      BY <3>2, NamesApart DEF Missing
    <3>4. Announced' = [kind |-> "aime", card |-> n]
      BY <3>2 DEF Announced, Reply
    <3>5. Foreseen' = [kind |-> "aime", card |-> n]
      BY <1>1, <3>1, <3>2, <3>3 DEF Foreseen
    <3> QED
      BY <3>3, <3>4, <3>5 DEF Generates
  <2>2. ASSUME NEW n \in IDms, Generate("felica", n, "felica_gen"), pc' = "answer", ~touched
        PROVE  ~Generates' /\ Announced' = Foreseen'
    <3>1. /\ file' = [file EXCEPT !["felica"] = n] /\ id' = [id EXCEPT !["felica"] = n] /\ key
          /\ Missing("aime") /\ "aime" \notin gen
      BY <1>2, <2>2 DEF Generate, Generates, PollInv
    <3>2. /\ file'["felica"] = n /\ file'["aime"] = file["aime"]
          /\ id'["felica"] = n /\ n # Blank
      BY <1>4, <3>1, NoBlank, NamesApart DEF Kinds
    <3>3. ~Missing("felica")' /\ Missing("aime")'
      BY <3>1, <3>2, NamesApart DEF Missing
    <3>4. Announced' = [kind |-> "felica", card |-> n]
      BY <3>2 DEF Announced, Reply
    <3>5. Foreseen' = [kind |-> "felica", card |-> n]
      BY <1>1, <3>1, <3>2, <3>3 DEF Foreseen
    <3> QED
      BY <1>1, <3>1, <3>3, <3>4, <3>5 DEF Generates
  <2> QED
    BY <2>1, <2>2
<1>6. LastInv'
  BY <1>1, <1>3 DEF LastInv
<1>7. PollInv'
  BY <1>1, <1>5 DEF PollInv
<1> QED
  BY <1>1, <1>6, <1>7

LEMMA NextPoll ==
    ASSUME PortInv, PollInv, LastInv, [Next]_vars
    PROVE  PollInv' /\ LastInv' /\ (last # Nothing /\ last' # Nothing => last' = last)
<1> USE DEF portVars, dllVars, nfcVars, outVars, ghosts
<1>1. CASE UNCHANGED vars
  <2>1. UNCHANGED <<pc, id, file, key, gen, last, touched>>
    BY <1>1 DEF vars
  <2>2. Announced' = Announced
    BY <2>1 DEF Announced
  <2> QED
    BY <2>1, <2>2, SameForeseen DEF PollInv, LastInv, Missing
<1>2. CASE Open \/ Close \/ Read \/ Write
  <2>1. UNCHANGED <<file, key, gen, last, touched>> /\ pc' = "idle"
    BY <1>2 DEF Open, Close, Read, Write
  <2> QED
    BY <2>1, SameForeseen DEF PollInv, LastInv
<1>3. CASE WritePoll
  <2>1. UNCHANGED <<file, key, gen, last>> /\ pc' = "sense" /\ ~touched'
    BY <1>3 DEF WritePoll
  <2> QED
    BY <2>1, SameForeseen DEF PollInv, LastInv
<1>4. CASE NfcPoll
  BY <1>4, SenseFinds, AimeFinds, FelicaFinds, Generated DEF NfcPoll
<1>5. CASE Answer
  <2>1. /\ UNCHANGED <<file, key, gen>> /\ pc = "answer" /\ pc' = "idle"
        /\ last' = IF touched THEN Nothing ELSE Announced
    BY <1>5 DEF Answer
  <2>2. ~touched => ~Generates /\ Announced = Foreseen
    BY <2>1 DEF PollInv
  <2>3. LastInv'
    BY <2>1, <2>2, SameForeseen DEF LastInv
  <2> QED
    BY <2>1, <2>2, <2>3 DEF PollInv, LastInv
<1>6. CASE PollFails
  BY <1>6 DEF PollFails, PollInv, LastInv
<1>7. CASE Player
  <2>1. id' = id /\ pc' = pc /\ last' = Nothing /\ touched' = (pc # "idle")
    BY <1>7 DEF Player
  <2> QED
    BY <2>1 DEF PollInv, LastInv
<1> QED
  BY <1>1, <1>2, <1>3, <1>4, <1>5, <1>6, <1>7 DEF Next

(* A card that is held over the reader, and whose file nobody touches, is the
   same at each poll, also when the first one had to generate its number
   (aime_io_nfc_poll).                                                     *)
THEOREM SameCardAtNextPoll == Spec => SameCardNextPoll
<1>1. Init => PollInv /\ LastInv
  BY DEF Init, PollInv, LastInv
<1>2. PortInv /\ PollInv /\ LastInv /\ [Next]_vars => PollInv' /\ LastInv'
  BY NextPoll
<1>3. PortInv /\ PollInv /\ LastInv /\ [Next]_vars
         => [last # Nothing /\ last' # Nothing => last' = last]_vars
  BY NextPoll
<1> QED
  BY <1>1, <1>2, <1>3, PortInvariance, PTL DEF Spec, SameCardNextPoll
=============================================================================
