--------------------------- MODULE RtlEepromProofs ---------------------------
(***************************************************************************)
(* Theorems about RtlEeprom, for any number of cells, any values, lengths  *)
(* and failures.                                                           *)
(***************************************************************************)
EXTENDS RtlEeprom, SequenceTheorems, TLAPS

-----------------------------------------------------------------------------
(***************************************************************************)
(* Types.                                                                  *)
(***************************************************************************)
\* Nothing wraps in a block that fits: each byte has its own cell.
LEMMA CellIs ==
    ASSUME EepromTypeOK, at # "idle"
    PROVE  /\ Cell = offset + done /\ Cell \in 0..Cells-1
           /\ done + 1 \in 1..len /\ done \in Nat /\ len \in Nat /\ offset \in Nat
<1>1. /\ Cells \in Nat \ {0} /\ MaxLen \in Nat
      /\ offset \in 0..Cells-1 /\ len \in 0..MaxLen /\ done \in 0..len
      /\ done < len /\ offset + len <= Cells
  BY EepromAssumption DEF EepromTypeOK
<1>2. PICK c \in Nat : c = offset + done
  BY <1>1
<1>3. 0 <= c /\ c < Cells /\ Cells > 0
  BY <1>1, <1>2
<1>4. c % Cells = c
  BY <1>1, <1>3
<1> QED
  BY <1>1, <1>2, <1>3, <1>4 DEF Cell

LEMMA BlockIs ==
    ASSUME NEW block \in Blocks
    PROVE  Len(block) \in 0..MaxLen /\ block \in [1..Len(block) -> Values] /\ block \in Seq(Values)
<1>1. PICK n \in 0..MaxLen : block \in [1..n -> Values]
  BY DEF Blocks
<1>2. n \in Nat
  BY EepromAssumption
<1>3. block \in Seq(Values) /\ Len(block) = n
  BY <1>1, <1>2
<1> QED
  BY <1>1, <1>3

LEMMA BlockOf ==
    ASSUME NEW n \in 0..MaxLen, NEW s \in [1..n -> Values]
    PROVE  s \in Blocks
BY DEF Blocks

\* What each call and each transfer does.
LEMMA CalledIs ==
    ASSUME EepromTypeOK, NEW name \in {"write", "read"}, NEW from \in 0..Cells-1, NEW n \in 0..MaxLen,
           NEW next \in {"idle", "compare", "fetch"}, NEW r \in {-3, -2, 0, 1}, Called(name, from, n, next, r),
           next # "idle" => n > 0 /\ RoomFor(from, n),
           data' \in Blocks, cmd' \in Values, errors' \in 0..MaxErrors
    PROVE  EepromTypeOK'
<1>1. next # "idle" => 0 < n /\ from + n <= Cells
  BY DEF RoomFor
<1>2. n \in Nat
  BY EepromAssumption
<1> QED
  BY <1>1, <1>2 DEF EepromTypeOK, Called

LEMMA FaultTyped ==
    ASSUME EepromTypeOK
    PROVE  (NoError => errors' \in 0..MaxErrors) /\ (Error => errors' \in 0..MaxErrors)
BY EepromAssumption DEF EepromTypeOK, NoError, Error

LEMMA DealtTyped ==
    ASSUME EepromTypeOK, at # "idle", NEW next \in {"compare", "fetch"}, NEW r \in {0, 1}, Dealt(next, r),
           len' = len, offset' = offset
    PROVE  /\ at' \in {"idle", "compare", "fetch"} /\ result' \in {-3, -2, 0, 1} /\ done' \in 0..len'
           /\ at' # "idle" => done' < len' /\ offset' + len' <= Cells
<1>1. done + 1 \in 1..len /\ done \in Nat /\ len \in Nat /\ offset + len <= Cells /\ result \in {-3, -2, 0, 1}
  BY CellIs DEF EepromTypeOK
<1>2. CASE done + 1 = len
  BY <1>1, <1>2 DEF Dealt
<1>3. CASE done + 1 # len
  BY <1>1, <1>3 DEF Dealt
<1> QED
  BY <1>2, <1>3

-----------------------------------------------------------------------------
(***************************************************************************)
(* The invariant: how much of a block is written, or read, between two     *)
(* transfers.                                                              *)
(***************************************************************************)
Writing ==
    at \in {"compare", "put"} =>
        /\ op = "write" /\ Len(data) = len /\ result = 0
        /\ Holds(done) /\ spared \subseteq offset..offset+done-1
        /\ at = "put" => cmd = data[done + 1]
Reading ==
    at = "fetch" =>
        /\ op = "read" /\ Len(data) = done /\ result = 1
        /\ eeprom = before /\ spared = {}
        /\ \A i \in 1..done : data[i] = eeprom[offset + i - 1]
Inv == EepromTypeOK /\ Writing /\ Reading /\ EepromWritten

\* A byte of a block that fits.
LEMMA ByteIs ==
    ASSUME EepromTypeOK, Writing, at \in {"compare", "put"}
    PROVE  data[done + 1] \in Values
<1>1. data \in Blocks /\ Len(data) = len /\ done + 1 \in 1..len
  BY CellIs DEF EepromTypeOK, Writing
<1> QED
  BY <1>1, BlockIs

\* Nothing of the block is there yet.
LEMMA HoldsNothing ==
    ASSUME offset' \in Nat, eeprom' = before'
    PROVE  Holds(0)'
<1>1. PICK o \in Nat : o = offset'
  OBVIOUS
<1>2. \A c : c \notin o..o+0-1
  OBVIOUS
<1> QED
  BY <1>1, <1>2 DEF Holds

\* One byte more is there, or was spared.
LEMMA HoldsMore ==
    ASSUME EepromTypeOK, at # "idle", Holds(done), offset' = offset, data' = data, before' = before,
           spared \subseteq spared', spared' \subseteq spared \cup {Cell},
           \A c \in 0..Cells-1 : c # Cell => eeprom'[c] = eeprom[c],
           eeprom'[Cell] = IF Cell \in spared' THEN before[Cell] ELSE data[done + 1],
           NEW n, n = done + 1
    PROVE  Holds(n)'
<1>1. Cell = offset + done /\ done \in Nat /\ offset \in Nat
  BY CellIs
<1>2. ASSUME NEW c \in 0..Cells-1
      PROVE  eeprom'[c] = IF c \in (offset..offset+n-1) \ spared' THEN data[c - offset + 1] ELSE before[c]
  <2>0. c \in Int
    BY EepromAssumption
  <2>1. CASE c = Cell
    <3>1. c \in offset..offset+n-1 /\ c - offset + 1 = done + 1
      BY <1>1, <2>1
    <3> QED
      BY <2>1, <3>1
  <2>2. CASE c # Cell
    <3>1. c \in offset..offset+n-1 <=> c \in offset..offset+done-1
      BY <1>1, <2>0, <2>2
    <3>2. c \in spared' <=> c \in spared
      BY <2>2
    <3>3. eeprom[c] = IF c \in (offset..offset+done-1) \ spared THEN data[c - offset + 1] ELSE before[c]
      BY DEF Holds
    <3> QED
      BY <2>2, <3>1, <3>2, <3>3
  <2> QED
    BY <2>1, <2>2
<1> QED
  BY <1>2 DEF Holds

-----------------------------------------------------------------------------
(***************************************************************************)
(* Each action keeps it.                                                   *)
(***************************************************************************)
LEMMA WriteCallKeeps ==
    ASSUME Inv, NEW from \in 0..Cells-1, NEW block \in Blocks, WriteCall(from, block)
    PROVE  Inv'
<1>1. Len(block) \in 0..MaxLen /\ Len(block) \in Nat
  BY BlockIs, EepromAssumption
<1>2. PICK next \in {"idle", "compare"}, r \in {-2, 0} :
        /\ Called("write", from, Len(block), next, r)
        /\ next # "idle" => Len(block) > 0 /\ RoomFor(from, Len(block)) /\ r = 0
        /\ r = -2 <=> ~RoomFor(from, Len(block))
        /\ r = 0 /\ next = "idle" => Len(block) = 0
  <2>1. CASE ~RoomFor(from, Len(block))
    <3>1. Called("write", from, Len(block), "idle", -2)
      BY <2>1 DEF WriteCall
    <3> QED
      BY <2>1, <3>1
  <2>2. CASE RoomFor(from, Len(block)) /\ Len(block) = 0
    <3>1. Called("write", from, Len(block), "idle", 0)
      BY <2>2 DEF WriteCall
    <3> QED
      BY <2>2, <3>1
  <2>3. CASE RoomFor(from, Len(block)) /\ Len(block) # 0
    <3>1. Called("write", from, Len(block), "compare", 0)
      BY <2>3 DEF WriteCall
    <3>2. Len(block) > 0
      BY <1>1, <2>3
    <3> QED
      BY <2>3, <3>1, <3>2
  <2> QED
    BY <2>1, <2>2, <2>3
<1>3. data' = block /\ cmd' \in Values /\ errors' \in 0..MaxErrors
  BY FaultTyped DEF WriteCall, Inv
<1>4. EepromTypeOK'
  BY <1>1, <1>2, <1>3, CalledIs DEF Inv
<1>5. /\ op' = "write" /\ at' = next /\ offset' = from /\ len' = Len(block) /\ done' = 0 /\ result' = r
      /\ eeprom' = eeprom /\ before' = eeprom /\ spared' = {} /\ offset' \in Nat
  BY <1>2 DEF Called
<1>6. Holds(0)'
  BY <1>5, HoldsNothing
<1>7. Writing'
  BY <1>2, <1>3, <1>5, <1>6 DEF Writing
<1>8. Reading'
  BY <1>2, <1>5 DEF Reading
<1>9. EepromWritten'
  <2>1. len' \in Nat /\ 0 \in 0..len'
    BY <1>1, <1>5
  <2>2. result' = -2 <=> ~RoomFor(offset', len')
    BY <1>2, <1>5
  <2>3. \E n \in 0..len' : Holds(n)'
    BY <1>6, <2>1
  <2>4. result' = 0 /\ at' = "idle" => Holds(len)'
    BY <1>2, <1>5, <1>6
  <2> QED
    BY <1>5, <2>2, <2>3, <2>4 DEF EepromWritten, RoomFor
<1> QED
  BY <1>4, <1>7, <1>8, <1>9 DEF Inv

LEMMA ReadCallKeeps ==
    ASSUME Inv, NEW from \in 0..Cells-1, NEW n \in 0..MaxLen, ReadCall(from, n)
    PROVE  Inv'
<1>1. n \in Nat
  BY EepromAssumption
<1>2. PICK next \in {"idle", "fetch"}, r \in {-3, -2, 1} :
        /\ Called("read", from, n, next, r)
        /\ next # "idle" => n > 0 /\ RoomFor(from, n) /\ r = 1
        /\ r = -2 <=> ~RoomFor(from, n)
        /\ r = 1 /\ next = "idle" => n = 0
  <2>1. CASE ~RoomFor(from, n)
    <3>1. Called("read", from, n, "idle", -2)
      BY <2>1 DEF ReadCall
    <3> QED
      BY <2>1, <3>1
  <2>2. CASE RoomFor(from, n) /\ Called("read", from, n, "idle", -3)
    BY <2>2
  <2>3. CASE RoomFor(from, n) /\ n = 0 /\ Called("read", from, n, "idle", 1)
    BY <2>3
  <2>4. CASE RoomFor(from, n) /\ n # 0 /\ Called("read", from, n, "fetch", 1)
    <3>1. n > 0
      BY <1>1, <2>4
    <3> QED
      BY <2>4, <3>1
  <2> QED
    BY <2>1, <2>2, <2>3, <2>4 DEF ReadCall
<1>3. data' = <<>> /\ cmd' \in Values /\ errors' \in 0..MaxErrors
  BY FaultTyped DEF ReadCall, Inv, EepromTypeOK
<1>4. data' \in Blocks
  <2>1. <<>> \in [1..0 -> Values] /\ 0 \in 0..MaxLen
    BY EepromAssumption
  <2> QED
    BY <1>3, <2>1 DEF Blocks
<1>5. EepromTypeOK'
  BY <1>2, <1>3, <1>4, CalledIs DEF Inv
<1>6. /\ op' = "read" /\ at' = next /\ offset' = from /\ len' = n /\ done' = 0 /\ result' = r
      /\ eeprom' = eeprom /\ before' = eeprom /\ spared' = {}
  BY <1>2 DEF Called
<1>7. Writing'
  BY <1>2, <1>6 DEF Writing
<1>8. Reading'
  <2>1. Len(data') = 0
    BY <1>3
  <2> QED
    BY <1>2, <1>6, <2>1 DEF Reading
<1>9. EepromWritten'
  <2>1. result' = -2 <=> ~RoomFor(offset', len')
    BY <1>2, <1>6
  <2>2. n = 0 => data' = [i \in 1..n |-> eeprom'[offset' + i - 1]]
    BY <1>3
  <2> QED
    BY <1>2, <1>6, <2>1, <2>2 DEF EepromWritten, RoomFor
<1> QED
  BY <1>5, <1>7, <1>8, <1>9 DEF Inv

\* One byte more, with the rest of the call unchanged.
LEMMA DealtKeeps ==
    ASSUME Inv, at \in {"compare", "put"}, Dealt("compare", 0), EepromTypeOK', NEW n, n = done + 1, Holds(n)',
           UNCHANGED <<op, offset, len, data, before>>, spared' \subseteq offset..offset+n-1
    PROVE  Inv'
<1>1. /\ done' = done + 1 /\ op' = "write" /\ Len(data') = len' /\ result' = 0 /\ at' \in {"idle", "compare"}
      /\ at' = "idle" <=> done' = len'
  <2>1. op = "write" /\ Len(data) = len /\ result = 0
    BY DEF Inv, Writing
  <2> QED
    BY <2>1 DEF Dealt
<1>3. Holds(n)' /\ done' = n /\ spared' \subseteq offset'..offset'+n-1
  BY <1>1
<1>4. Holds(done)'
  BY <1>3 DEF Holds
<1>5. Writing'
  BY <1>1, <1>3, <1>4 DEF Writing
<1>6. Reading'
  BY <1>1 DEF Reading
<1>7. EepromWritten'
  <2>1. RoomFor(offset', len') /\ n \in 0..len' /\ (at' = "idle" => n = len')
    BY <1>1, CellIs DEF Inv, EepromTypeOK, RoomFor
  <2>2. at' = "idle" => Holds(len)'
    BY <1>3, <2>1 DEF Holds
  <2>3. \E m \in 0..len' : Holds(m)'
    BY <1>3, <2>1
  <2> QED
    BY <1>1, <2>1, <2>2, <2>3 DEF EepromWritten, RoomFor
<1> QED
  BY <1>5, <1>6, <1>7 DEF Inv

LEMMA CompareKeeps ==
    ASSUME Inv, Compare
    PROVE  Inv'
<1>1. /\ at = "compare" /\ cmd' = data[done + 1]
      /\ UNCHANGED <<eeprom, op, offset, len, data, before>>
  BY DEF Compare
<1>2. EepromTypeOK /\ Writing /\ op = "write" /\ Len(data) = len /\ result = 0 /\ Holds(done)
        /\ spared \subseteq offset..offset+done-1
  BY <1>1 DEF Inv, Writing
<1>3. /\ Cell = offset + done /\ Cell \in 0..Cells-1
      /\ done + 1 \in 1..len /\ done \in Nat /\ len \in Nat /\ offset \in Nat
  BY <1>1, <1>2, CellIs
<1>4. data[done + 1] \in Values /\ errors \in Nat
  BY <1>1, <1>2, ByteIs DEF EepromTypeOK
<1>5. PICK seen :
        /\ (seen = eeprom[Cell] /\ NoError) \/ Error
        /\ IF seen = data[done + 1]
           THEN /\ Dealt("compare", 0)
                /\ spared' = IF errors' = errors THEN spared ELSE spared \cup {Cell}
           ELSE at' = "put" /\ UNCHANGED <<done, result, spared>>
  BY DEF Compare
<1>6. errors' \in 0..MaxErrors
  BY <1>2, <1>5, FaultTyped
<1>7. CASE seen = data[done + 1]
  <2>1. Dealt("compare", 0) /\ spared' = IF errors' = errors THEN spared ELSE spared \cup {Cell}
    BY <1>5, <1>7
  <2>2. spared' \subseteq offset..offset+(done+1)-1 /\ spared' \subseteq 0..Cells-1
    BY <1>2, <1>3, <2>1 DEF EepromTypeOK
  <2>3. EepromTypeOK'
    <3>1. /\ at' \in {"idle", "compare", "fetch"} /\ result' \in {-3, -2, 0, 1} /\ done' \in 0..len'
          /\ at' # "idle" => done' < len' /\ offset' + len' <= Cells
      BY <1>1, <1>2, <2>1, DealtTyped
    <3> QED
      BY <1>1, <1>2, <1>4, <1>6, <2>2, <3>1 DEF EepromTypeOK
  <2>4. eeprom'[Cell] = IF Cell \in spared' THEN before[Cell] ELSE data[done + 1]
    <3>1. Cell \notin offset..offset+done-1
      BY <1>3
    <3>2. eeprom[Cell] = before[Cell] /\ Cell \notin spared
      BY <1>2, <1>3, <3>1 DEF Holds
    <3>3. CASE Cell \in spared'
      BY <1>1, <3>2, <3>3
    <3>4. CASE Cell \notin spared'
      <4>1. errors' = errors
        BY <2>1, <3>4
      <4>2. ~Error
        BY <1>4, <4>1 DEF Error
      <4> QED
        BY <1>1, <1>5, <1>7, <3>4, <4>2
    <3> QED
      BY <3>3, <3>4
  <2>5. PICK n : n = done + 1
    OBVIOUS
  <2>6. Holds(n)'
    <3>1. spared \subseteq spared' /\ spared' \subseteq spared \cup {Cell}
      BY <2>1
    <3> QED
      BY <1>1, <1>2, <2>4, <2>5, <3>1, HoldsMore
  <2> QED
    BY <1>1, <2>1, <2>2, <2>3, <2>5, <2>6, DealtKeeps
<1>8. CASE seen # data[done + 1]
  <2>1. at' = "put" /\ UNCHANGED <<done, result, spared>>
    BY <1>5, <1>8
  <2>2. EepromTypeOK'
    BY <1>1, <1>2, <1>4, <1>6, <2>1 DEF EepromTypeOK
  <2>3. Holds(done)'
    BY <1>1, <1>2, <2>1 DEF Holds
  <2> QED
    BY <1>1, <1>2, <2>1, <2>2, <2>3 DEF Inv, Writing, Reading, EepromWritten
<1> QED
  BY <1>7, <1>8

LEMMA PutKeeps ==
    ASSUME Inv, Put
    PROVE  Inv'
<1>1. /\ at = "put"
      /\ UNCHANGED <<op, offset, len, data, cmd, before, spared>>
      /\ eeprom' \in {eeprom, [eeprom EXCEPT ![Cell] = cmd]}
  BY DEF Put
<1>2. /\ EepromTypeOK /\ op = "write" /\ Len(data) = len /\ result = 0 /\ Holds(done)
      /\ spared \subseteq offset..offset+done-1 /\ cmd = data[done + 1]
  BY <1>1 DEF Inv, Writing
<1>3. /\ Cell = offset + done /\ Cell \in 0..Cells-1
      /\ done + 1 \in 1..len /\ done \in Nat /\ len \in Nat /\ offset \in Nat
  BY <1>1, <1>2, CellIs
<1>4. eeprom' \in [0..Cells-1 -> Values] /\ errors' \in 0..MaxErrors
  <2>1. eeprom \in [0..Cells-1 -> Values] /\ cmd \in Values
    BY <1>2 DEF EepromTypeOK
  <2>2. errors' \in 0..MaxErrors
    BY <1>2, FaultTyped DEF Put
  <2> QED
    BY <1>1, <2>1, <2>2
<1>5. ASSUME eeprom' = [eeprom EXCEPT ![Cell] = cmd], NEW n, n = done + 1
      PROVE  Holds(n)'
  <2>1. Cell \notin spared
    BY <1>2, <1>3
  <2>2. /\ \A c \in 0..Cells-1 : c # Cell => eeprom'[c] = eeprom[c]
        /\ eeprom'[Cell] = data[done + 1]
    BY <1>2, <1>3, <1>5 DEF EepromTypeOK
  <2>3. eeprom'[Cell] = IF Cell \in spared' THEN before[Cell] ELSE data[done + 1]
    BY <1>1, <2>1, <2>2
  <2>4. spared \subseteq spared' /\ spared' \subseteq spared \cup {Cell}
    BY <1>1
  <2> QED
    BY <1>1, <1>2, <1>5, <2>2, <2>3, <2>4, HoldsMore
<1>6. CASE eeprom' = [eeprom EXCEPT ![Cell] = cmd] /\ Dealt("compare", 0)
  <2>1. EepromTypeOK'
    <3>1. /\ at' \in {"idle", "compare", "fetch"} /\ result' \in {-3, -2, 0, 1} /\ done' \in 0..len'
          /\ at' # "idle" => done' < len' /\ offset' + len' <= Cells
      BY <1>1, <1>2, <1>6, DealtTyped
    <3> QED
      BY <1>1, <1>2, <1>4, <3>1 DEF EepromTypeOK
  <2>2. PICK n : n = done + 1
    OBVIOUS
  <2>3. Holds(n)'
    BY <1>5, <1>6, <2>2
  <2>4. spared' \subseteq offset..offset+n-1
    BY <1>1, <1>2, <1>3, <2>2
  <2> QED
    BY <1>1, <1>6, <2>1, <2>2, <2>3, <2>4, DealtKeeps
<1>7. CASE Failed
  <2>1. at' = "idle" /\ result' = -3 /\ done' = done
    BY <1>7 DEF Failed
  <2>2. EepromTypeOK'
    BY <1>1, <1>2, <1>4, <2>1 DEF EepromTypeOK
  <2>3. \E n \in 0..len' : Holds(n)'
    <3>1. CASE eeprom' = eeprom
      <4>1. PICK n \in 0..len' : n = done
        BY <1>1, <1>3
      <4>2. Holds(n)'
        BY <1>1, <1>2, <3>1, <4>1 DEF Holds
      <4> QED
        BY <4>2
    <3>2. CASE eeprom' = [eeprom EXCEPT ![Cell] = cmd]
      <4>1. PICK n \in 0..len' : n = done + 1
        BY <1>1, <1>3
      <4> QED
        BY <1>5, <3>2, <4>1
    <3> QED
      BY <1>1, <3>1, <3>2
  <2>4. RoomFor(offset', len')
    BY <1>1, <1>2 DEF EepromTypeOK, RoomFor
  <2>5. EepromWritten'
    BY <1>1, <1>2, <2>1, <2>3, <2>4 DEF EepromWritten, RoomFor
  <2> QED
    BY <2>1, <2>2, <2>5 DEF Inv, Writing, Reading
<1> QED
  BY <1>6, <1>7 DEF Put

LEMMA OneMore ==
    ASSUME NEW s \in Seq(Values), NEW x \in Values
    PROVE  /\ Append(s, x) \in [1..Len(s)+1 -> Values] /\ Len(Append(s, x)) = Len(s) + 1
           /\ Append(s, x)[Len(s) + 1] = x /\ \A i \in 1..Len(s) : Append(s, x)[i] = s[i]
<1>1. PICK t \in Seq(Values) : t = Append(s, x)
  BY AppendProperties
<1>2. Len(t) = Len(s) + 1 /\ t[Len(s) + 1] = x /\ \A i \in 1..Len(s) : t[i] = s[i]
  BY <1>1, AppendProperties
<1>3. t \in [1..Len(t) -> Values]
  OBVIOUS
<1> QED
  BY <1>1, <1>2, <1>3

LEMMA FetchKeeps ==
    ASSUME Inv, Fetch
    PROVE  Inv'
<1>1. /\ at = "fetch"
      /\ UNCHANGED <<eeprom, op, offset, len, cmd, before, spared>>
  BY DEF Fetch
<1>2. /\ EepromTypeOK /\ op = "read" /\ Len(data) = done /\ result = 1
      /\ eeprom = before /\ spared = {}
      /\ \A i \in 1..done : data[i] = eeprom[offset + i - 1]
  BY <1>1 DEF Inv, Reading
<1>3. /\ Cell = offset + done /\ Cell \in 0..Cells-1
      /\ done + 1 \in 1..len /\ done \in Nat /\ len \in Nat /\ offset \in Nat
  BY <1>1, <1>2, CellIs
<1>4. errors' \in 0..MaxErrors
  BY <1>2, FaultTyped DEF Fetch
<1>5. RoomFor(offset', len')
  BY <1>1, <1>2 DEF EepromTypeOK, RoomFor
<1>6. CASE data' = Append(data, eeprom[Cell]) /\ Dealt("fetch", 1)
  <2>1. data \in Seq(Values) /\ eeprom[Cell] \in Values /\ done + 1 \in 0..MaxLen
    <3>1. data \in Seq(Values) /\ eeprom[Cell] \in Values
      BY <1>2, <1>3, BlockIs DEF EepromTypeOK
    <3>2. len \in 0..MaxLen /\ MaxLen \in Nat
      BY <1>2, EepromAssumption DEF EepromTypeOK
    <3> QED
      BY <1>3, <3>1, <3>2
  <2>2. /\ data' \in [1..done+1 -> Values] /\ Len(data') = done + 1
        /\ data'[done + 1] = eeprom[Cell] /\ \A i \in 1..done : data'[i] = data[i]
    BY <1>2, <1>6, <2>1, OneMore
  <2>3. data' \in Blocks
    BY <2>1, <2>2, BlockOf
  <2>4. EepromTypeOK'
    <3>1. /\ at' \in {"idle", "compare", "fetch"} /\ result' \in {-3, -2, 0, 1} /\ done' \in 0..len'
          /\ at' # "idle" => done' < len' /\ offset' + len' <= Cells
      BY <1>1, <1>2, <1>6, DealtTyped
    <3> QED
      BY <1>1, <1>2, <1>4, <2>3, <3>1 DEF EepromTypeOK
  <2>5. /\ done' = done + 1 /\ result' = 1 /\ at' \in {"idle", "fetch"}
        /\ at' = "idle" => done' = len'
    BY <1>1, <1>2, <1>6 DEF Dealt
  <2>6. \A i \in 1..done+1 : data'[i] = eeprom[offset + i - 1]
    <3> TAKE i \in 1..done+1
    <3>1. CASE i = done + 1
      <4>1. offset + i - 1 = Cell
        BY <1>3, <3>1
      <4> QED
        BY <2>2, <3>1, <4>1
    <3>2. CASE i # done + 1
      <4>1. i \in 1..done
        BY <1>3, <3>2
      <4> QED
        BY <1>2, <2>2, <4>1
    <3> QED
      BY <3>1, <3>2
  <2>7. Writing'
    BY <2>5 DEF Writing
  <2>8. Reading'
    BY <1>1, <1>2, <2>2, <2>5, <2>6 DEF Reading
  <2>9. EepromWritten'
    <3>1. at' = "idle" => data' = [i \in 1..len' |-> eeprom'[offset' + i - 1]]
      BY <1>1, <2>2, <2>5, <2>6
    <3> QED
      BY <1>1, <1>2, <1>5, <2>5, <3>1 DEF EepromWritten, RoomFor
  <2> QED
    BY <2>4, <2>7, <2>8, <2>9 DEF Inv
<1>7. CASE Failed /\ UNCHANGED data
  <2>1. at' = "idle" /\ result' = -3 /\ done' = done /\ data' = data
    BY <1>7 DEF Failed
  <2>2. EepromTypeOK'
    BY <1>1, <1>2, <1>4, <2>1 DEF EepromTypeOK
  <2>3. EepromWritten'
    BY <1>1, <1>2, <1>5, <2>1 DEF EepromWritten, RoomFor
  <2> QED
    BY <2>1, <2>2, <2>3 DEF Inv, Writing, Reading
<1> QED
  BY <1>6, <1>7 DEF Fetch

LEMMA DieKeeps ==
    ASSUME Inv, Die
    PROVE  Inv'
<1>1. /\ at # "idle" /\ at' = "idle" /\ op' = "died"
      /\ UNCHANGED <<eeprom, offset, len, data, done, cmd, result, errors, before, spared>>
  BY DEF Die
<1>2. EepromTypeOK /\ Writing /\ Reading
  BY DEF Inv
<1>3. EepromTypeOK'
  BY <1>1, <1>2 DEF EepromTypeOK
<1>4. result \in {0, 1} /\ RoomFor(offset, len) /\ len \in Nat /\ done \in 0..len /\ offset \in Nat
        /\ at \in {"compare", "put", "fetch"}
  BY <1>1, <1>2, CellIs DEF EepromTypeOK, Writing, Reading, RoomFor
<1>5. \E n \in 0..len' : Holds(n)'
  <2>1. CASE at \in {"compare", "put"}
    <3>1. PICK n \in 0..len' : n = done
      BY <1>1, <1>4
    <3>2. Holds(n)'
      BY <1>1, <1>2, <2>1, <3>1 DEF Writing, Holds
    <3> QED
      BY <3>2
  <2>2. CASE at = "fetch"
    <3>1. PICK n \in 0..len' : n = 0
      BY <1>1, <1>4
    <3>2. Holds(n)'
      BY <1>1, <1>2, <1>4, <2>2, <3>1, HoldsNothing DEF Reading
    <3> QED
      BY <3>2
  <2> QED
    BY <1>4, <2>1, <2>2
<1>6. EepromWritten'
  BY <1>1, <1>4, <1>5 DEF EepromWritten, RoomFor
<1> QED
  BY <1>1, <1>3, <1>6 DEF Inv, Writing, Reading

LEMMA InvHolds == EepromInit => Inv
<1> SUFFICES ASSUME EepromInit
             PROVE  Inv
  OBVIOUS
<1>1. EepromTypeOK
  <2>1. <<>> \in [1..0 -> Values] /\ 0 \in 0..MaxLen
    BY EepromAssumption
  <2>2. data \in Blocks
    BY <2>1 DEF EepromInit, Blocks
  <2> QED
    BY <2>2, EepromAssumption DEF EepromInit, EepromTypeOK
<1> QED
  BY <1>1 DEF EepromInit, Inv, Writing, Reading, EepromWritten

LEMMA InvKept == Inv /\ [EepromNext]_eepromVars => Inv'
<1> SUFFICES ASSUME Inv, [EepromNext]_eepromVars
             PROVE  Inv'
  OBVIOUS
<1>1. CASE EepromNext
  BY <1>1, WriteCallKeeps, ReadCallKeeps, CompareKeeps, PutKeeps, FetchKeeps, DieKeeps DEF EepromNext
<1>2. CASE UNCHANGED eepromVars
  BY <1>2 DEF eepromVars, Inv, EepromTypeOK, Writing, Reading, EepromWritten, Holds, RoomFor
<1> QED
  BY <1>1, <1>2

\* Whatever fails, every variable keeps its type, and no transfer goes beyond the end of a
\* block or of the EEPROM.
THEOREM EepromTypes == EepromSpec => []EepromTypeOK
<1>1. Inv => EepromTypeOK
  BY DEF Inv
<1> QED
  BY <1>1, InvHolds, InvKept, PTL DEF EepromSpec

\* What rtlsdr_write_eeprom has written when it returns or is stopped, and what
\* rtlsdr_read_eeprom has read when it returns, whatever fails and whatever was there.
THEOREM EepromAlwaysWritten == EepromSpec => []EepromWritten
<1>1. Inv => EepromWritten
  BY DEF Inv
<1> QED
  BY <1>1, InvHolds, InvKept, PTL DEF EepromSpec
=============================================================================
