------------------------------ MODULE RtlEeprom ------------------------------
(***************************************************************************)
(* rtlsdr_write_eeprom and rtlsdr_read_eeprom: an EEPROM of Cells bytes    *)
(* behind an 8-bit address, on the I2C bus of the dongle, one transfer at a*)
(* time.                                                                   *)
(*                                                                         *)
(* Each byte is read first and written only if it differs.  Whether the    *)
(* read succeeds is not looked at: if its second transfer fails, what      *)
(* cmd[1] held before is compared; if its first, the byte of another cell. *)
(* A write that fails may have landed.  The process may die in between.    *)
(***************************************************************************)
EXTENDS Integers, Sequences, Functions

CONSTANTS
    Cells,     \* how many bytes: 256, or fewer in an instance
    Values,    \* their values
    MaxLen,    \* bound on the length of a block
    MaxErrors  \* bound on the number of transfers that fail

ASSUME EepromAssumption ==
    Cells \in Nat \ {0} /\ MaxLen \in Nat /\ MaxErrors \in Nat

VARIABLES
    eeprom,     \* the contents
    op,         \* the last call: "none", "write", "read", or "died" in the middle of one
    at,         \* its next transfer: "compare", "put", "fetch"; "idle" when it returned
    offset, len, data,  \* its arguments; the data of a read are those read so far
    done,       \* i, how many bytes it dealt with
    cmd,        \* cmd[1]
    result,     \* what it returned
    errors,     \* how many transfers failed
    before,     \* the contents when it was called
    spared      \* the cells that it left out, though their read had failed

eepromVars == <<eeprom, op, at, offset, len, data, done, cmd, result, errors, before, spared>>

Blocks == UNION {[1..n -> Values] : n \in 0..MaxLen}

EepromTypeOK ==
    /\ eeprom \in [0..Cells-1 -> Values] /\ before \in [0..Cells-1 -> Values]
    /\ op \in {"none", "write", "read", "died"}
    /\ at \in {"idle", "compare", "put", "fetch"}
    /\ offset \in 0..Cells-1 /\ len \in 0..MaxLen /\ done \in 0..len
    /\ data \in Blocks /\ cmd \in Values
    /\ result \in {-3, -2, 0, 1}
    /\ errors \in 0..MaxErrors
    /\ spared \subseteq 0..Cells-1
    /\ at # "idle" => done < len /\ offset + len <= Cells

EepromInit ==
    /\ eeprom \in [0..Cells-1 -> Values] /\ before = eeprom
    /\ op = "none" /\ at = "idle"
    /\ offset = 0 /\ len = 0 /\ data = <<>> /\ done = 0
    /\ cmd \in Values
    /\ result = 0 /\ errors = 0 /\ spared = {}
-----------------------------------------------------------------------------
\* (Mutant: no check that the data fit.)
NoRoomCheck(from, n) == TRUE
RoomFor(from, n)     == from + n <= Cells

\* cmd[0] holds 8 bits of the address.
Cell == (offset + done) % Cells

Error   == errors < MaxErrors /\ errors' = errors + 1
NoError == errors' = errors

\* A call for n bytes that returns r at once, or goes on with a transfer.
Called(name, from, n, next, r) ==
    /\ at = "idle"
    /\ op' = name /\ offset' = from /\ len' = n /\ done' = 0
    /\ at' = next /\ result' = r
    /\ before' = eeprom /\ spared' = {}
    /\ UNCHANGED eeprom

\* One byte more.
Dealt(next, r) ==
    /\ done' = done + 1
    /\ IF done + 1 = len THEN at' = "idle" /\ result' = r ELSE at' = next /\ UNCHANGED result

Failed == at' = "idle" /\ result' = -3 /\ UNCHANGED done

\* rtlsdr_write_eeprom: cmd[1] is not initialised.
WriteCall(from, block) ==
    /\ IF ~RoomFor(from, Len(block)) THEN Called("write", from, Len(block), "idle", -2)
       ELSE Called("write", from, Len(block), IF Len(block) = 0 THEN "idle" ELSE "compare", 0)
    /\ data' = block /\ cmd' \in Values
    /\ NoError

\* The two transfers that read the byte, and the comparison.
Compare ==
    /\ at = "compare"
    /\ \E seen \in Values :
        /\ (seen = eeprom[Cell] /\ NoError) \/ (seen \in {cmd} \cup Range(eeprom) /\ Error)
        /\ IF seen = data[done + 1]
           THEN /\ Dealt("compare", 0)
                /\ spared' = IF errors' = errors THEN spared ELSE spared \cup {Cell}
           ELSE at' = "put" /\ UNCHANGED <<done, result, spared>>
    /\ cmd' = data[done + 1]
    /\ UNCHANGED <<eeprom, op, offset, len, data, before>>

\* The transfer that writes it.
Put ==
    /\ at = "put"
    /\ \/ eeprom' = [eeprom EXCEPT ![Cell] = cmd] /\ Dealt("compare", 0) /\ NoError
       \/ eeprom' \in {eeprom, [eeprom EXCEPT ![Cell] = cmd]} /\ Failed /\ Error
    /\ UNCHANGED <<op, offset, len, data, cmd, before, spared>>

\* rtlsdr_read_eeprom and its first transfer, of the address.  What it returns is
\* the result of its last transfer, the number of bytes of that.
ReadCall(from, n) ==
    /\ \/ ~RoomFor(from, n) /\ Called("read", from, n, "idle", -2) /\ NoError
       \/ RoomFor(from, n) /\ Called("read", from, n, IF n = 0 THEN "idle" ELSE "fetch", 1) /\ NoError
       \/ RoomFor(from, n) /\ Called("read", from, n, "idle", -3) /\ Error
    /\ data' = <<>>
    /\ UNCHANGED cmd

Fetch ==
    /\ at = "fetch"
    /\ \/ data' = Append(data, eeprom[Cell]) /\ Dealt("fetch", 1) /\ NoError
       \/ Failed /\ Error /\ UNCHANGED data
    /\ UNCHANGED <<eeprom, op, offset, len, cmd, before, spared>>

\* The process dies, or the dongle is unplugged.
Die ==
    /\ at # "idle"
    /\ at' = "idle" /\ op' = "died"
    /\ UNCHANGED <<eeprom, offset, len, data, done, cmd, result, errors, before, spared>>

EepromNext ==
    \/ \E from \in 0..Cells-1, block \in Blocks : WriteCall(from, block)
    \/ \E from \in 0..Cells-1, n \in 0..MaxLen : ReadCall(from, n)
    \/ Compare \/ Put \/ Fetch \/ Die

EepromSpec == EepromInit /\ [][EepromNext]_eepromVars
-----------------------------------------------------------------------------
(***************************************************************************)
(* Properties.                                                             *)
(***************************************************************************)

\* The first n bytes of the block are there, except in the cells spared; every other
\* cell is as it was.
Holds(n) ==
    \A c \in 0..Cells-1 :
        eeprom[c] = IF c \in (offset..offset+n-1) \ spared THEN data[c - offset + 1] ELSE before[c]

\* When rtlsdr_write_eeprom returns 0 the whole block is there, but for bytes whose
\* read failed; when it returns an error or the process dies, a first part of it is,
\* and nothing else changed, so that calling it again completes it.  A block beyond
\* the end is refused whole.  What rtlsdr_read_eeprom hands over, unless it returns
\* an error, is the block as it is; it then returns 1, not the 0 of its documentation.
EepromWritten ==
    at = "idle" /\ op # "none" =>
        /\ result # -2 <=> offset + len <= Cells
        /\ result = -2 => eeprom = before
        /\ op = "write" /\ result = 0 => Holds(len)
        /\ op = "read" \/ \E n \in 0..len : Holds(n)
        /\ op = "read" => eeprom = before
        /\ op = "read" /\ result >= 0 => result = 1 /\ data = [i \in 1..len |-> eeprom[offset + i - 1]]
=============================================================================
