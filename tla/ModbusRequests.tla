--------------------------- MODULE ModbusRequests ---------------------------
(***************************************************************************)
(* What a poll of one point asks of a Modbus device: the requests of       *)
(* networkRead and networkWrite (pkg/utils.go), the client's functions     *)
(* behind them (smod/modbus.go), the conversion between a value and the    *)
(* registers (Encoding), the two requests of a poll that writes one bit    *)
(* (pkg/polling.go), and the flags of the point's row after it             *)
(* (WriteModes).  When a point is polled is the matter of PollManager;     *)
(* here each point with a flag set is polled at any time.                  *)
(*                                                                         *)
(* Values are float64 in the code.  Here they are counted in quarters: a   *)
(* quarter is the finest value of a float64, a half the finest of a        *)
(* float32.  A float's bits are any one-to-one code of the values it       *)
(* holds: here two's complement.                                           *)
(***************************************************************************)
EXTENDS Encoding, WriteModes, FiniteSets

CONSTANTS Point,       \* point UUIDs
          Configs,     \* what the points may be: subset of [Point -> Config]
          LastCell,    \* the last address the device has
          Wishes(_),   \* values users write to a point with this Config
          FieldWords,  \* what the field puts into registers
          Faults,      \* subset of {"refused", "lost", "garbled"}
          MaxEvents,   \* bound: user writes and changes in the field
          NoPoll       \* no poll sleeps between its two requests

Q == 4
Bits      == {"coil", "discrete_input"}
Registers == {"input_register", "holding_register"}
Encodings == {"beb_bew", "leb_bew", "beb_lew", "leb_lew"}

Width(data) == CASE data \in {"uint16", "int16"}              -> 2
                 [] data \in {"uint32", "int32", "float32", "mod10_u32"} -> 4
                 [] OTHER                                     -> 8
DataTypes == {"uint16", "int16", "uint32", "int32", "uint64", "int64",
              "float32", "float64", "mod10_u32"}

\* A row's fields that no poll changes; bit = NoValue: the point is not bitwise; rated: the
\* row of its network has a MaxPollRate.
Config == [object : STRING, data : STRING, encoding : STRING, address : Nat,
           bit : Nat \cup {NoValue}, mode : Modes, rated : BOOLEAN]

\* What the points, the device and the users can be, and that no value stands for none.
ASSUME RequestsAssumption ==
    /\ Configs \subseteq [Point -> Config]
    /\ \A f \in Configs : \A p \in Point : Wishes(f[p]) \subseteq Int
    /\ LastCell \in Nat /\ MaxEvents \in Nat
    /\ FieldWords \subseteq [1 .. 2 -> Byte]
    /\ NoValue \notin Int
    /\ NoPoll \notin [point : Point, read : Int]

VARIABLES config,   \* the points' Config: chosen once
          memory,   \* the device: contents of each table
          row,      \* the database row: flags, WriteValue, OriginalValue
          out,      \* a poll between its read and its write, or NoPoll
          stale,    \* ghost: points whose present value need not be the device's
          events,   \* user writes and changes in the field so far
          alive     \* FALSE: the process has dereferenced a nil pointer

vars == <<config, memory, row, out, stale, events, alive>>

-----------------------------------------------------------------------------
\* convertOldObjectType: what is not known is taken for a holding register.
Table(object) ==
    CASE object \in {"read_coil", "read_coils", "write_coil", "write_coils", "coil"} -> "coil"
      [] object \in {"read_discrete_input", "read_discrete_inputs", "discrete_input"}
                                                                       -> "discrete_input"
      [] object \in {"read_register", "read_registers", "input_register"} -> "input_register"
      [] OTHER                                                         -> "holding_register"

\* pointAddress: DeviceZeroMode is never set, so one is always subtracted.
Address(pt) == (pt.address - 1) % 2^16

\* The quantity of a read; ReadFloat64s asks for 2 * quantity, as ReadFloat32s does.
Quantity(pt) ==
    IF Table(pt.object) \in Bits THEN 1
    ELSE IF pt.data = "float64" THEN 2 ELSE Width(pt.data) \div 2

Known(pt) == Table(pt.object) \in Bits \/ pt.data \in DataTypes
Within(pt, quantity) == Address(pt) + quantity - 1 <= LastCell

\* The bytes of quantity registers as they come over the wire; device is its memory.
Raw(device, pt, quantity) ==
    [k \in 1 .. 2 * quantity |->
        device[Table(pt.object)][Address(pt) + (k - 1) \div 2][2 - (k % 2)]]

Value(data, bytes) ==
    CASE data \in {"int16", "int32", "int64"} -> Q * Signed(bytes)
      [] data = "float32"                     -> 2 * Signed(bytes)
      [] data = "float64"                     -> Signed(bytes)
      [] OTHER                                -> Q * Number(bytes)

\* networkRead, where the device answers.
ReadResponse(device, pt) ==
    LET order == Orders(pt.encoding)
        raw   == Raw(device, pt, Quantity(pt)) IN
    IF Table(pt.object) \in Bits THEN Q * device[Table(pt.object)][Address(pt)]
    ELSE IF pt.data = "mod10_u32" THEN Q * BytesToMod10(order[1], order[2], raw)
    ELSE Value(pt.data, BytesToUints(order[1], order[2], Width(pt.data), raw)[1])
-----------------------------------------------------------------------------
Trunc(v) == IF v >= 0 THEN v \div Q ELSE -((-v) \div Q)

\* uint16(v), uint32(v), uint64(v): out of range, Go leaves the result to the
\* build - amd64 wraps, arm saturates; 16 bits are cut from a wider integer.
Unsigned(width, v) ==
    LET n   == Trunc(v)
        top == Power(Base, width) - 1 IN
    {n % (top + 1)} \cup (IF width = 2 THEN {}
                          ELSE {IF n < 0 THEN 0 ELSE IF n > top THEN top ELSE n})

\* What WriteCoil, WriteSingleRegister, WriteDoubleRegister, WriteQuadRegister and
\* WriteFloat32 (which is called for a float64 too) put into the device and report.
\* WriteSingleRegister sends its register in the order of Modbus, whatever the encoding.
WriteRequest(pt, v) ==
    LET order == Orders(pt.encoding)
        words(bytes) == [k \in 1 .. Len(bytes) \div 2 |-> SubSeq(bytes, 2*k - 1, 2*k)]
        sent(width, n) == words(UintToBytes(order[1], order[2], Digits(width, n)))
        coil == IF v > 0 THEN 1 ELSE 0 IN
    IF Table(pt.object) = "coil" THEN {[cells |-> <<coil>>, value |-> Q * coil]}
    ELSE IF pt.data \in {"float32", "float64"}
      THEN {[cells |-> sent(4, (v \div 2) % Power(Base, 4)), value |-> v]}
    ELSE {[cells |-> IF Width(pt.data) = 2 THEN <<Digits(2, n)>>
                                           ELSE sent(Width(pt.data), n),
           value |-> Q * n] : n \in Unsigned(Width(pt.data), v)}

\* Has networkWrite a request for the point, and does the device have its cells.
CanWrite(pt) ==
    \/ Table(pt.object) = "coil" /\ Within(pt, 1)
    \/ /\ Table(pt.object) = "holding_register" /\ pt.data \in DataTypes \ {"mod10_u32"}
       /\ Within(pt, IF Width(pt.data) = 2 THEN 1
                     ELSE IF pt.data \in {"uint64", "int64"} THEN 4 ELSE 2)
CanRead(pt) == Known(pt) /\ Within(pt, Quantity(pt))

Bitwise(pt) == pt.bit # NoValue
HasBit(n, i)   == (n \div Power(2, i)) % 2 = 1
SetBit(n, i)   == IF HasBit(n, i) THEN n ELSE n + Power(2, i)
ClearBit(n, i) == IF HasBit(n, i) THEN n - Power(2, i) ELSE n
\* getBitFromFloat64 gives an error for a fraction and for a negative number.
BitReadable(v) == v >= 0 /\ v % Q = 0
BitOf(v, i)    == IF HasBit(v \div Q, i) THEN Q ELSE 0

\* Mutant of Outgoing: the bit goes out without the rest of the register.
OutgoingBitAlone(pt, wv, read) == wv

\* The value a poll writes: a bitwise point's is the register read before, with the
\* bit changed, unless the value asked for is neither 1 nor 0.
Outgoing(pt, wv, read) ==
    IF ~Bitwise(pt) THEN wv
    ELSE CASE wv = Q -> Q * SetBit(read \div Q, pt.bit)
           [] wv = 0 -> Q * ClearBit(read \div Q, pt.bit)
           [] OTHER  -> 0
-----------------------------------------------------------------------------
\* The cells a point's value is made of, by the documented length of its type.
Cells(pt) ==
    LET n == IF Table(pt.object) \in Bits THEN 1 ELSE Width(pt.data) \div 2 IN
    Address(pt) .. Address(pt) + n - 1

\* Do two points have a bit of the device in common.
Overlap(p, q) ==
    LET x == config[p]
        y == config[q] IN
    /\ Table(x.object) = Table(y.object)
    /\ Cells(x) \cap Cells(y) # {}
    /\ Bitwise(x) /\ Bitwise(y) => x.bit = y.bit

\* Mutant of Complete: a write is no longer required, whatever became of it.
CompleteForgets(p, pnt, writeSuccess, readSuccess, retry) ==
    row' = [row EXCEPT ![p] = [@ EXCEPT !.write = FALSE, !.ov = pnt.ov]]

\* PollingPointCompleteNotification at the end of a poll of p with the row pnt.
Complete(p, pnt, writeSuccess, readSuccess, retry) ==
    LET d == Dispose(config[p].mode, pnt,
                     [writeSuccess |-> writeSuccess, readSuccess |-> readSuccess,
                      pointUpdate |-> FALSE, resetPriority |-> FALSE,
                      retryType |-> retry, notRequired |-> FALSE]) IN
    row' = [row EXCEPT ![p] = [@ EXCEPT !.read = d.read, !.write = d.write, !.ov = pnt.ov]]

\* The end of a poll that has a value for the point: where it is a change, the row is
\* written and taken over from the host, with the WriteValue of the database; where
\* it is none, pnt stays, with the WriteValue that was put on the wire.
Report(p, value, sent, writeSuccess, readSuccess) ==
    LET isChange == row[p].ov # value
        pnt == [row[p] EXCEPT !.ov = value, !.wv = IF isChange THEN @ ELSE sent]
        toPresent == isChange /\ writeSuccess /\ pnt.wv # NoValue
                       /\ config[p].mode \in {"write_once", "write_always"} IN
    Complete(p, pnt, writeSuccess, readSuccess \/ toPresent, "normal")

Reads(p)  == row[p].read /\ (~row[p].write \/ Bitwise(config[p]))
Writes(p) == IsWriteable(config[p].mode) /\ row[p].write
Bit(p, v) == IF Bitwise(config[p]) THEN BitOf(v, config[p].bit) ELSE v
Polled(p) == alive /\ out = NoPoll /\ (row[p].read \/ row[p].write)

ReadFails(p) ==
    /\ Polled(p) /\ Reads(p)
    /\ "refused" \in Faults \/ ~CanRead(config[p])
    /\ Complete(p, row[p], FALSE, FALSE, "immediate")
    /\ UNCHANGED <<config, memory, out, stale, events, alive>>

BitFails(p) ==
    /\ Polled(p) /\ Reads(p) /\ CanRead(config[p])
    /\ Bitwise(config[p]) /\ ~BitReadable(ReadResponse(memory, config[p]))
    /\ Complete(p, row[p], FALSE, FALSE, "delayed")
    /\ UNCHANGED <<config, memory, out, stale, events, alive>>

\* Mutant of Responses: any value is taken for a bit field.
ResponsesUnchecked(p) ==
    IF CanRead(config[p]) THEN {ReadResponse(memory, config[p])} ELSE {}

\* What the device can answer that the point can take: one value at most.
Responses(p) ==
    {v \in (IF CanRead(config[p]) THEN {ReadResponse(memory, config[p])} ELSE {}) :
        Bitwise(config[p]) => BitReadable(v)}

ReadOk(p) ==
    /\ Polled(p) /\ Reads(p) /\ ~Writes(p)
    /\ \E v \in Responses(p) : Report(p, Bit(p, v), row[p].wv, FALSE, TRUE)
    /\ stale' = stale \ {p}
    /\ UNCHANGED <<config, memory, out, events, alive>>

\* The poll of a bitwise point has read its register and has a value to write.
BothDue(p) == Polled(p) /\ Reads(p) /\ Writes(p) /\ row[p].wv # NoValue

\* It sleeps for the MaxPollRate of the network before it writes.
ReadThenSleep(p) ==
    /\ BothDue(p) /\ config[p].rated
    /\ \E v \in Responses(p) : out' = [point |-> p, read |-> v]
    /\ UNCHANGED <<config, memory, row, stale, events, alive>>

\* Of a network without MaxPollRate, it stores the default through the nil pointer.
ReadThenDie(p) ==
    /\ BothDue(p) /\ ~config[p].rated /\ Responses(p) # {}
    /\ alive' = FALSE
    /\ UNCHANGED <<config, memory, row, out, stale, events>>

\* There is no value to write: the poll succeeds and reports 0, whatever was read.
WriteNothing(p) ==
    /\ Polled(p) /\ Writes(p) /\ row[p].wv = NoValue
    /\ Reads(p) => Responses(p) # {}
    /\ Report(p, 0, NoValue, TRUE, Reads(p))
    /\ stale' = stale \cup {p}
    /\ UNCHANGED <<config, memory, out, events, alive>>

\* "bitwise point needs successful read before write"
BitUnread(p) ==
    /\ Polled(p) /\ ~Reads(p) /\ Writes(p) /\ row[p].wv # NoValue
    /\ Bitwise(config[p])
    /\ Complete(p, row[p], FALSE, FALSE, "delayed")
    /\ UNCHANGED <<config, memory, out, stale, events, alive>>

\* The poll of p is about to write.
WriteDue(p) ==
    \/ Polled(p) /\ ~Reads(p) /\ Writes(p) /\ row[p].wv # NoValue /\ ~Bitwise(config[p])
    \/ out # NoPoll /\ out.point = p
Read == IF out = NoPoll THEN 0 ELSE out.read

Requests(p) == WriteRequest(config[p], Outgoing(config[p], row[p].wv, Read))

\* The device carries out a write.
Put(device, pt, cells) ==
    [device EXCEPT ![Table(pt.object)] =
        [a \in DOMAIN @ |-> IF a \in Address(pt) .. Address(pt) + Len(cells) - 1
                            THEN cells[a - Address(pt) + 1] ELSE @[a]]]
Overlapped(p) == {q \in Point : Overlap(p, q)}

\* The response is the one expected; or it is not, and the client does not mind,
\* since it has written a single register.
WriteOk(p) ==
    /\ WriteDue(p) /\ CanWrite(config[p])
    /\ \E r \in Requests(p) :
          /\ memory' = Put(memory, config[p], r.cells)
          /\ Report(p, IF ~Bitwise(config[p]) THEN r.value
                       ELSE IF row[p].wv = Q THEN Q ELSE 0,
                    Outgoing(config[p], row[p].wv, Read), TRUE, out # NoPoll)
    /\ stale' = (stale \cup Overlapped(p)) \ {p}
    /\ out' = NoPoll
    /\ UNCHANGED <<config, events, alive>>

SingleRegister(pt) == Table(pt.object) = "holding_register" /\ Width(pt.data) = 2

\* The write is carried out, but no response, or another than expected, arrives.
WriteUnanswered(p) ==
    /\ WriteDue(p) /\ CanWrite(config[p])
    /\ "lost" \in Faults \/ ("garbled" \in Faults /\ ~SingleRegister(config[p]))
    /\ \E r \in Requests(p) : memory' = Put(memory, config[p], r.cells)
    /\ Complete(p, row[p], FALSE, FALSE, "immediate")
    /\ stale' = stale \cup Overlapped(p)
    /\ out' = NoPoll
    /\ UNCHANGED <<config, events, alive>>

WriteFails(p) ==
    /\ WriteDue(p)
    /\ "refused" \in Faults \/ ~CanWrite(config[p])
    /\ Complete(p, row[p], FALSE, FALSE, "immediate")
    /\ out' = NoPoll
    /\ UNCHANGED <<config, memory, stale, events, alive>>

\* writePoint asks for a poll of a value that was there before in some modes only ...
Again(p, v) ==
    \/ config[p].mode \in {"write_once", "write_once_read_once"}
    \/ config[p].mode = "write_once_then_read" /\ row[p].ov \notin {v, NoValue}

\* ... and in one of them compares it with an OriginalValue that may be nil.
Uncompared(p, v) ==
    row[p].wv = v /\ config[p].mode = "write_once_then_read" /\ row[p].ov = NoValue

UserCall(p) == alive /\ out = NoPoll /\ events < MaxEvents /\ IsWriteable(config[p].mode)

\* writePoint, between two polls: PollManager has what it does during one.
UserWrites(p, v) ==
    /\ UserCall(p) /\ (row[p].wv # v \/ Again(p, v))
    /\ row' = [row EXCEPT ![p] = [@ EXCEPT !.wv = v, !.write = TRUE,
                 !.read = config[p].mode \notin {"write_once", "write_always"}]]
    /\ events' = events + 1
    /\ UNCHANGED <<config, memory, out, stale, alive>>

UserWriteDies(p, v) ==
    /\ UserCall(p) /\ Uncompared(p, v)
    /\ alive' = FALSE /\ events' = events + 1
    /\ UNCHANGED <<config, memory, row, out, stale>>

\* The process is started anew, with the rows of the database: points that PollOnStartup
\* lets be polled at once.
Restart ==
    /\ ~alive /\ alive' = TRUE
    /\ UNCHANGED <<config, memory, row, out, stale, events>>

\* The process in the field changes a cell, of those that a point is made of, at any
\* moment.
FieldChanges(table, a, c) ==
    /\ events < MaxEvents /\ memory[table][a] # c
    /\ \E p \in Point : Table(config[p].object) = table /\ a \in Cells(config[p])
    /\ memory' = [memory EXCEPT ![table][a] = c]
    /\ stale' = stale \cup {p \in Point : /\ Table(config[p].object) = table
                                          /\ a \in Cells(config[p])}
    /\ events' = events + 1
    /\ UNCHANGED <<config, row, out, alive>>

\* The rows as addPoint leaves them.
Init ==
    /\ config \in Configs
    /\ memory = [t \in Bits \cup Registers |->
                    [a \in 0 .. LastCell |-> IF t \in Bits THEN 0 ELSE <<0, 0>>]]
    /\ row = [p \in Point |-> [read |-> TRUE, write |-> IsWriteable(config[p].mode),
                               wv |-> NoValue, ov |-> NoValue]]
    /\ out = NoPoll
    /\ stale = {}
    /\ events = 0
    /\ alive = TRUE

Poll(p) == \/ ReadFails(p) \/ BitFails(p) \/ ReadOk(p) \/ ReadThenSleep(p)
           \/ ReadThenDie(p) \/ WriteNothing(p) \/ BitUnread(p)
           \/ WriteOk(p) \/ WriteUnanswered(p) \/ WriteFails(p)

Next == \/ \E p \in Point : \/ Poll(p)
                             \/ \E v \in Wishes(config[p]) : UserWrites(p, v) \/ UserWriteDies(p, v)
        \/ Restart
        \/ \E t \in Bits, a \in 0 .. LastCell, c \in {0, 1} : FieldChanges(t, a, c)
        \/ \E t \in Registers, a \in 0 .. LastCell, c \in FieldWords : FieldChanges(t, a, c)

Spec == Init /\ [][Next]_vars

\* The poll loop goes on, a device that is asked again and again about a point that is
\* written answers, and a supervisor restarts a process that has died.
Answered(p) == /\ IsWriteable(config[p].mode)
               /\ ReadOk(p) \/ ReadThenSleep(p) \/ WriteNothing(p)
FairSpec ==
    /\ Spec /\ WF_vars(Restart)
    /\ \A p \in Point : SF_vars(Answered(p)) /\ SF_vars(WriteOk(p))
-----------------------------------------------------------------------------
\* The value of a point by the documentation: the order of schema/modbus.go:16, all
\* the registers of its type, the bit of its index.
Present(device, pt) ==
    LET t == Table(pt.object)
        bytes == Documented(pt.encoding, Raw(device, pt, Width(pt.data) \div 2))
        v == IF t \in Bits THEN Q * device[t][Address(pt)]
             ELSE IF pt.data = "mod10_u32"
             THEN Q * (Number(SubSeq(bytes, 1, 2)) * 10000 + Number(SubSeq(bytes, 3, 4)))
             ELSE Value(pt.data, bytes) IN
    IF Bitwise(pt) THEN BitOf(v, pt.bit) ELSE v

\* The rows have values and flags, and a poll sleeps only while the process lives, with a
\* value to write.
TypeOK ==
    /\ \A p \in Point : row[p] \in [read : BOOLEAN, write : BOOLEAN,
                                    wv : Wishes(config[p]) \cup {NoValue},
                                    ov : Int \cup {NoValue}]
    /\ out # NoPoll => /\ Bitwise(config[out.point]) /\ BitReadable(out.read)
                       /\ row[out.point].wv # NoValue /\ alive
    /\ stale \subseteq Point /\ alive \in BOOLEAN

\* The present value of a point is the one in the device, unless the device was
\* changed by others or by a request that failed since it was read or written: what
\* was read is decoded, and what was written is laid out, in the documented order, and
\* a write leaves the cells and bits of other points alone (utils.go:160,
\* polling.go:189).
PresentIsTrue == \A p \in Point :
    p \notin stale /\ row[p].ov # NoValue => row[p].ov = Present(memory, config[p])

\* A bitwise point's write of 0 or 1, the register still being as it was read, changes its
\* own bit of the register only: "the readResponseValue with the bit index modified"
\* (polling.go:189).  What the field changed between the two requests is written over.
OnlyTheBit ==
    [][\A p, q \in Point :
          /\ Bitwise(config[p]) /\ row[p].wv \in {0, Q}
          /\ ~Overlap(p, q) /\ CanRead(config[q])
          /\ WriteOk(p) /\ Read = ReadResponse(memory, config[p])
          => Present(memory, config[q])' = Present(memory, config[q])]_vars

-----------------------------------------------------------------------------
\* The points that the code reads and writes as it is documented.  Each part leaves
\* out one disagreement: half a float64 is read; a single register is written in the
\* order of Modbus; a bit of a coil or a float is written like one of an integer; a
\* signed value is reported as an unsigned one, and a float32 before it is narrowed.
IntegerTypes == {"uint16", "int16", "uint32", "int32", "uint64", "int64"}

ReadAsDocumented(pt) == Table(pt.object) \in Registers => pt.data # "float64"

IsBitOfRegister(pt) == Power(Base, Width(pt.data)) % Power(2, pt.bit + 1) = 0

\* What is put into the registers for v is the value that is reported.
Fits(pt, v) ==
    LET size == Power(Base, Width(pt.data)) IN
    CASE pt.data \in {"int16", "int32", "int64"} ->
            \A n \in Unsigned(Width(pt.data), v) : 2 * n < size
      [] pt.data = "float32" -> v % 2 = 0 /\ v \in -size .. size - 1
      [] OTHER -> TRUE

WrittenAsDocumented(pt) ==
    Table(pt.object) = "holding_register" \/ Bitwise(pt) =>
        /\ Width(pt.data) = 2 => pt.encoding \in {"beb_bew", "beb_lew"}
        /\ \A v \in Wishes(pt) : IF Bitwise(pt) THEN v \in {0, Q} ELSE Fits(pt, v)
        /\ Bitwise(pt) => /\ Table(pt.object) = "holding_register"
                          /\ pt.data \in IntegerTypes /\ IsBitOfRegister(pt)

\* Two bits of one register, as one and the same register.
SameRegister(x, y) ==
    Table(x.object) = Table(y.object) /\ Cells(x) \cap Cells(y) # {} =>
        x.address = y.address /\ x.data = y.data /\ x.encoding = y.encoding

AsDocumented ==
    \A f \in Configs : \A p \in Point :
        /\ ReadAsDocumented(f[p])
        /\ IsWriteable(f[p].mode) /\ CanWrite(f[p]) =>
              /\ WrittenAsDocumented(f[p])
              /\ Bitwise(f[p]) => \A q \in Point : Bitwise(f[q]) =>
                    SameRegister(f[p], f[q]) /\ IsBitOfRegister(f[q])

-----------------------------------------------------------------------------
\* The values that a point's registers can hold.
Holds(pt, v) ==
    IF Bitwise(pt) \/ Table(pt.object) = "coil" THEN v \in {0, Q}
    ELSE LET size == Power(Base, Width(pt.data)) IN
         CASE pt.data \in {"uint16", "uint32", "uint64"} -> v % Q = 0 /\ v \in 0 .. Q * size - 1
           [] pt.data \in {"int16", "int32", "int64"} ->
                 v % Q = 0 /\ 2 * v \in -(Q * size) .. Q * size - 1
           [] OTHER -> v % 2 = 0 /\ v \in -size .. size - 1

\* In the end the value that was asked for is in the device - if the point can hold it, and
\* if a bit's register can be read as bits - whatever became of the requests; and a value
\* that is maintained is then not written any more (queue_loader.go:165,
\* queue_loader.go:203).  Bits of mode write_always are never written, and a bit's
\* register is compared with the bit: maintained bits are written for ever.  Nothing is
\* said of a network without MaxPollRate that has a bit to write: its poll loop may not get
\* past that bit, which kills the process each time (polling.go:177).
Settled(p) == /\ Present(memory, config[p]) = row[p].wv
              /\ config[p].mode = "write_and_maintain" /\ ~Bitwise(config[p]) => ~row[p].write
Wished(p) ==
    /\ row[p].wv # NoValue /\ Holds(config[p], row[p].wv)
    /\ \/ config[p].mode = "write_and_maintain"
       \/ config[p].mode = "write_always" /\ ~Bitwise(config[p])
    /\ Bitwise(config[p]) => Responses(p) # {}
PollsGoOn == \A p \in Point :
    Bitwise(config[p]) /\ IsWriteable(config[p].mode) => config[p].rated
WishesArrive == <>[](PollsGoOn => \A p \in Point : Wished(p) => Settled(p))
=============================================================================
