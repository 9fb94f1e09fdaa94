----------------------------- MODULE MCRequests -----------------------------
(***************************************************************************)
(* Points for the requests: a byte of four values, so that a register has  *)
(* four bits, and a device of six cells in each table.                     *)
(***************************************************************************)
EXTENDS ModbusRequests

CONSTANTS one, two  \* the points

C(object, data, encoding, address, bit, mode) ==
    [object |-> object, data |-> data, encoding |-> encoding,
     address |-> address, bit |-> bit, mode |-> mode, rated |-> TRUE]
Unrated(pt) == [pt EXCEPT !.rated = FALSE]
Pairs(xs, ys) == {[o \in Point |-> IF o = one THEN x ELSE y] : x \in xs, y \in ys}

\* one is written, two is read from a place that one's registers cover in part, or from the
\* place behind them; the types that report what they put into the device.
Wide(mode) == {C("holding_register", d, e, 1, NoValue, mode) :
                  d \in {"uint32", "float32"}, e \in Encodings}
                \cup {C("holding_register", "int64", "leb_lew", 1, NoValue, mode)}
Narrow(mode) == {C("write_holding", d, e, 1, NoValue, mode) :
                    d \in {"uint16", "int16"}, e \in {"beb_bew", "beb_lew"}}
Behind == {C("read_holding", "uint16", "leb_bew", 3, NoValue, "read_only")}
Written == Pairs(Wide("write_and_maintain") \cup Narrow("write_once_then_read"), Behind)
             \cup Pairs({C("write_coil", "digital", "", 2, NoValue, "write_always")},
                        {C("coil", "digital", "", 2, NoValue, "read_only")})

\* Reads: every type and encoding, the edges of the device, and what a
\* bitwise point can and cannot take.
ReadTypes == {C("input_register", d, e, 1, NoValue, "read_only") :
                 d \in DataTypes \ {"float64"}, e \in Encodings}
               \cup {C("read_register", d, "beb_lew", 6, NoValue, "read_only") :
                        d \in DataTypes \ {"float64"}}
ReadBits == {C("read_discrete_input", "digital", "beb_lew", 1, NoValue, "read_only"),
             C("read_registers", "digital", "beb_lew", 1, NoValue, "read_only"),
             C("input_register", "int16", "leb_lew", 1, 1, "read_only"),
             C("holding_register", "int16", "beb_lew", 1, 1, "write_and_maintain"),
             C("holding_register", "uint16", "beb_lew", 1, 1, "write_always"),
             C("input_register", "float32", "beb_bew", 1, 3, "read_only")}
ReadOnes == Pairs(ReadTypes \cup ReadBits,
                  {C("input_register", "uint16", "leb_lew", 1, 3, "read_once")})

\* Two bits of one register, of a network with a MaxPollRate and of one without.
BitPoint(i) == C("holding_register", "uint16", "beb_lew", 1, i, "write_and_maintain")
BitPairs == Pairs({BitPoint(0)}, {BitPoint(2)})
              \cup Pairs({Unrated(BitPoint(0))}, {Unrated(BitPoint(2))})

\* Both points are written, in turns.
Arriving == Pairs({C("write_holding", "uint16", "beb_bew", 1, NoValue, "write_always"),
                   C("holding_register", "int32", "leb_bew", 1, NoValue, "write_and_maintain"),
                   C("holding_register", "uint64", "beb_lew", 1, NoValue, "write_always"),
                   C("holding_register", "float32", "leb_lew", 1, NoValue, "write_and_maintain")},
                  {C("write_coil", "digital", "", 2, NoValue, "write_and_maintain")})

MCConfigs == Written \cup ReadOnes \cup BitPairs \cup Arriving

\* For a register, a fraction and a number that has to be cut to four bits.
MCWishes(pt) == IF Bitwise(pt) \/ pt.object = "write_coil" THEN {0, Q} ELSE {0, 5 * Q + 2, 20 * Q}
MCFieldWords == {<<0, 1>>, <<2, 3>>}

\* These are points that do what is documented.
ASSUME PointsAssumption == AsDocumented
=============================================================================
