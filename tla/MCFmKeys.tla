------------------------------ MODULE MCFmKeys -------------------------------
(* Keys of two columns for FmKeys: every type before and after a VARCHAR    *)
(* that may be NULL, with values that differ in case, in trailing spaces,   *)
(* behind a key prefix, and in what a shorter value leaves of a longer one. *)
EXTENDS FmKeys

Column(type, length, charset, bits, enum, null) ==
    [type |-> type, length |-> length, charset |-> charset, bits |-> bits, enum |-> enum,
     null |-> null]

\* The bytes of each kind of column; 201 is the second byte of a character.
BytesOf(type, charset) ==
    CASE type = "TEXT" /\ charset = "latin1" ->
            {<<97, 32, 32>>, <<65, 32, 97>>, <<97, 97, 65>>}
      [] type = "TEXT" -> {<<97, 200, 201, 32>>, <<65, 200, 201, 97>>, <<200, 201, 32, 32>>}
      [] type = "VARTEXT1" -> {<<1, 97, 0, 0>>, <<2, 65, 32, 97>>, <<3, 97, 97, 65>>}
      [] type = "VARTEXT2" -> {<<3, 0, 97, 200, 201, 0>>, <<4, 0, 65, 200, 201, 97>>,
                               <<1, 0, 97, 200, 201, 32>>}
      [] type = "VARBINARY1" -> {<<1, 97, 32, 0>>, <<2, 97, 32, 0>>, <<3, 97, 32, 97>>}
      [] type = "VARBINARY2" -> {<<0, 0, 97, 97>>, <<2, 0, 97, 97>>}
      [] OTHER -> {<<7, 97>>, <<7, 65>>}

MCImagesOf(col) ==
    [null : IF col.null THEN BOOLEAN ELSE {FALSE},
     bits : IF col.bits > 0 THEN {0, 5} ELSE {0},
     bytes : BytesOf(col.type, col.charset)]

Columns(null) ==
    {Column("TEXT", 2, "latin1", 0, FALSE, null), Column("TEXT", 4, "utf8", 0, FALSE, null),
     Column("VARTEXT1", 2, "latin1", 0, FALSE, null),
     Column("VARTEXT2", 4, "utf8", 0, FALSE, null),
     Column("VARBINARY1", 2, "bin", 0, FALSE, null),
     Column("VARBINARY2", 2, "bin", 0, FALSE, null),
     Column("LONG", 2, "latin1", 0, FALSE, null), Column("BINARY", 1, "utf8", 0, TRUE, null),
     Column("BIT", 2, "bin", 3, FALSE, null), Column("BIT", 1, "bin", 0, FALSE, null)}

Varchar == Column("VARTEXT1", 2, "latin1", 0, FALSE, TRUE)
Long == Column("LONG", 2, "latin1", 0, FALSE, TRUE)
MCKeyColumns ==
    {<<c, Varchar>> : c \in Columns(TRUE)} \union {<<Varchar, c>> : c \in Columns(FALSE)}
        \union {<<c, Long>> : c \in Columns(FALSE)}

\* TLC evaluates these once, before it explores the states of FmIndex.
ASSUME ValuesAssumption == KeysAreValues
ASSUME PackedAssumption == PackedKeysAgree
ASSUME MadeAssumption == MadeKeysAgree
ASSUME LastkeyAssumption == LastkeyFits
=============================================================================
