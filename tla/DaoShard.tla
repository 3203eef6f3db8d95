------------------------------ MODULE DaoShard ------------------------------
(***************************************************************************)
(* components/dao/shard and Node.GetTable: which table a row is in.  The   *)
(* table is computed from the sharding rule configured for it and the keys *)
(* of the row, Go values of various types.  Everything here is a function  *)
(* of its arguments; DaoNode gives it the configuration.                   *)
(***************************************************************************)
EXTENDS Integers, Sequences, FiniteSets

CONSTANTS Bits,      \* the width of int, int64 and uint64
          Crc(_),    \* crc32.ChecksumIEEE of a text
          DateOf     \* the local date of a Unix time

\* At least three bits.  The facts about powers hold of every such width, the 64
\* of the code included; the provers know none of their own.
ASSUME BitsAssumption ==
    /\ Bits \in Nat /\ Bits >= 3
    /\ 2 ^ (Bits - 1) \in Nat /\ 2 ^ (Bits - 1) >= 4 /\ 2 ^ Bits = 2 * 2 ^ (Bits - 1)

MaxNumKey == 2 ^ (Bits - 1) - 1

ASSUME DateAssumption ==
    \A n \in 0 .. MaxNumKey : DateOf[n] \in [y : Nat, m : 1 .. 12, d : 1 .. 31]

Unsigned(n) == n % 2 ^ Bits
Signed(n) == IF Unsigned(n) > MaxNumKey THEN Unsigned(n) - 2 ^ Bits ELSE Unsigned(n)

\* What a call comes to: an index, an error or a panic.
Ok(v) == [out |-> "ok", v |-> v]
Err == [out |-> "err", v |-> 0]
Panic == [out |-> "panic", v |-> 0]

\* The members of s at the places S, in their order.
At(s, S) ==
    [i \in 1 .. Cardinality(S) |-> s[CHOOSE k \in S : Cardinality({j \in S : j <= k}) = i]]

-----------------------------------------------------------------------------
(* Keys.  A text is what the rule that reads it sees: for the rules over    *)
(* numbers the sequence of the decimal numerals it is put together of, the  *)
(* empty one standing for everything that is not a number; for the rules    *)
(* over dates its characters, a digit being its value.                      *)

Dash == -1
Blank == -2

Integer == {"int", "int64", "uint64"}
Number(type, n) == [type |-> type, num |-> n, text |-> << >>, chars |-> << >>]
Text(type, t) == [type |-> type, num |-> 0, text |-> t, chars |-> << >>]
CharText(c) == [type |-> "string", num |-> 0, text |-> << >>, chars |-> c]

Abs(n) == IF n < 0 THEN -n ELSE n
Digits(n) == CHOOSE k \in 1 .. Bits : n < 10 ^ k /\ (k = 1 \/ n >= 10 ^ (k - 1))

IsNumeral(t) == t # << >> /\ \A k \in 2 .. Len(t) : t[k] >= 0
Magnitude(t) ==
    LET m[k \in 1 .. Len(t)] ==
            IF k = 1 THEN Abs(t[1]) ELSE m[k - 1] * 10 ^ Digits(Abs(t[k])) + Abs(t[k])
    IN m[Len(t)]
Parsed(t) == IF t[1] < 0 THEN -Magnitude(t) ELSE Magnitude(t)

\* strconv.ParseUint and strconv.ParseInt succeed.
IsUint(t) == IsNumeral(t) /\ t[1] >= 0 /\ Parsed(t) < 2 ^ Bits
IsInt(t) == IsNumeral(t) /\ Parsed(t) \in -MaxNumKey - 1 .. MaxNumKey

\* Mutant: a numeral is hashed like any other text.
ModValueMutant(k) ==
    CASE k.type \in Integer -> Ok(Unsigned(k.num))
      [] k.type \in {"string", "bytes"} -> Ok(Crc(k.text))
      [] OTHER -> Err

ModValue(k) ==
    CASE k.type \in Integer -> Ok(Unsigned(k.num))
      [] k.type = "string" /\ IsUint(k.text) -> Ok(Parsed(k.text))
      [] k.type = "string" /\ ~IsUint(k.text) -> Ok(Crc(k.text))
      [] k.type = "bytes" -> Ok(Crc(k.text))
      [] OTHER -> Err

NumValue(k) ==
    CASE k.type \in Integer -> Ok(Signed(k.num))
      [] k.type \in {"string", "bytes"} -> IF IsInt(k.text) THEN Ok(Parsed(k.text)) ELSE Panic
      [] OTHER -> Err

KeyValue(rule, k) == IF rule = "mod" THEN ModValue(k) ELSE NumValue(k)

\* The value of one key, or of the numerals of several written one after the
\* other, keys without a value left out.
Joined(rule, keys) ==
    IF Len(keys) = 1 THEN KeyValue(rule, keys[1])
    ELSE IF \E i \in 1 .. Len(keys) : KeyValue(rule, keys[i]).out = "panic" THEN Panic
    ELSE LET good == At(keys, {i \in 1 .. Len(keys) : KeyValue(rule, keys[i]).out = "ok"})
         IN KeyValue(rule, Text("string", [i \in 1 .. Len(good) |-> Signed(KeyValue(rule, good[i]).v)]))

-----------------------------------------------------------------------------
(* The rules *)

ModShard(cfg, keys) ==
    LET m == Joined("mod", keys)
    IN IF cfg.modNum = 0 \/ m.out = "panic" THEN Panic ELSE [m EXCEPT !.v = @ % cfg.modNum]

\* ParseNumSharding: the range of table i, [start, end).
NumKeyRange(cfg, i) == [start |-> Signed(i * cfg.limit), end |-> Signed((i + 1) * cfg.limit)]

\* Mutant: the end belongs to the range.
ContainsMutant(r, v) == r.start <= v /\ (r.end = MaxNumKey \/ v <= r.end)

Contains(r, v) == r.start <= v /\ (r.end = MaxNumKey \/ v < r.end)

NumRangeShard(cfg, keys) ==
    LET v == Joined("range", keys)
        in == {i \in 0 .. cfg.locations - 1 : Contains(NumKeyRange(cfg, i), v.v)}
    IN CASE cfg.locations = 0 -> Err
         [] cfg.locations > 0 /\ v.out # "ok" -> v
         [] OTHER -> IF in = {} THEN Err ELSE Ok(CHOOSE i \in in : \A k \in in : i <= k)

\* time.Format("2006-01-02"): at least four digits for the year, two for the
\* month and the day.
YearText(y) ==
    IF y <= 9999 THEN <<y \div 1000, (y \div 100) % 10, (y \div 10) % 10, y % 10>>
    ELSE [i \in 1 .. Digits(y) |-> (y \div 10 ^ (Digits(y) - i)) % 10]
Format(d) ==
    YearText(d.y) \o <<Dash, d.m \div 10, d.m % 10, Dash, d.d \div 10, d.d % 10>>

\* Mutant: the month is cut one character too early.
CutMutant(rule, c) ==
    SubSeq(c, 1, 4) \o (IF rule = "date_year" THEN << >> ELSE SubSeq(c, 5, 6))
                    \o (IF rule = "date_day" THEN SubSeq(c, 9, 10) ELSE << >>)

\* [:4], [5:7] and [8:10] of a date, as many of them as the rule uses.
Cut(rule, c) ==
    SubSeq(c, 1, 4) \o (IF rule = "date_year" THEN << >> ELSE SubSeq(c, 6, 7))
                    \o (IF rule = "date_day" THEN SubSeq(c, 9, 10) ELSE << >>)

\* strconv.Atoi: digits, with a sign or without.
Decimal(t) ==
    LET m[k \in 1 .. Len(t)] == IF k = 1 THEN t[1] ELSE 10 * m[k - 1] + t[k]
    IN m[Len(t)]
Atoi(t) ==
    LET minus == t # << >> /\ t[1] = Dash
        u == IF minus THEN Tail(t) ELSE t
    IN IF u = << >> \/ \E k \in 1 .. Len(u) : u[k] \notin 0 .. 9 THEN Err
       ELSE Ok(IF minus THEN -Decimal(u) ELSE Decimal(u))

\* The date a key gives.  The year rule takes the year of a time as it is, and
\* panics over a text too short for its slice; the others cut the formatted
\* date of a time as they cut a text.
DateKey(rule, k) ==
    LET short == Len(k.chars) < (IF rule = "date_year" THEN 4 ELSE 10)
    IN CASE k.type \in Integer ->
               IF rule = "date_year" THEN Ok(DateOf[Signed(k.num)].y)
               ELSE Atoi(Cut(rule, Format(DateOf[Signed(k.num)])))
         [] k.type = "string" ->
               IF short THEN (IF rule = "date_year" THEN Panic ELSE Err)
               ELSE Atoi(Cut(rule, k.chars))
         [] OTHER -> Err

\* Only the first key counts.
DateShard(rule, keys) == IF keys = << >> THEN Panic ELSE DateKey(rule, keys[1])

ShardConfig == [table : STRING, type : STRING, modNum : Nat, locations : Nat, limit : Nat]

Rules == {"mod", "range", "date_day", "date_month", "date_year"}

FindForKey(cfg, keys) ==
    CASE cfg.type = "mod" -> ModShard(cfg, keys)
      [] cfg.type = "range" -> NumRangeShard(cfg, keys)
      [] OTHER -> DateShard(cfg.type, keys)

\* A rule of unknown type is left out, and the ones after it move up.
ParseShard(cfgs) == At(cfgs, {k \in 1 .. Len(cfgs) : cfgs[k].type \in Rules})

\* GetTable: the rule is looked up in the configuration, and used from what
\* ParseShard made of it; a table without a rule has no index.
GetTable(cfgs, shards, table, keys) ==
    LET found == {k \in 1 .. Len(cfgs) : cfgs[k].table = table}
        k == CHOOSE x \in found : \A y \in found : x <= y
    IN IF found = {} THEN [out |-> "plain", v |-> 0]
       ELSE IF k > Len(shards) THEN Panic ELSE FindForKey(shards[k], keys)
=============================================================================
