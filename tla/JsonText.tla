------------------------------ MODULE JsonText ------------------------------
(***************************************************************************)
(* The texts clients send and what deserialize makes of them               *)
(* (include/service_host/network_serializer.hpp) for the structures of     *)
(* dataframe.hpp.  A text is a JSON value or it is Raw; a JSON string holds *)
(* a text, which is how a command travels inside a message.  Numbers keep  *)
(* the width of MotorWire's words, as int, uint32_t and int32_t all do.    *)
(***************************************************************************)
EXTENDS MotorWire

Raw(s)  == [raw |-> s]       \* a text that is no JSON: "", "version", "{"
Str(t)  == [str |-> t]       \* a string that holds the text t
Num(n)  == [num |-> n]
Frac(n) == [frac |-> n]      \* a number with a fraction, n without it
Bool(b) == [bool |-> b]
Arr(s)  == [arr |-> s]
Obj(f)  == [obj |-> f]

\* Bytes that are no UTF-8 either.
Mojibake == Raw("\\xff")

Is(type, v) == type \in DOMAIN v

-----------------------------------------------------------------------------
(* deserialize<T> throws unless the keys are exactly T's members and every *)
(* value converts to its member's type.                                    *)

Message        == [id |-> "int", text |-> "string"]
Manager        == [command |-> "string", message |-> "string"]
Device         == [deviceId |-> "int"]
MotorFields    == [number |-> "int", acceleration |-> "uint32_t",
                   maxSpeed |-> "uint32_t", step |-> "int32_t"]
MotorsSettings == [mode |-> "string", motors |-> "std::vector<mms::Motor>"]

\* get<int>() takes any arithmetic value, true and false and fractions too.
Arithmetic(v) == Is("num", v) \/ Is("frac", v) \/ Is("bool", v)

Converts(type, v) ==
    CASE type = "string" -> Is("str", v)
      [] type \in {"int", "uint32_t", "int32_t"} -> Arithmetic(v)

Members(struct, text) == Is("obj", text) /\ DOMAIN text.obj = DOMAIN struct

Plain(struct, text) ==
    Members(struct, text) /\ \A f \in DOMAIN struct : Converts(struct[f], text.obj[f])

\* judge.hpp tells a value, a structure and a vector apart.  Of the structures
\* clients send one has a vector, of structures that hold values only.
ElementOf == [t \in {"std::vector<mms::Motor>"} |-> MotorFields]
is_valid_vector_t(type) == type \in DOMAIN ElementOf

Parses(struct, text) ==
    /\ Members(struct, text)
    /\ \A f \in DOMAIN struct :
        LET v == text.obj[f]
        IN  IF is_valid_vector_t(struct[f])
            THEN Is("arr", v) /\ \A i \in DOMAIN v.arr : Plain(ElementOf[struct[f]], v.arr[i])
            ELSE Converts(struct[f], v)

\* serialize of a structure that quotes the text: dump() throws on what is no
\* UTF-8, and nothing else can go wrong.
serializes(text) == text # Mojibake

\* The number a value stands for, before it is put into a member.
Numeral(v) ==
    CASE Is("num", v) -> v.num
      [] Is("frac", v) -> v.frac
      [] Is("bool", v) -> IF v.bool THEN 1 ELSE 0

\* static_cast to the member's type: what does not fit wraps around.
Get(type, v) ==
    IF type = "uint32_t" THEN Unsigned(Numeral(v)) ELSE Signed(Unsigned(Numeral(v)))

deserializeMotors(settings) ==
    [i \in DOMAIN settings.obj.motors.arr |->
        [f \in DOMAIN MotorFields |-> Get(MotorFields[f], settings.obj.motors.arr[i].obj[f])]]
=============================================================================
