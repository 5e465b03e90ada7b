--------------------------- MODULE RequestValues ----------------------------
(***************************************************************************)
(* httputil.RequestValues (internal/httputil/request.go): how the handlers *)
(* of the secret zones find a named value in a request.  Names can be      *)
(* given in the body, as a form or as JSON, and in the URL's query, more   *)
(* than once each.                                                         *)
(*                                                                         *)
(* A request is a record: its method, the media type of its body, the body *)
(* and the query.  A body is what its bytes mean to each of its readers:   *)
(* the values of each name in the order of a form or of the text of a JSON *)
(* object, the bytes that could be read as one string, and whether reading *)
(* ended with an error after that string.                                  *)
(***************************************************************************)
EXTENDS Naturals, Sequences

CONSTANTS NotString,   \* a JSON value that is no string
          None

Method == {"GET", "POST", "PUT", "DELETE"}
MediaType == {"form", "json", "none", "other"}
Name == {"secret", "value"}

NoValues == [n \in Name |-> <<>>]

FormBody(v) == [form |-> v, json |-> NoValues, text |-> "form", broken |-> FALSE]
JsonBody(v) == [form |-> NoValues, json |-> v, text |-> "json", broken |-> FALSE]
TextBody(s) == [form |-> NoValues, json |-> NoValues, text |-> s, broken |-> FALSE]
BrokenBody(s) == [TextBody(s) EXCEPT !.broken = TRUE]

(* Form() and JSONObject() fail with Body(); BodyText()'s error is dropped *)
(* by the handlers that call it.                                           *)
ReadsBody(q) == q.method # "GET" /\ q.type \in {"form", "none", "json"}

(* Mutant of JSONObject: the first value of a name stays.                  *)
JSONObjectFirst(body) ==
    [n \in Name |-> LET v == body.json[n] IN IF v = <<>> THEN <<>> ELSE <<v[1]>>]

(* JSONObject(): json.Unmarshal into a map, in which the last of the values*)
(* of a name takes the place of those before it.                           *)
JSONObject(body) ==
    [n \in Name |-> LET v == body.json[n] IN IF v = <<>> THEN <<>> ELSE <<v[Len(v)]>>]

(* Values(key): those of the body first, then those of the query.          *)
Values(q, name) ==
    LET body == IF ~ReadsBody(q) THEN <<>>
                ELSE IF q.type = "json" THEN JSONObject(q.body)[name]
                ELSE q.body.form[name]
    IN  body \o q.query[name]

ReadFails(q) == ReadsBody(q) /\ q.body.broken

-----------------------------------------------------------------------------
(* Mutants of scan: a later string that differs is passed over; a value    *)
(* that is no string is passed over.                                       *)
scanFirst(r, v) ==
    IF r.err # None /\ r.found THEN r
    ELSE IF v = NotString THEN [r EXCEPT !.err = "unexpected"]
    ELSE IF ~r.found THEN [r EXCEPT !.str = v, !.found = TRUE]
    ELSE r
scanStringsOnly(r, v) ==
    IF (r.err # None /\ r.found) \/ v = NotString THEN r
    ELSE IF ~r.found THEN [r EXCEPT !.str = v, !.found = TRUE]
    ELSE IF v # r.str THEN [r EXCEPT !.err = "ambiguous"]
    ELSE r

(* One value in the loop of GetString, which ends once it has a string and *)
(* an error.                                                               *)
scan(r, v) ==
    IF r.err # None /\ r.found THEN r
    ELSE IF v = NotString THEN [r EXCEPT !.err = "unexpected"]
    ELSE IF ~r.found THEN [r EXCEPT !.str = v, !.found = TRUE]
    ELSE IF v # r.str THEN [r EXCEPT !.err = "ambiguous"]
    ELSE r

(* GetString(key): "" with no error when there is no value.                *)
GetString(q, name) ==
    LET vals == Values(q, name)
        upTo[n \in 0 .. Len(vals)] ==
            IF n = 0 THEN [str |-> "", found |-> FALSE, err |-> None]
            ELSE scan(upTo[n - 1], vals[n])
    IN  IF ReadFails(q) THEN [str |-> "", found |-> FALSE, err |-> "read"]
        ELSE upTo[Len(vals)]
=============================================================================
