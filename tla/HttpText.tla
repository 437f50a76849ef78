------------------------------ MODULE HttpText ------------------------------
(***************************************************************************)
(* The text functions of malloy: core/utils.hpp, core/http/utils.hpp, the  *)
(* cookies and basic authentication that are read with them, and the three *)
(* form encodings of core/html.                                            *)
(*                                                                         *)
(* A text is a sequence of byte values.  Values above 255 stand for the    *)
(* literals of the protocols, each of which counts as one character;       *)
(* positions count from 0, as in the code.                                 *)
(***************************************************************************)
EXTENDS Integers, Sequences, FiniteSets, SequencesExt

CONSTANT None  \* std::nullopt, and what an exception leaves of a result

CR == 13
LF == 10
Space == 32
Quote == 34
Percent == 37
Ampersand == 38
Plus == 43
Dash == 45
Colon == 58
Semicolon == 59
Equals == 61

Disposition == 300    \* "Content-Disposition: "
TypeHeader == 301     \* "Content-Type: "
FormDataType == 302   \* "form-data"
NameKey == 303        \* "name="
FilenameKey == 304    \* "filename="
BoundaryKey == 305    \* "boundary"
UrlType == 306        \* "application/x-www-form-urlencoded"
MultipartType == 307  \* "multipart/form-data"
PlainType == 308      \* "text/plain"
PasswordType == 309   \* "password"
FileType == 310       \* "file"
BasicMethod == 311    \* "Basic"
ExpiresKey == 312     \* "Expires=" with a date
MaxAgeKey == 313      \* "Max-Age=" with a number
DomainKey == 314      \* "Domain=" with a name
PathKey == 315        \* "Path=" with a path
SameSiteKey == 316    \* "SameSite=" with its value
SecureFlag == 317     \* "Secure"
HttpOnlyFlag == 318   \* "HttpOnly"

Npos == -1

Text == Seq(Nat)

\* It is no text, and no record that is made of texts here.
ASSUME NoneAssumption ==
  /\ None \notin Text
  /\ None \notin [method : Text, decoded : Text] \cup [method : Text, username : Text, password : Text]
  /\ None \notin [disposition : Text, type : Text, content : Text]
  /\ None \notin [name : Text, filename : Text, type : Text, content : Text]

\* The members of s at some of its positions, in order.
Subsequence(s, positions) ==
  LET Nth(k) == CHOOSE i \in positions : Cardinality({j \in positions : j <= i}) = k
  IN  [k \in 1..Cardinality(positions) |-> s[Nth(k)]]

-----------------------------------------------------------------------------
(* core/utils.hpp and core/http/utils.hpp.                                 *)

\* std::string_view::find().
Find(s, pattern, from) ==
  LET hits == {p \in from..(Len(s) - Len(pattern)) : SubSeq(s, p + 1, p + Len(pattern)) = pattern}
  IN  IF hits = {} THEN Npos ELSE CHOOSE p \in hits : \A q \in hits : p <= q

\* split(): a delimiter at the very start is dropped, and one at the very end.
Split(s, d) ==
  LET From[pos \in 0..Len(s)] ==
        LET found == Find(s, d, pos)
            part == <<SubSeq(s, pos + 1, IF found = Npos THEN Len(s) ELSE found)>>
        IN  IF found = 0 THEN From[Len(d)]
            ELSE IF found = Npos \/ found + Len(d) >= Len(s) THEN part
            ELSE part \o From[found + Len(d)]
  IN  IF s = <<>> THEN <<>> ELSE IF d = <<>> THEN <<s>> ELSE From[0]

SplitHeaderValue(value) == Split(value, <<Semicolon, Space>>)

\* The two halves of key=value, <<>> if there are not exactly two.
Pair(s) == LET parts == Split(s, <<Equals>>) IN IF Len(parts) = 2 THEN parts ELSE <<>>

\* Mutant: letters count from 0.
HexFromZero(c) == CASE c \in 48..57 -> c - 48
                    [] c \in 97..102 -> c - 97
                    [] c \in 65..70 -> c - 65
                    [] OTHER -> c

Hex2Dec(c) == CASE c \in 48..57 -> c - 48
                [] c \in 97..102 -> c - 97 + 10
                [] c \in 65..70 -> c - 65 + 10
                [] OTHER -> c

\* x | y of two bytes.
BitOr(x, y) ==
  LET Bit(w) == IF (x \div w) % 2 = 1 \/ (y \div w) % 2 = 1 THEN w ELSE 0
  IN  Bit(1) + Bit(2) + Bit(4) + Bit(8) + Bit(16) + Bit(32) + Bit(64) + Bit(128)

\* url_decode().  A + stays one.  Nothing says that two characters follow a %: the
\* first one past the end is the terminating 0, the second is what lies behind
\* (`past').
UrlDecode(s, past) ==
  LET At(r) == IF r < Len(s) THEN s[r + 1] ELSE IF r = Len(s) THEN 0 ELSE past
      From[r \in 0..(Len(s) + 2)] ==
        IF r >= Len(s) THEN <<>>
        ELSE IF At(r) # Percent THEN <<At(r)>> \o From[r + 1]
        ELSE <<BitOr((Hex2Dec(At(r + 1)) * 16) % 256, Hex2Dec(At(r + 2)))>> \o From[r + 3]
  IN  From[0]

\* cookie_value(): `cookies' are the values of the Cookie fields of a header,
\* of which find() gives the first.
CookieValue(cookies, name) ==
  LET pairs == IF cookies = <<>> THEN <<>> ELSE SplitHeaderValue(cookies[1])
      hits == {k \in DOMAIN pairs : Pair(pairs[k]) # <<>> /\ Pair(pairs[k])[1] = name}
  IN  IF hits = {} THEN None ELSE Pair(pairs[CHOOSE k \in hits : \A l \in hits : k <= l])[2]

\* request::cookie(): the constructor of request takes each Cookie field for one
\* cookie, up to the first delimiter the name and all the rest the value; the
\* last one of a name stays.  <<>> if there is none.
RequestCookie(cookies, name) ==
  LET hits == {k \in DOMAIN cookies : /\ Find(cookies[k], <<Equals>>, 0) # Npos
                                      /\ SubSeq(cookies[k], 1, Find(cookies[k], <<Equals>>, 0)) = name}
      field == cookies[CHOOSE k \in hits : \A l \in hits : l <= k]
  IN  IF hits = {} THEN <<>> ELSE SubSeq(field, Find(field, <<Equals>>, 0) + 2, Len(field))

-----------------------------------------------------------------------------
(* core/http/cookie.cpp.  Of a Domain and a Path it matters whether they   *)
(* are there: they are others than what the browser takes without them.    *)

Cookie == [name : Text, value : Text, expires : {"", "past", "later"}, max_age : Int,
           domain : BOOLEAN, path : BOOLEAN, secure : BOOLEAN, http_only : BOOLEAN,
           same_site : {"strict", "lax", "none"}]

\* cookie_clear: a date in the past, everything else as a new cookie has it, so
\* no Domain and no Path, and only for https.
CookieClear(name) ==
  [name |-> name, value |-> <<>>, expires |-> "past", max_age |-> 0, domain |-> FALSE,
   path |-> FALSE, secure |-> TRUE, http_only |-> TRUE, same_site |-> "strict"]

\* session::generate_cookie().
GenerateCookie(name, id) == [CookieClear(name) EXCEPT !.value = id, !.expires = ""]

\* Mutant: only what the user asked for.
SecureAsAsked(c) == c.secure

\* A cookie for other sites is always secure.
IsSecure(c) == c.secure \/ c.same_site = "none"

\* to_string().
CookieToString(c) ==
  LET Attribute(given, text) == IF given THEN Append(text, Semicolon) ELSE <<>>
  IN  c.name \o <<Equals>> \o c.value \o <<Semicolon>>
      \o Attribute(c.expires # "", <<ExpiresKey>>)
      \o Attribute(c.max_age # 0, <<MaxAgeKey>>)
      \o Attribute(c.domain, <<DomainKey>>)
      \o Attribute(c.path, <<PathKey>>)
      \o Attribute(TRUE, <<SameSiteKey>>)
      \o Attribute(IsSecure(c), <<SecureFlag>>)
      \o Attribute(c.http_only, <<HttpOnlyFlag>>)

-----------------------------------------------------------------------------
(* server/auth/basic.hpp.                                                  *)

\* Mutant: the password is not looked at.
UserOnly(parsed, username, password) == parsed.method = <<BasicMethod>> /\ parsed.username = username

\* The comparison of basic::operator().
Authorised(parsed, username, password) ==
  /\ parsed.method = <<BasicMethod>> /\ parsed.username = username /\ parsed.password = password

\* out.erase(): a 0 and what follows it are cut off.
UpToZero(s) == LET zero == Find(s, <<0>>, 0) IN IF zero = Npos THEN s ELSE SubSeq(s, 1, zero)

\* parse_auth_field() of a field with a method and a text that the decoder
\* (external) turns into `decoded', None if it throws std::invalid_argument.
ParseAuthField(field) ==
  LET parts == IF field.decoded = None THEN <<>> ELSE Split(UpToZero(field.decoded), <<Colon>>)
  IN  IF Len(parts) # 2 THEN None
      ELSE [method |-> field.method, username |-> parts[1], password |-> parts[2]]

\* operator(): whether the request goes on; it is answered with 401 otherwise.
\* `field' is None if the header has no Authorization field.
Admits(field, username, password) ==
  /\ field # None
  /\ ParseAuthField(field) # None
  /\ Authorised(ParseAuthField(field), username, password)

-----------------------------------------------------------------------------
(* core/html/multipart_parser.cpp.                                         *)

BoundaryLine(boundary) == <<Dash, Dash>> \o boundary \o <<CR, LF>>
LastBoundaryLine(boundary) == <<Dash, Dash>> \o boundary \o <<Dash, Dash>>

\* Where the boundary lines begin, the last one included, <<>> if there is none
\* or no last one.
BoundaryStarts(body, boundary) ==
  LET line == BoundaryLine(boundary)
      From[pos \in 0..Len(body)] ==
        LET found == Find(body, line, pos)
        IN  IF found = Npos THEN <<>> ELSE <<found>> \o From[found + Len(line)]
      starts == From[0]
      end == IF starts = <<>> THEN Npos ELSE Find(body, LastBoundaryLine(boundary), Last(starts))
  IN  IF end = Npos THEN <<>> ELSE Append(starts, end)

\* Mutant: the line end after the value is left on.
ContentWithLineEnd(raw, counted) == SubSeq(raw, counted + 1, Len(raw))

\* substr(char_counter, size - char_counter - 2): the line end is dropped, if
\* there are two characters to drop (the subtraction wraps around otherwise).
Content(raw, counted) ==
  SubSeq(raw, counted + 1, IF Len(raw) - counted >= 2 THEN Len(raw) - 2 ELSE Len(raw))

\* parse_part(): the header lines are counted with two characters for each line
\* end; if that is more than there is, substr() throws.
ParsePart(raw) ==
  LET UpToEmpty(lines) == LET empty == {i \in DOMAIN lines : lines[i] = <<>>}
                          IN  IF empty = {} THEN lines
                              ELSE SubSeq(lines, 1, CHOOSE i \in empty : \A j \in empty : i <= j)
      Counted(lines) == Len(FlattenSeq([i \in DOMAIN lines |-> lines[i] \o <<CR, LF>>]))
      Header(lines, key) == LET at == {i \in DOMAIN lines : IsPrefix(<<key>>, lines[i])}
                            IN  IF at = {} THEN <<>> ELSE Tail(lines[CHOOSE i \in at : \A j \in at : i >= j])
      PartOf(lines) == IF Counted(lines) > Len(raw) THEN None
                       ELSE [disposition |-> Header(lines, Disposition), type |-> Header(lines, TypeHeader),
                             content |-> Content(raw, Counted(lines))]
  IN  PartOf(UpToEmpty(Split(raw, <<CR, LF>>)))

\* multipart_parser::parse(): the parts that are not empty.
ParseParts(body, boundary) ==
  LET starts == IF boundary = <<>> THEN <<>> ELSE BoundaryStarts(body, boundary)
      raw == [i \in 1..(Len(starts) - 1) |->
                SubSeq(body, starts[i] + Len(BoundaryLine(boundary)) + 1, starts[i + 1])]
      full == Subsequence(raw, {i \in DOMAIN raw : raw[i] # <<>>})
  IN  [i \in DOMAIN full |-> ParsePart(full[i])]

\* The boundary that a Content-Type names last.
BoundaryOf(type) ==
  LET parts == SplitHeaderValue(type)
      named == {i \in DOMAIN parts : IsPrefix(<<BoundaryKey>>, parts[i]) /\ Pair(parts[i]) # <<>>}
  IN  IF named = {} THEN <<>> ELSE Pair(parts[CHOOSE i \in named : \A j \in named : i >= j])[2]

-----------------------------------------------------------------------------
(* core/html/form.cpp: form_data is a sequence of form_field_data.         *)

FormFieldData == [name : Text, filename : Text, type : Text, content : Text]
FieldData(name, filename, type, content) ==
  [name |-> name, filename |-> filename, type |-> type, content |-> content]

\* The value of a key of a disposition without its first and last character;
\* <<>> if the key is not there.
Quoted(disposition, key) ==
  LET parts == SplitHeaderValue(disposition)
      at == {i \in DOMAIN parts : IsPrefix(<<key>>, parts[i])}
  IN  IF at = {} THEN <<>>
      ELSE LET p == parts[CHOOSE i \in at : \A j \in at : i >= j] IN SubSeq(p, 3, Len(p) - 1)

\* substr() throws for a key with nothing behind it.
Malformed(disposition) == \E p \in Range(SplitHeaderValue(disposition)) : p \in {<<NameKey>>, <<FilenameKey>>}

\* The pieces that are pairs.
PairsOf(pieces) == Subsequence(pieces, {i \in DOMAIN pieces : Pair(pieces[i]) # <<>>})

ParseUrlencoded(body, past) ==
  LET pairs == PairsOf(Split(body, <<Ampersand>>))
  IN  [i \in DOMAIN pairs |-> FieldData(Pair(pairs[i])[1], <<>>, <<>>, UrlDecode(Pair(pairs[i])[2], past))]

ParsePlain(body) ==
  LET pairs == PairsOf(Split(body, <<CR, LF>>))
  IN  [i \in DOMAIN pairs |-> FieldData(Pair(pairs[i])[1], <<>>, <<>>, Pair(pairs[i])[2])]

\* A part without a name spoils the whole form.
MultipartData(parts) ==
  LET bad(p) == p = None \/ Malformed(p.disposition) \/ Quoted(p.disposition, NameKey) = <<>>
  IN  IF \E i \in DOMAIN parts : bad(parts[i]) THEN None
      ELSE [i \in DOMAIN parts |-> FieldData(Quoted(parts[i].disposition, NameKey),
                                             Quoted(parts[i].disposition, FilenameKey),
                                             parts[i].type, parts[i].content)]

ParseMultipart(body, type) == MultipartData(ParseParts(body, BoundaryOf(type)))

EncodingToString(enc) == CASE enc = "url" -> <<UrlType>>
                           [] enc = "multipart" -> <<MultipartType>>
                           [] enc = "plain" -> <<PlainType>>

EncodingFromString(type) == CASE type = <<UrlType>> -> "url"
                              [] MultipartType \in Range(type) -> "multipart"
                              [] type = <<PlainType>> -> "plain"
                              [] OTHER -> None

\* form::parse().
Parse(type, body, past) ==
  CASE EncodingFromString(type) = "url" -> ParseUrlencoded(body, past)
    [] EncodingFromString(type) = "multipart" -> ParseMultipart(body, type)
    [] EncodingFromString(type) = "plain" -> ParsePlain(body)
    [] OTHER -> None

\* form_data::field_by_name(): the first one; and content().
FieldByName(data, name) ==
  LET at == {i \in DOMAIN data : data[i].name = name}
  IN  IF at = {} THEN None ELSE data[CHOOSE i \in at : \A j \in at : i <= j]

ContentOf(data, name) == LET field == FieldByName(data, name)
                         IN  IF field = None \/ field.content = <<>> THEN None ELSE field.content
=============================================================================
