---------------------------- MODULE HttpContent ----------------------------
(***************************************************************************)
(* What a handler and a policy get out of a request, and what a browser    *)
(* made of it: form data in the three encodings, cookies, credentials; and *)
(* the html::form that a handler keeps from one request to the next        *)
(* (core/html/form.cpp, form_field.hpp, form_renderer.cpp).                *)
(*                                                                         *)
(* The browser is external.  It writes a space as + and percent-encodes    *)
(* everything but letters, digits and * - . _ (the URL standard's          *)
(* application/x-www-form-urlencoded), ends every line and part with CR    *)
(* LF, and names a boundary that no content contains.  It keeps cookies by *)
(* name, Domain and Path (RFC 6265), heeds Max-Age before Expires, takes a *)
(* secure cookie over https only and one for other sites only if it is     *)
(* secure, and sends what it keeps in an order of its own.                 *)
(***************************************************************************)
EXTENDS HttpText

CONSTANTS Names,       \* names of fields and cookies, as texts
          Contents,    \* what a user types into a form that is kept
          Entries,     \* forms as filled in, for parsing alone
          Jars,        \* sequences of Set-Cookie fields
          Credentials, \* texts that are user names and passwords
          Boundary

ASSUME TextsAssumption == /\ Names \cup Contents \cup Credentials \subseteq Text
                          /\ Entries \subseteq Seq(FormFieldData)
                          /\ Jars \subseteq Seq(Cookie)
                          /\ Boundary \in Text

\* A boundary is of letters, digits and a few others (RFC 2046).
ASSUME BoundaryAssumption == Boundary # <<>> /\ {CR, LF, Equals, Semicolon} \cap Range(Boundary) = {}

VARIABLES
  fields,   \* m_fields of a form
  data,     \* the form_data parsed last, None before
  shown,    \* <<name, content>> populated since the values were cleared
  asked,    \* what was asked of the functions, Idle if nothing
  answer    \* theirs

contentvars == <<fields, data, shown, asked, answer>>

Idle == [kind |-> "idle"]
Encodings == {"url", "multipart", "plain"}
HtmlTypes == {<<>>, <<PasswordType>>}
Field(name, type, value) == [name |-> name, type |-> type, value |-> value]

Joined(parts, d) ==
  FlattenSeq([i \in DOMAIN parts |-> IF i = Len(parts) THEN parts[i] ELSE parts[i] \o d])

-----------------------------------------------------------------------------
(* The browser.                                                            *)

Hex(n) == IF n < 10 THEN 48 + n ELSE 65 + n - 10
Plain == {42, 45, 46, 95} \cup 48..57 \cup 65..90 \cup 97..122
PercentEncode(s) ==
  FlattenSeq([i \in DOMAIN s |-> CASE s[i] = Space -> <<Plus>>
                                   [] s[i] \in Plain -> <<s[i]>>
                                   [] OTHER -> <<Percent, Hex(s[i] \div 16), Hex(s[i] % 16)>>])

\* What is between two boundary lines.
Enclosed(e) == <<Disposition, FormDataType, Semicolon, Space, NameKey, Quote>> \o e.name \o <<Quote>>
               \o (IF e.filename = <<>> THEN <<>>
                   ELSE <<Semicolon, Space, FilenameKey, Quote>> \o e.filename \o <<Quote>>)
               \o <<CR, LF>>
               \o (IF e.type = <<>> THEN <<>> ELSE <<TypeHeader>> \o e.type \o <<CR, LF>>)
               \o <<CR, LF>> \o e.content \o <<CR, LF>>

Part(e) == BoundaryLine(Boundary) \o Enclosed(e)

FormBody(enc, es) ==
  CASE enc = "url" -> Joined([i \in DOMAIN es |-> PercentEncode(es[i].name) \o <<Equals>> \o PercentEncode(es[i].content)],
                             <<Ampersand>>)
    [] enc = "plain" -> FlattenSeq([i \in DOMAIN es |-> es[i].name \o <<Equals>> \o es[i].content \o <<CR, LF>>])
    [] enc = "multipart" -> FlattenSeq([i \in DOMAIN es |-> Part(es[i])]) \o LastBoundaryLine(Boundary)

ContentType(enc) == IF enc # "multipart" THEN EncodingToString(enc)
                    ELSE EncodingToString(enc) \o <<Semicolon, Space, BoundaryKey, Equals>> \o Boundary

\* What the Set-Cookie text of c says.
Attributes(c) == Range(CookieToString(c))
Taken(c, https) == IF SecureFlag \in Attributes(c) THEN https ELSE c.same_site # "none"
Expired(c) == IF MaxAgeKey \in Attributes(c) THEN c.max_age < 0
              ELSE ExpiresKey \in Attributes(c) /\ c.expires = "past"
Replaces(c, older) ==
  c.name = older.name /\ \A key \in {DomainKey, PathKey} : key \in Attributes(c) <=> key \in Attributes(older)

\* Which of the cookies of a jar, oldest first, the browser keeps: the last one of
\* each name, Domain and Path of those that it takes, unless that one is over.
Kept(jar, https) ==
  LET taken == {i \in DOMAIN jar : Taken(jar[i], https)}
  IN  {i \in taken : ~Expired(jar[i]) /\ \A j \in taken : Replaces(jar[j], jar[i]) => j <= i}

\* The orders in which it may send them.
Orders(kept) == {order \in [1..Cardinality(kept) -> kept] : Range(order) = kept}

CookieHeader(jar, order) ==
  LET pairs == [i \in DOMAIN order |-> LET text == CookieToString(jar[order[i]])
                                       IN  SubSeq(text, 1, Find(text, <<Semicolon>>, 0))]
  IN  IF pairs = <<>> THEN <<>> ELSE <<Joined(pairs, <<Semicolon, Space>>)>>

-----------------------------------------------------------------------------
(* The form of a handler.                                                  *)

HasField(name) == \E i \in DOMAIN fields : fields[i].name = name

\* add_field(): no field without a name, and no second one of a name.
AddField(name, type) ==
  /\ name # <<>> /\ ~HasField(name)
  /\ fields' = Append(fields, Field(name, type, <<>>))
  /\ UNCHANGED <<data, shown, asked, answer>>

\* The form is sent back by a user and parsed by parse().
Submit(enc, typed) ==
  /\ fields # <<>>
  /\ \E past \in 0..1 :
       data' = Parse(ContentType(enc),
                     FormBody(enc, [i \in DOMAIN fields |->
                                  FieldData(fields[i].name, <<>>, <<>>, typed[fields[i].name])]),
                     past)
  /\ UNCHANGED <<fields, shown, asked, answer>>

\* form_field::populate() of a field by all data of its name, of which the last
\* one stays.  It skips by the type of the data, the Content-Type of a part, not
\* by that of the field.
PopulateField(field) ==
  LET filling == {j \in DOMAIN data : /\ data[j].name = field.name
                                      /\ data[j].type \notin {<<PasswordType>>, <<FileType>>}}
  IN  IF filling = {} THEN field
      ELSE [field EXCEPT !.value = data[CHOOSE j \in filling : \A k \in filling : k <= j].content]

\* populate().
Populate ==
  /\ data # None
  /\ fields' = [i \in DOMAIN fields |-> PopulateField(fields[i])]
  /\ shown' = shown \cup {<<data[i].name, data[i].content>> : i \in DOMAIN data}
  /\ UNCHANGED <<data, asked, answer>>

\* Mutant: the last field is passed over.
ClearedButLast(fs) == [i \in DOMAIN fs |-> IF i = Len(fs) /\ i > 1 THEN fs[i] ELSE [fs[i] EXCEPT !.value = <<>>]]

Cleared(fs) == [i \in DOMAIN fs |-> [fs[i] EXCEPT !.value = <<>>]]

ClearValues == /\ fields' = Cleared(fields)
               /\ shown' = {}
               /\ UNCHANGED <<data, asked, answer>>

\* render(): the value of every field that is not a button.
Rendered == {<<fields[i].name, fields[i].value>> : i \in DOMAIN fields}

-----------------------------------------------------------------------------
(* Questions that depend on the request alone; they are put while there is *)
(* no form, as forms have no part in them.                                 *)

Ask(question, result) == /\ asked' = question /\ answer' = result
                         /\ UNCHANGED <<fields, data, shown>>

ParseForm(enc, es) ==
  \E past \in 0..1 : Ask([kind |-> "form", enc |-> enc, entries |-> es],
                         Parse(ContentType(enc), FormBody(enc, es), past))

ReadCookie(jar, https, name) ==
  \E order \in Orders(Kept(jar, https)) :
    Ask([kind |-> "cookie", jar |-> jar, https |-> https, name |-> name],
        [value |-> CookieValue(CookieHeader(jar, order), name),
         request |-> RequestCookie(CookieHeader(jar, order), name)])

\* A user who types u and p asks for what belongs to user name w and password q.
Authorise(u, p, w, q) ==
  Ask([kind |-> "auth", typed |-> <<u, p>>, configured |-> <<w, q>>],
      Admits([method |-> <<BasicMethod>>, decoded |-> u \o <<Colon>> \o p], w, q))

NextRequest == /\ asked # Idle
               /\ asked' = Idle /\ answer' = None
               /\ UNCHANGED <<fields, data, shown>>

ContentInit == /\ fields = <<>> /\ data = None /\ shown = {}
               /\ asked = Idle /\ answer = None

Keep == \/ \E name \in Names, type \in HtmlTypes : AddField(name, type)
        \/ \E enc \in Encodings, typed \in [Names -> Contents] : Submit(enc, typed)
        \/ Populate
        \/ ClearValues

Question == \/ \E enc \in Encodings, es \in Entries : ParseForm(enc, es)
            \/ \E jar \in Jars, https \in BOOLEAN, name \in Names : ReadCookie(jar, https, name)
            \/ \E u, p, w, q \in Credentials : Authorise(u, p, w, q)

ContentNext == \/ asked = Idle /\ Keep
               \/ asked = Idle /\ fields = <<>> /\ Question
               \/ NextRequest

ContentSpec == ContentInit /\ [][ContentNext]_contentvars

-----------------------------------------------------------------------------
(* What should be true.                                                    *)

\* What comes back of a content: url_decode() leaves the + that a space was
\* written as.
Returned(enc, content) ==
  IF enc # "url" THEN content
  ELSE [k \in DOMAIN content |-> IF content[k] = Space THEN Plus ELSE content[k]]

\* What can be told from an encoded entry: the pair encodings carry names and
\* contents, and lose an entry without content (split() drops the delimiter at
\* the end); a plain text has no way to write the delimiters it uses, and names
\* are not decoded.
Carried(enc, es) ==
  IF enc = "multipart" THEN es
  ELSE Subsequence([i \in DOMAIN es |-> FieldData(es[i].name, <<>>, <<>>, Returned(enc, es[i].content))],
                   {i \in DOMAIN es : es[i].content # <<>>})
Unwritable(enc, es) ==
  \/ enc = "plain" /\ \E i \in DOMAIN es : {Equals, CR, LF} \cap Range(es[i].content) # {}
  \/ enc = "url" /\ \E i \in DOMAIN es : PercentEncode(es[i].name) # es[i].name

\* Forms whose encodings can be told apart: names that are different and, as they
\* are taken as they come, without the delimiters; contents of bytes; nothing
\* enclosed that looks like a boundary line.
Submittable(es) ==
  /\ \A i, j \in DOMAIN es : es[i].name = es[j].name => i = j
  /\ \A i \in DOMAIN es :
       /\ es[i].name # <<>> /\ {Equals, Ampersand, Semicolon, CR} \cap Range(es[i].name) = {}
       /\ {Semicolon, CR} \cap Range(es[i].filename) = {} /\ CR \notin Range(es[i].type)
       /\ Range(es[i].content) \subseteq 0..255
       /\ Find(Enclosed(es[i]), <<Dash, Dash>> \o Boundary, 0) = Npos

\* form::parse() gives back what the user filled in, field by field and byte by
\* byte: multipart contents with line ends, dashes and empty lines in them, and
\* urlencoded bytes of any value but a space, which comes back as +; and content()
\* finds each by its name.
ParsedIsSubmitted ==
  asked.kind = "form" /\ Submittable(asked.entries) /\ ~Unwritable(asked.enc, asked.entries) =>
    /\ answer = Carried(asked.enc, asked.entries)
    /\ \A e \in Range(asked.entries) :
         ContentOf(answer, e.name) = IF e.content = <<>> THEN None ELSE Returned(asked.enc, e.content)

\* A form that is served again shows, of each field, only what was submitted
\* under its name since clear_values(): a handler that clears a shared form
\* before it populates it shows nobody the input of somebody else.
ShownSinceCleared == \A r \in Rendered : r[2] = <<>> \/ r \in shown

\* What the syntax of cookies allows of a name and a value (RFC 6265);
\* to_string() writes both as they are.
WellFormed(c) == /\ c.name # <<>> /\ {Equals, Semicolon} \cap Range(c.name) = {}
                 /\ Semicolon \notin Range(c.value) /\ Range(c.name \o c.value) \subseteq 0..255

\* The cookies of a jar that its owner takes to be in force: of those with one
\* name, domain and path that may be sent at all the last one, if it is not over.
InForce(jar, https) ==
  LET sent == {i \in DOMAIN jar : jar[i].secure \/ jar[i].same_site = "none" => https}
      over(c) == IF c.max_age = 0 THEN c.expires = "past" ELSE c.max_age < 0
      place(c) == <<c.name, c.domain, c.path>>
  IN  {i \in sent : ~over(jar[i]) /\ \A j \in sent : place(jar[j]) = place(jar[i]) => j <= i}

\* cookie_value() finds a value in force of that name, whatever other cookies come
\* with it, and nothing if there is none but empty ones.  If there are two, of
\* different places, the browser chooses: a cookie_clear that does not name the
\* place of a cookie leaves it in force.  Values that contain the delimiter of
\* pairs are not promised: the code loses them, or their last character.
\* request::cookie() has these too, as long as one cookie is in force.
CookieFound ==
  asked.kind = "cookie" /\ (\A i \in DOMAIN asked.jar : WellFormed(asked.jar[i])) =>
    LET live == InForce(asked.jar, asked.https)
        values == {asked.jar[k].value : k \in {l \in live : asked.jar[l].name = asked.name}}
    IN  /\ (\A v \in values : Equals \notin Range(v)) =>
             IF values \subseteq {<<>>} THEN answer.value = None ELSE answer.value \in values \ {<<>>}
        /\ Cardinality(live) = 1 /\ values # {} => answer.request \in values

\* basic admits exactly who gives the configured name and password with a colon
\* between them: split() drops one more colon before them and one behind, and what
\* follows a 0 is not looked at.  Nobody is admitted for a name or a password with
\* a colon in it, nor for an empty one without that other colon at its side.
OwnerAdmitted ==
  asked.kind = "auth" =>
    LET typed == UpToZero(asked.typed[1] \o <<Colon>> \o asked.typed[2])
        user == asked.configured[1]
        password == asked.configured[2]
    IN  answer = /\ Colon \notin Range(user) \cup Range(password)
                 /\ \E before, after \in {<<>>, <<Colon>>} :
                      /\ typed = before \o user \o <<Colon>> \o password \o after
                      /\ before \o user # <<>> /\ password \o after # <<>>
=============================================================================
