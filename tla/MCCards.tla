------------------------------ MODULE MCCards ------------------------------
(***************************************************************************)
(* Rows of schema.rs, and cards that use one field of each sort; beside    *)
(* them the canonical texts their signatures cover (JcsText) and the       *)
(* digits of the numbers in those (JcsTie).  A behaviour follows one card, *)
(* or compares two texts, or formats one double.                           *)
(***************************************************************************)
EXTENDS Cards

CONSTANTS
  MESSAGES, Utf16, MAX_DEPTH, SafeBits,   \* CanonicalForm, Jcs
  Values, Precision, DecimalPlaces, MaxExp

VARIABLES v, w, x, chosen, result

INSTANCE CanonicalForm
Canon == INSTANCE JcsText WITH MAX_DEPTH <- 2
Tie == INSTANCE JcsTie WITH Places <- DecimalPlaces

Field(presence, shape, kind, of) == [presence |-> presence, shape |-> shape, kind |-> kind, of |-> of]

MCMESSAGES ==
  [AgentCard |->
     (<<"description">> :> Field("Required", "Single", "Str", None)) @@
     (<<"supportedInterfaces">> :> Field("Required", "Repeated", "Message", "AgentInterface")) @@
     (<<"capabilities">> :> Field("Required", "Single", "Message", "AgentCapabilities")) @@
     (<<"securitySchemes">> :> Field("Implicit", "Map", "Message", "SecurityScheme")) @@
     (<<"iconUrl">> :> Field("Optional", "Single", "Str", None)),
   AgentInterface |->
     (<<"url">> :> Field("Required", "Single", "Str", None)) @@
     (<<"tenant">> :> Field("Implicit", "Single", "Str", None)),
   AgentCapabilities |->
     (<<"extensions">> :> Field("Implicit", "Repeated", "Message", "AgentExtension")),
   AgentExtension |->
     (<<"required">> :> Field("Implicit", "Single", "Bool", None)) @@
     (<<"params">> :> Field("Implicit", "Single", "Struct", None)),
   SecurityScheme |->
     (<<"mtlsSecurityScheme">> :> Field("Oneof", "Single", "Message", "MutualTlsSecurityScheme")),
   MutualTlsSecurityScheme |->
     (<<"description">> :> Field("Implicit", "Single", "Str", None))]

Member(key, options, variant) ==
  IF variant = "absent" THEN {} ELSE {<<<<key>>, options[variant]>>}

Text1 == [empty |-> Str(<<>>), set |-> Str(<<"a">>)]
Bool1 == [empty |-> Bool(FALSE), set |-> Bool(TRUE)]
One(key, value) == Obj({<<<<key>>, value>>})
Params == [empty |-> Obj({}), hollow |-> One("x", Str(<<>>)),
           set |-> One("x", Bool(FALSE)), huge |-> One("x", Integer(9))]
Schemes == [empty |-> Obj({}),
            set |-> One("a", One("mtlsSecurityScheme", One("description", Str(<<"a">>))))]

(* The JSON object of a content. *)
Written(c) ==
  LET interface == Obj({<<<<"url">>, Str(<<"a">>)>>} \cup Member("tenant", Text1, c.tenant))
      extension == Obj(Member("required", Bool1, c.required) \cup Member("params", Params, c.params))
  IN  Obj(Member("description", Text1, c.description) \cup Member("iconUrl", Text1, c.iconUrl)
          \cup Member("securitySchemes", Schemes, c.schemes) \cup Member("future", Text1, c.future)
          \cup {<<<<"supportedInterfaces">>, Arr(<<interface>>)>>,
                <<<<"capabilities">>, One("extensions", Arr(<<extension>>))>>})

(* One place of each sort: required, unknown, a map with implicit presence *)
(* and a struct; an optional and an implicit text are there and empty.     *)
MCPlaces ==
  [description |-> {"absent", "empty"}, iconUrl |-> {"empty"}, future |-> {"absent", "set"},
   tenant |-> {"empty"}, required |-> {"absent"}, schemes |-> {"absent", "empty"},
   params |-> {"absent", "empty", "hollow", "huge"}]

MCFirst == [p \in DOMAIN MCPlaces |-> IF p \in {"description", "iconUrl", "tenant"} THEN "empty" ELSE "absent"]

(* The values of MCJcsText, which need no characters to be written down. *)
Given == INSTANCE MCJcsText WITH Values <- {}, Utf16 <- <<>>, MAX_DEPTH <- 2
MCValues == Given!MCValues

(* U+FB33 sorts before U+1F600 by code points, after it by UTF-16.  A name *)
(* that stands for several characters needs a unit of its own only.        *)
MCUtf16 ==
  [description |-> <<1>>, iconUrl |-> <<2>>, securitySchemes |-> <<3>>, future |-> <<4>>,
   supportedInterfaces |-> <<5>>, url |-> <<6>>, tenant |-> <<7>>, capabilities |-> <<8>>,
   extensions |-> <<10>>, required |-> <<11>>, params |-> <<12>>, x |-> <<13>>,
   mtlsSecurityScheme |-> <<14>>,
   a |-> <<97>>, b |-> <<98>>, HT |-> <<9>>, US |-> <<31>>, t |-> <<116>>,
   dalet |-> <<64307>>, smiley |-> <<55357, 56832>>]
    @@ ("\"" :> <<34>>) @@ ("\\" :> <<92>>) @@ ("," :> <<44>>) @@ (":" :> <<58>>)

(* canonical.rs of these cards. *)
MCCanonicalText == [c \in Contents |-> [mode \in Modes |-> TextOf(Written(c), mode)]]

MCKidOf == [current |-> "k1", old |-> "k2", stray |-> "k1", nameless |-> None]
MCTrusted == [k1 |-> "current", k2 |-> None]

CardRests == content = First /\ signatures = <<>> /\ made = {} /\ pinned = None /\ edits = 0
TextsRest == v = Null /\ w = Null
DoubleRests == x = 0

MCInit == Init /\ Canon!Init /\ Tie!Init

MCNext ==
  \/ TextsRest /\ DoubleRests /\ Next /\ UNCHANGED <<v, w, x, chosen, result>>
  \/ CardRests /\ DoubleRests /\ Canon!Next /\ UNCHANGED <<vars, x, chosen, result>>
  \/ CardRests /\ TextsRest /\ Tie!Next /\ UNCHANGED <<vars, v, w>>

MCSpec == MCInit /\ [][MCNext]_<<vars, v, w, x, chosen, result>>

(* Two values have one canonical text if and only if they are the same     *)
(* (jcs.rs canonicalize).                                                  *)
OneTextOneValue == Canon!OneTextOneValue

(* A number's text reads back as the digits and exponent it was written    *)
(* from (jcs.rs number).                                                   *)
NumberReadsBack == Canon!NumberReadsBack

(* Of the shortest and closest digits of a double the even ones are        *)
(* written, whichever the formatter chose (jcs.rs even_on_tie).            *)
ECMAScript == Tie!ECMAScript
=============================================================================
