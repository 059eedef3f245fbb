------------------------------ MODULE DidlLite ------------------------------
(***************************************************************************)
(* parse_didl_lite of browse.rs: the containers and audio items in a page  *)
(* of a Browse answer.  The page is the events of the XML reader: tags     *)
(* without their prefix, and runs of text, which the reader cuts at every  *)
(* entity.  A text is a sequence of characters.                            *)
(***************************************************************************)
EXTENDS Naturals, Sequences, SequencesExt

CONSTANT Urls   \* the texts that are a URL or a path of one

\* resolve_entity; numeric references, which resolve alike, are left out.
Entity == [amp |-> <<"&">>, lt |-> <<"<">>, gt |-> <<">">>, quot |-> <<"\"">>,
           apos |-> <<"'">>]

\* An element that is listed: [is: "container" or "item", id, texts: its
\* elements, as pairs of a tag and a text].
Open(tag, id) == [is |-> "start", tag |-> tag, id |-> id, text |-> <<>>]
Chars(text) == [is |-> "text", tag |-> "", id |-> "", text |-> text]
Ref(name) == [is |-> "ref", tag |-> name, id |-> "", text |-> <<>>]
Close(tag) == [is |-> "end", tag |-> tag, id |-> "", text |-> <<>>]

\* What the XML reader makes of a text: it may cut it anywhere, and does so
\* at every entity.
Cut(text) ==
  [i \in 1 .. Len(text) |->
     IF \E name \in DOMAIN Entity : Entity[name] = <<text[i]>>
     THEN Ref(CHOOSE name \in DOMAIN Entity : Entity[name] = <<text[i]>>)
     ELSE Chars(<<text[i]>>)]

Events(e) ==
  <<Open(e.is, e.id), Chars(<<" ">>)>>
    \o FlattenSeq([i \in 1 .. Len(e.texts) |->
         <<Open(e.texts[i][1], "")>> \o Cut(e.texts[i][2])
           \o <<Close(e.texts[i][1]), Chars(<<" ">>)>>])
    \o <<Close(e.is)>>

Blank == " "
Digit == {"0", "1", "2", "3", "4", "5", "6", "7", "8", "9"}

\* Relative to the device, even nothing resolves.
Resolves(text) == text = <<>> \/ text \in Urls

\* str::trim
Trim(text) ==
  LET ink == {i \in 1 .. Len(text) : text[i] # Blank}
  IN  IF ink = {} THEN <<>>
      ELSE SubSeq(text, CHOOSE i \in ink : \A j \in ink : i <= j,
                        CHOOSE i \in ink : \A j \in ink : i >= j)

ItemTexts == {"title", "artist", "album", "albumArtist", "genre", "class",
              "originalTrackNumber", "date", "albumArtURI", "res"}

\* Outside of a container and an item.
Outside == [is |-> "none", id |-> "", has |-> {}, text |-> [t \in ItemTexts |-> <<>>]]

Start == [node |-> Outside, target |-> "none", containers |-> <<>>, items |-> <<>>]

\* Of several resources the first counts; its attributes are left out.
HandleStart(s, e) ==
  CASE e.tag \in {"container", "item"} ->
         [s EXCEPT !.node = [Outside EXCEPT !.is = e.tag, !.id = e.id]]
    [] e.tag \in ItemTexts \ {"res"} -> [s EXCEPT !.target = e.tag]
    [] e.tag = "res" /\ s.node.is = "item" /\ "res" \notin s.node.has ->
         [s EXCEPT !.target = "res", !.node.has = @ \cup {"res"}]
    [] OTHER -> s

\* A text lands in the item, or in the title of the container, that is open.
Lands(s) ==
  \/ s.node.is = "item" /\ s.target # "none"
  \/ s.node.is = "container" /\ s.target = "title"

\* Fault: a run of text replaces the one before it.
ReplaceText(s, text) ==
  IF Lands(s)
  THEN [s EXCEPT !.node.text[s.target] = text, !.node.has = @ \cup {s.target}]
  ELSE s

ApplyText(s, text) ==
  IF Lands(s)
  THEN [s EXCEPT !.node.text[s.target] = @ \o text, !.node.has = @ \cup {s.target}]
  ELSE s

\* An item without an audio class, a resource, or a URL that resolves, is none.
\* Numbers that do not parse are left out.
FinalizeItem(node) ==
  LET number == Trim(node.text["originalTrackNumber"])
      date == node.text["date"]
      year == IF Len(date) < 4 THEN <<>> ELSE SubSeq(date, 1, 4)
      numeric(text) == text # <<>> /\ ToSet(text) \subseteq Digit
      art == Trim(node.text["albumArtURI"])
      kept == ({"artist", "album", "albumArtist", "genre"} \cap node.has)
                \cup {"title", "res"}
                \cup {t \in {"trackNumber"} : numeric(number)}
                \cup {t \in {"albumArtURI"} \cap node.has : Resolves(art)}
                \cup {t \in {"year"} : numeric(year)}
  IN  IF /\ Contains(node.text["class"], "audioItem")
         /\ "res" \in node.has
         /\ Resolves(node.text["res"])
      THEN <<[song |-> node.id,
              texts |-> [t \in kept |-> CASE t = "trackNumber" -> number
                                          [] t = "year" -> year
                                          [] t = "res" -> node.text[t]
                                          [] OTHER -> Trim(node.text[t])]]>>
      ELSE <<>>

\* Any end tag ends a run of text, not only that of its own element.
HandleEnd(s, e) ==
  LET none == [s EXCEPT !.target = "none"]
  IN  CASE e.tag = "container" /\ s.node.is = "container" ->
             [none EXCEPT !.node = Outside,
                          !.containers = Append(@, [id |-> s.node.id,
                                                    title |-> Trim(s.node.text["title"])])]
        [] e.tag = "item" /\ s.node.is = "item" ->
             [none EXCEPT !.node = Outside, !.items = @ \o FinalizeItem(s.node)]
        [] OTHER -> none

HandleEvent(s, e) ==
  CASE e.is = "start" -> HandleStart(s, e)
    [] e.is = "text"  -> ApplyText(s, e.text)
    [] e.is = "ref"   -> IF e.tag \in DOMAIN Entity THEN ApplyText(s, Entity[e.tag]) ELSE s
    [] e.is = "end"   -> HandleEnd(s, e)
    [] OTHER          -> s

\* One event after the other; the singleton makes TLC compute each state once.
ParseDidlLite(events) ==
  LET after[n \in 0 .. Len(events)] ==
        IF n = 0 THEN Start
        ELSE CHOOSE t \in {HandleEvent(s, events[n]) : s \in {after[n - 1]}} : TRUE
  IN  after[Len(events)]
=============================================================================
