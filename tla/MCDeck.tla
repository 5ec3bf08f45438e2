------------------------------- MODULE MCDeck -------------------------------
EXTENDS DeckProps, TLC

Plain == [rtl |-> FALSE, loop |-> FALSE, history |-> TRUE, fragments |-> TRUE,
          overview |-> TRUE, pause |-> FALSE, autoSlide |-> "off",
          autoSlideStoppable |-> TRUE, keyboard |-> TRUE, touch |-> FALSE,
          mouseWheel |-> FALSE, controls |-> FALSE, progress |-> TRUE, help |-> FALSE,
          previewLinks |-> FALSE, receiver |-> FALSE, viewDistance |-> 2]
Talk == [Plain EXCEPT !.autoSlide = "on", !.rtl = TRUE, !.overview = FALSE, !.pause = TRUE,
                      !.history = FALSE]
Kiosk == [Plain EXCEPT !.autoSlide = "on", !.autoSlideStoppable = FALSE, !.loop = TRUE,
                       !.keyboard = FALSE, !.mouseWheel = TRUE, !.history = FALSE,
                       !.overview = FALSE, !.controls = TRUE]
Tablet == [Plain EXCEPT !.touch = TRUE, !.keyboard = FALSE, !.progress = FALSE,
                        !.history = FALSE, !.fragments = FALSE, !.controls = TRUE]
Handout == [Plain EXCEPT !.history = FALSE, !.fragments = FALSE, !.overview = FALSE,
                         !.help = TRUE, !.previewLinks = TRUE]

MCConfigs == {Plain, Kiosk, Talk, Tablet, Handout}
MCReconfigured == {<<Kiosk, Plain>>, <<Plain, Handout>>}
MCVerticals == 0 :> 0 @@ 1 :> 2 @@ 2 :> 0
MCStartIndexV == 1 :> Undef
MCFragmentIndices == <<0>> :> <<>> @@ <<1, 0>> :> <<4, Undef, 4>> @@ <<1, 1>> :> <<>> @@ <<2>> :> <<Undef>>
MCFragmentAutoSlide == <<1, 0>> :> <<"", "off", "">> @@ <<2>> :> <<"">>
MCSlideAutoSlide == <<0>> :> "" @@ <<1>> :> "" @@ <<1, 0>> :> "" @@ <<1, 1>> :> "" @@ <<2>> :> "on"
MCSlideId == <<0>> :> "" @@ <<1>> :> "" @@ <<1, 0>> :> "" @@ <<1, 1>> :> "two" @@ <<2>> :> ""
MCSlug == [x \in {"", "two"} |-> x]
MCDataState == <<0>> :> <<>> @@ <<1>> :> <<"a">> @@ <<1, 0>> :> <<>> @@ <<1, 1>> :> <<"b">> @@ <<2>> :> <<"b">>
MCAutoplaySlides == {<<1, 1>>}
MCIframeSlides == {<<2>>}
MCVideoBackgrounds == {<<0>>}
MCAddresses == [c \in MCConfigs |-> CASE c = Plain -> {Hash("", 9, 0)}
                                      [] c = Kiosk -> {Hash("none", 0, 0), Hash("two", 0, 0)}
                                      [] OTHER -> {}]

\* Names, ids and the decks that loop are as the theorems about data-state,
\* addresses and automatic sliding want them.
ASSUME InstanceShape == NamesOnce /\ IdsSurvive /\ LoopsOverMore
=============================================================================
