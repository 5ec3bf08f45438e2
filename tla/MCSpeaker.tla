------------------------------ MODULE MCSpeaker ------------------------------
EXTENDS SpeakerProps, TLC

MCConfig == [rtl |-> FALSE, loop |-> FALSE, history |-> FALSE, fragments |-> TRUE,
             overview |-> TRUE, pause |-> TRUE, autoSlide |-> "off",
             autoSlideStoppable |-> TRUE, keyboard |-> TRUE, touch |-> FALSE,
             mouseWheel |-> FALSE, controls |-> TRUE, progress |-> TRUE, help |-> FALSE,
             previewLinks |-> FALSE, receiver |-> FALSE, viewDistance |-> 3]
MCVerticals == 0 :> 0 @@ 1 :> 2
MCStartIndexV == 1 :> Undef
MCFragmentIndices == <<0>> :> <<>> @@ <<1, 0>> :> <<Undef>> @@ <<1, 1>> :> <<>>
MCFragmentAutoSlide == <<1, 0>> :> <<"">>
MCSlideAutoSlide == <<0>> :> "" @@ <<1>> :> "" @@ <<1, 0>> :> "" @@ <<1, 1>> :> ""
MCSlideId == MCSlideAutoSlide
MCSlug == "" :> ""
MCDataState == <<0>> :> <<>> @@ <<1>> :> <<>> @@ <<1, 0>> :> <<>> @@ <<1, 1>> :> <<>>
MCPlaces == {<<1, 0>>}
=============================================================================
