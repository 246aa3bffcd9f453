------------------------------- MODULE MCAssistant -------------------------------
(* Two questions about a lamp.  The model answers at once, proposes one of *)
(* two lamps, fails to read a file or proposes what does not compile, or   *)
(* calls a tool that does not exist, between a text and a broken part.      *)
EXTENDS Assistant

CONSTANTS lampFile, otherFile

TheLowerSnake == {"lamp", "on", "power_switch"}

Lamp(category, encryption) ==
    formToManifest(
        [Template("lamp", category, <<Actuator("power_switch", <<"on">>)>>, <<"matter">>, FALSE)
            EXCEPT !.encryption = encryption])

TheOnDisk == [u \in Uris |-> IF u = lampFile THEN Lamp("light", TRUE) ELSE None]
Call(tool, arg) == [tool |-> tool, arg |-> arg]
TheCompletions ==
    {<<Call("text", None)>>,
     <<Call("propose_device", Lamp("light", FALSE))>>,
     <<Call("text", None), Call("toString", None), Call("propose_device", Lamp("", TRUE)),
       Call("malformed", None), Call("propose_device", Lamp("lamp", TRUE))>>}
TheSettings == {[local |-> FALSE, key |-> TRUE]}
================================================================================
