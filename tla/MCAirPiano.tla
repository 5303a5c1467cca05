---- MODULE MCAirPiano ----
EXTENDS AirPiano
====
